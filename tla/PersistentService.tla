--------------------------- MODULE PersistentService ---------------------------
(***************************************************************************)
(* persistent_pantograph_service.py between its two ends: the reward       *)
(* function of vendor/grpo_remote.py, one per rank of a training run, and  *)
(* a verification pool of one worker per service, which outlives the runs. *)
(* A run is killed as a whole and started again from the first row of its  *)
(* schedule; a service goes on with the batch of a client that is gone.    *)
(*                                                                         *)
(* A completion is named <<life, client, batch, position>>.  A batch holds *)
(* the completions of one problem; the key of a task is its problem and    *)
(* problem_index, which counts the tasks of one process.                   *)
(***************************************************************************)
EXTENDS Integers, Sequences, FiniteSets

CONSTANTS
    NumServices,      \* PANTOGRAPH_POOL_WORKERS
    NumRanks,         \* processes of the run; 1 in global mode
    ClientMode,       \* PANTOGRAPH_POOL_CLIENT_MODE
    BatchSize,        \* completions a reward call gets
    MaxBatch, MaxLives, MaxFaults,  \* bounds
    MaxTaskRetries, MaxWorkerRestarts

ASSUME ServiceAssumption ==
    /\ {NumServices, NumRanks, BatchSize} \subseteq Nat \ {0}
    /\ ClientMode \in {"rank", "global"}
    /\ {MaxBatch, MaxLives, MaxFaults, MaxTaskRetries, MaxWorkerRestarts} \subseteq Nat

Services == 0 .. NumServices - 1
Ranks == 0 .. NumRanks - 1
Positions == 1 .. BatchSize
Keys == (1 .. MaxBatch) \X (0 .. MaxBatch * BatchSize)
NoKey == <<0, 0>>
Gone == <<0, 0, 0, 0>>  \* no completion: no file, no reward

VARIABLES
    life,      \* runs started so far; 0 before the first
    running,   \* the processes of the run are alive
    client,    \* client[r]: [pc, batch, index, tasks, waiting, verdicts]
    rewards,   \* rewards given: <<completion, completion of the verdict>>
    svc,       \* svc[s]: [pc, stopping, conn, expected, completed]
    backlog,   \* backlog[s]: connections not accepted yet
    pool,      \* pool[s]: the coordinator's side, see NewPool
    worker,    \* worker[s]: [state, gen, key, content]
    queue, results, spool,  \* task queue, result queue and task files
    faults
vars == <<life, running, client, rewards, svc, backlog, pool, worker, queue,
          results, spool, faults>>

clientVars == <<life, running, client, rewards>>
poolVars == <<pool, worker, queue, results, spool>>

NewClient == [pc |-> "new", batch |-> 0, index |-> 0, tasks |-> {},
              waiting |-> {}, verdicts |-> {}]
NewPool == [inflight |-> NoKey, gen |-> 0, retries |-> [k \in Keys |-> 0],
            restarts |-> 0, fatal |-> FALSE, lost |-> {}]
NoRequest == [life |-> 0, rank |-> 0, op |-> "none", tasks |-> {}]
Idle(pc) == [pc |-> pc, stopping |-> FALSE, conn |-> NoRequest,
             expected |-> {}, completed |-> {}]

------------------------------------------------------------------------------
(* The reward function on one rank                                         *)

\* PersistentVerificationPool.__init__, run_batch: who gets a task
ServiceOf(r, index) ==
    IF ClientMode = "rank" THEN r % NumServices ELSE index % NumServices
OwnServices(r) ==
    IF ClientMode = "rank" THEN {r % NumServices} ELSE Services

SetClient(r, c) == client' = [client EXCEPT ![r] = c]
Request(r, op, tasks) == [life |-> life, rank |-> r, op |-> op, tasks |-> tasks]
Requests(s) == {backlog[s][i] : i \in DOMAIN backlog[s]} \cup {svc[s].conn}
Connected(r, s) == \E q \in Requests(s) : q.life = life /\ q.rank = r

\* A run is started when every service has its ready file.
Launch ==
    /\ ~ running /\ life < MaxLives
    /\ life = 0 => \A s \in Services : svc[s].pc = "listening"
    /\ running' = TRUE /\ life' = life + 1
    /\ client' = [r \in Ranks |-> NewClient]
    /\ UNCHANGED <<rewards, svc, backlog, poolVars, faults>>

\* Every process of the run is killed: by hand, or because one of them raised.
Killed == running' = FALSE /\ client' = [r \in Ranks |-> NewClient]

\* A connection to a closed service is refused.
Connect(r, requests) ==
    IF \E s \in DOMAIN requests : svc[s].pc \in {"booting", "closed"}
      THEN Killed /\ UNCHANGED backlog
      ELSE /\ backlog' = [s \in Services |->
                 IF s \in DOMAIN requests THEN Append(backlog[s], requests[s])
                 ELSE backlog[s]]
           /\ UNCHANGED running

\* prewarm_pantograph_workers: rank after rank, with a barrier between
Snapshot(r) ==
    /\ running /\ client[r].pc = "new"
    /\ \A q \in Ranks : q < r => client[q].pc = "started"
    /\ Connect(r, [s \in OwnServices(r) |-> Request(r, "snapshot", {})])
    /\ running' => SetClient(r, [client[r] EXCEPT !.pc = "snapshot",
                                                  !.waiting = OwnServices(r)])
    /\ UNCHANGED <<life, rewards, svc, poolVars, faults>>

\* __call__: completions that are empty, forbidden or not a proof get no task;
\* the others are numbered in their order
Tasks(r, good) ==
    {[key |-> <<client[r].batch + 1, client[r].index + Cardinality({q \in good : q < p})>>,
      content |-> <<life, r, client[r].batch + 1, p>>] : p \in good}
TasksFor(r, s, tasks) == {t \in tasks : ServiceOf(r, t.key[2]) = s}

\* The ranks gather their rewards after every batch.
Together(r) == \A q \in Ranks :
    client[q].pc \notin {"new", "snapshot"} /\ client[q].batch >= client[r].batch

RunBatch(r) ==
    /\ running /\ client[r].pc = "started" /\ client[r].batch < MaxBatch
    /\ Together(r)
    /\ \E good \in SUBSET Positions :
         LET tasks == Tasks(r, good)
             targets == {ServiceOf(r, t.key[2]) : t \in tasks}
         IN  /\ Connect(r, [s \in targets |->
                              Request(r, "run_batch", TasksFor(r, s, tasks))])
             /\ running' => SetClient(r,
                   [client[r] EXCEPT !.pc = "batch", !.batch = @ + 1,
                       !.index = @ + Cardinality(good), !.tasks = tasks,
                       !.waiting = targets, !.verdicts = {}])
    /\ UNCHANGED <<life, rewards, svc, poolVars, faults>>

\* What the completion of a task is rewarded with; no result is a failure.
VerdictFor(r, t) ==
    LET own == {v \in client[r].verdicts : v.key[2] = t.key[2]}  \* by_attempt
    IN  IF own = {} THEN Gone ELSE (CHOOSE v \in own : TRUE).content

\* the rewards of a batch, when all its parts are back
Score(r) ==
    /\ running /\ client[r].pc = "batch" /\ client[r].waiting = {}
    /\ rewards' = rewards \cup
         {<<t.content, VerdictFor(r, t)>> : t \in client[r].tasks}
    /\ SetClient(r, [client[r] EXCEPT !.pc = "started", !.tasks = {},
                                      !.verdicts = {}])
    /\ UNCHANGED <<life, running, svc, backlog, poolVars, faults>>

\* start: a snapshot with a fatal error raises
Started(r) ==
    /\ running /\ client[r].pc = "snapshot" /\ client[r].waiting = {}
    /\ SetClient(r, [client[r] EXCEPT !.pc = "started"])
    /\ UNCHANGED <<life, running, rewards, svc, backlog, poolVars, faults>>

Kill ==
    /\ running /\ Killed /\ UNCHANGED <<life, rewards, svc, backlog, poolVars, faults>>

------------------------------------------------------------------------------
(* serve                                                                   *)

\* The launcher starts the services one after the other.
Boot(s) ==
    /\ svc[s].pc = "booting"
    /\ \A q \in Services : q < s => svc[q].pc = "listening"
    /\ svc' = [svc EXCEPT ![s] = Idle("listening")]
    /\ UNCHANGED <<clientVars, backlog, poolVars, faults>>

\* Mutant of Current: the reply goes to whatever run is there.
CurrentRunning(q) == running

Current(q) == running /\ q.life = life

\* The connections of a service that closes are reset: a run that waits raises.
Close(s) ==
    /\ svc' = [svc EXCEPT ![s] = [Idle("closed") EXCEPT !.stopping = svc[s].stopping]]
    /\ backlog' = [backlog EXCEPT ![s] = <<>>]
    /\ IF \E r \in Ranks : Connected(r, s) /\ running
         THEN Killed ELSE UNCHANGED <<running, client>>

\* The handshake fails when the client is gone, and accept() raises.
Accept(s) ==
    /\ svc[s].pc = "listening" /\ ~ svc[s].stopping /\ backlog[s] # <<>>
    /\ LET q == Head(backlog[s]) IN
       IF Current(q)
         THEN /\ svc' = [svc EXCEPT ![s].pc = q.op, ![s].conn = q]
              /\ backlog' = [backlog EXCEPT ![s] = Tail(@)]
              /\ UNCHANGED <<running, client>>
         ELSE Close(s)
    /\ UNCHANGED <<life, rewards, poolVars, faults>>

\* The reply, which nobody reads when the run is gone.  A fatal error raises.
Reply(s, verdicts) ==
    LET q == svc[s].conn IN
    /\ svc' = [svc EXCEPT ![s] = [Idle("listening") EXCEPT !.stopping = svc[s].stopping]]
    /\ IF ~ Current(q) THEN UNCHANGED <<running, client>>
       ELSE IF pool[s].fatal THEN Killed
       ELSE /\ SetClient(q.rank, [client[q.rank] EXCEPT
                    !.waiting = @ \ {s}, !.verdicts = @ \cup verdicts])
            /\ UNCHANGED running

ReplySnapshot(s) ==
    /\ svc[s].pc = "snapshot"
    /\ Reply(s, {})
    /\ UNCHANGED <<life, rewards, backlog, poolVars, faults>>

\* VerificationPool.run_batch: submit the next task
Submit(s) ==
    /\ svc[s].pc = "run_batch"
    /\ \E t \in svc[s].conn.tasks :
         /\ \A u \in svc[s].conn.tasks : t.key[2] <= u.key[2]
         /\ spool' = [spool EXCEPT ![s][t.key] = t.content]
         /\ queue' = [queue EXCEPT ![s] = Append(@, t.key)]
         /\ svc' = [svc EXCEPT ![s].conn.tasks = @ \ {t}, ![s].expected = @ \cup {t.key}]
    /\ UNCHANGED <<clientVars, backlog, pool, worker, results, faults>>

\* Mutant of BatchComplete: a batch ends when it is submitted.
BatchSubmitted(s) == TRUE

BatchComplete(s) == {v.key : v \in svc[s].completed} = svc[s].expected

ReplyBatch(s) ==
    /\ svc[s].pc = "run_batch" /\ svc[s].conn.tasks = {}
    /\ BatchComplete(s) \/ pool[s].fatal
    /\ Reply(s, svc[s].completed)
    /\ UNCHANGED <<life, rewards, backlog, poolVars, faults>>

\* SIGTERM of the owner: the batch at hand is finished first.
Stop(s) ==
    /\ svc[s].pc # "closed" /\ svc[s].pc # "booting" /\ ~ svc[s].stopping
    /\ faults < MaxFaults /\ faults' = faults + 1
    /\ svc' = [svc EXCEPT ![s].stopping = TRUE]
    /\ UNCHANGED <<clientVars, backlog, poolVars>>

Exit(s) ==
    /\ svc[s].pc = "listening" /\ svc[s].stopping
    /\ Close(s)
    /\ UNCHANGED <<life, rewards, poolVars, faults>>

------------------------------------------------------------------------------
(* The pool of a service: its worker, and drain() while a batch runs       *)

Message(type, s, key, content, success) ==
    [type |-> type, gen |-> worker[s].gen, key |-> key, content |-> content,
     success |-> success]

\* The task is loaded from its file; a missing file is fatal to the worker.
Take(s) ==
    /\ svc[s].pc \notin {"booting", "closed"}
    /\ worker[s].state = "idle" /\ queue[s] # <<>>
    /\ LET key == Head(queue[s])
           content == spool[s][key]
           type == IF content = Gone THEN "fatal" ELSE "started"
       IN  /\ worker' = [worker EXCEPT ![s] =
                 [@ EXCEPT !.state = IF content = Gone THEN "dead" ELSE "busy",
                           !.key = key, !.content = content]]
           /\ results' = [results EXCEPT ![s] =
                 Append(@, Message(type, s, key, content, FALSE))]
    /\ queue' = [queue EXCEPT ![s] = Tail(@)]
    /\ UNCHANGED <<clientVars, svc, backlog, pool, spool, faults>>

Check(s) ==
    /\ svc[s].pc \notin {"booting", "closed"}
    /\ worker[s].state = "busy"
    /\ \E success \in BOOLEAN :
         results' = [results EXCEPT ![s] = Append(@,
            Message("result", s, worker[s].key, worker[s].content, success))]
    /\ worker' = [worker EXCEPT ![s].state = "idle"]
    /\ UNCHANGED <<clientVars, svc, backlog, pool, queue, spool, faults>>

\* Mutant of Requeues: the task of a replaced worker is forgotten.
RequeuesNothing(key) == FALSE

\* Is there a task in flight that the next worker must take again?
Requeues(key) == key # NoKey

\* The task a worker holds of which the coordinator, p, has read no "started":
\* nobody puts it back.  pool[s].lost is a history of these.
Unread(s, p) ==
    IF worker[s].state = "idle" \/ worker[s].content = Gone
      THEN {} ELSE {worker[s].key} \ {NoKey, p.inflight}

\* _restart_worker, with p for the pool it is called in
Restarted(s, p) ==
    LET key == p.inflight
        again == Requeues(key)
        retries == IF again THEN [p.retries EXCEPT ![key] = @ + 1] ELSE p.retries
        tired == again /\ retries[key] > MaxTaskRetries
        worn == p.restarts + 1 > MaxWorkerRestarts
        next == [p EXCEPT !.inflight = NoKey, !.retries = retries,
                          !.lost = @ \cup Unread(s, p)]
    IN  IF tired
          THEN [pool |-> [next EXCEPT !.fatal = TRUE], again |-> FALSE, up |-> FALSE]
          ELSE [pool |-> [next EXCEPT !.restarts = @ + 1, !.fatal = @ \/ worn,
                             !.gen = IF worn THEN @ ELSE @ + 1],
                again |-> again, up |-> ~ worn]

Restart(s, p) ==
    LET r == Restarted(s, p) IN
    /\ pool' = [pool EXCEPT ![s] = r.pool]
    /\ queue' = IF r.again THEN [queue EXCEPT ![s] = Append(@, p.inflight)] ELSE queue
    /\ worker' = [worker EXCEPT ![s] =
          [@ EXCEPT !.state = IF r.up THEN "idle" ELSE "dead", !.gen = r.pool.gen]]

\* The process of the worker ends by itself.  A message it has sent but not
\* flushed is one that is read only after the worker is replaced.
Dies(s) ==
    /\ svc[s].pc \notin {"booting", "closed"} /\ worker[s].state # "dead"
    /\ faults < MaxFaults /\ faults' = faults + 1
    /\ LET w == worker[s] IN worker' = [worker EXCEPT ![s] =
          [w EXCEPT !.state = "dead", !.key = IF w.state = "busy" THEN w.key ELSE NoKey]]
    /\ UNCHANGED <<clientVars, svc, backlog, pool, queue, results, spool>>

\* _monitor_workers, once a drain has found the result queue empty; what was
\* sent may still be on its way.  After a fatal error nobody sees the pool.
Monitors(s) == svc[s].pc = "run_batch" /\ ~ pool[s].fatal

DeadReplaced(s) ==
    /\ Monitors(s) /\ worker[s].state = "dead"
    /\ Restart(s, pool[s])
    /\ UNCHANGED <<clientVars, svc, backlog, results, spool, faults>>

StaleHeartbeat(s) ==
    /\ Monitors(s) /\ worker[s].state # "dead"
    /\ faults < MaxFaults /\ faults' = faults + 1
    /\ Restart(s, pool[s])
    /\ UNCHANGED <<clientVars, svc, backlog, results, spool>>

Drain(s) ==
    /\ svc[s].pc = "run_batch" /\ results[s] # <<>>
    /\ ~ (svc[s].conn.tasks = {} /\ (BatchComplete(s) \/ pool[s].fatal))
    /\ LET m == Head(results[s])
           p == pool[s]
           current == m.gen = p.gen
           accepted == m.type = "result" /\ m.key \in svc[s].expected
                         /\ \A v \in svc[s].completed : v.key # m.key
       IN  /\ CASE m.type = "fatal" /\ current -> Restart(s, p)
                [] m.type = "started" /\ current ->
                     pool' = [pool EXCEPT ![s].inflight = m.key]
                     /\ UNCHANGED <<queue, worker>>
                [] m.type = "result" /\ current /\ p.inflight = m.key ->
                     pool' = [pool EXCEPT ![s].inflight = NoKey]
                     /\ UNCHANGED <<queue, worker>>
                [] OTHER -> UNCHANGED <<pool, queue, worker>>
           /\ spool' = IF m.type = "result" /\ m.success /\ p.inflight # NoKey
                         THEN [spool EXCEPT ![s][p.inflight] = Gone] ELSE spool
           /\ svc' = IF accepted
                       THEN [svc EXCEPT ![s].completed = @ \cup
                                {[key |-> m.key, content |-> m.content]}]
                       ELSE svc
    /\ results' = [results EXCEPT ![s] = Tail(@)]
    /\ UNCHANGED <<clientVars, backlog, faults>>

------------------------------------------------------------------------------
Init ==
    /\ life = 0 /\ running = FALSE /\ client = [r \in Ranks |-> NewClient]
    /\ rewards = {}
    /\ svc = [s \in Services |-> Idle("booting")]
    /\ backlog = [s \in Services |-> <<>>]
    /\ pool = [s \in Services |-> NewPool]
    /\ worker = [s \in Services |-> [state |-> "idle", gen |-> 0, key |-> NoKey,
                                     content |-> Gone]]
    /\ queue = [s \in Services |-> <<>>] /\ results = [s \in Services |-> <<>>]
    /\ spool = [s \in Services |-> [k \in Keys |-> Gone]]
    /\ faults = 0

ClientStep(r) == Snapshot(r) \/ Started(r) \/ RunBatch(r) \/ Score(r)
ServiceStep(s) ==
    \/ Boot(s) \/ Accept(s) \/ ReplySnapshot(s) \/ Submit(s) \/ ReplyBatch(s)
    \/ Exit(s)
PoolStep(s) == Take(s) \/ Check(s) \/ Drain(s) \/ DeadReplaced(s)

Next ==
    \/ Launch \/ Kill
    \/ \E r \in Ranks : ClientStep(r)
    \/ \E s \in Services :
         ServiceStep(s) \/ PoolStep(s) \/ Stop(s) \/ Dies(s) \/ StaleHeartbeat(s)

Spec == Init /\ [][Next]_vars
Fairness ==
    /\ \A r \in Ranks : WF_vars(ClientStep(r))
    /\ \A s \in Services : WF_vars(ServiceStep(s)) /\ WF_vars(Take(s))
                           /\ WF_vars(Check(s)) /\ WF_vars(Drain(s))
                           /\ WF_vars(DeadReplaced(s))
FairSpec == Spec /\ Fairness

------------------------------------------------------------------------------
(* Properties                                                              *)

\* A completion is rewarded by the verdict of its own proof; only a pool that
\* has replaced its worker may answer with what another process verified under
\* the same key (by_attempt, run_batch.accept).
OwnVerdict ==
    \A w \in rewards :
        \/ w[2] = w[1]
        \/ /\ \E s \in Services : pool[s].restarts > 0
           /\ w[2] # Gone /\ w[2][3] = w[1][3]
           /\ <<w[2][1], w[2][2]>> # <<w[1][1], w[1][2]>>

\* A rank that waits for a service is connected to it, and to no other one: no
\* reply is lost or read twice while the run and the service live.
WaitsForAnswer ==
    running => \A r \in Ranks, s \in Services :
        s \in client[r].waiting <=> Connected(r, s)

\* A service waits for a task that went with its worker.
Stranded(s) ==
    svc[s].pc = "run_batch"
    /\ \E k \in svc[s].expected \cap pool[s].lost : \A v \in svc[s].completed : v.key # k

\* A batch that is under way is answered, or its run ends: one service that
\* serves one connection at a time stops no rank for good.  The exception is a
\* worker that dies or is replaced before its "started" is read: run_batch then
\* waits for ever for the task that went with it.
BatchAnswers ==
    \A r \in Ranks : running /\ client[r].pc = "batch"
        ~> \/ ~ running \/ client[r].pc # "batch"
           \/ \E s \in Services : Stranded(s)
=============================================================================

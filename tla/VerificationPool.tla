--------------------------- MODULE VerificationPool ---------------------------
(***************************************************************************)
(* The coordinator of lean_training/verification/pool.py: start, run_batch *)
(* (submit, drain, accept), the monitor that restarts workers, and close.  *)
(* The coordinator is one thread; pc says where it stands.  Calls that     *)
(* return to several places keep their return point in a variable: caller  *)
(* for drain and the monitor pass, site for _restart_worker.               *)
(***************************************************************************)
EXTENDS PoolWorker

CONSTANTS
    MaxRestarts,   \* config.max_worker_restarts
    MaxRetries,    \* config.max_task_retries
    Batches        \* the batches run_batch is called with, in order

ASSUME LimitsAssumption == MaxRestarts \in Nat /\ MaxRetries \in Nat
ASSUME BatchesAssumption == Batches \in Seq(SUBSET Tasks)

VARIABLES
    ready,       \* worker -> report of its current generation ("no": none yet)
    restarts,    \* worker -> worker_restart_counts
    fatal,       \* fatal_errors is not empty (nothing ever clears it)
    inFlight,    \* worker -> in_flight
    retries,     \* task -> task_retries
    buffered,    \* buffered_results
    pc, caller, site,
    scan,        \* next worker of the monitor pass, of close
    target,      \* the worker _restart_worker is about
    requeued,    \* the task _restart_worker is putting back
    submitting,  \* the task submit() is putting
    drained,     \* results drain() collected, then those accept() goes through
    batch, todo, expected, completed,
    results,     \* run.results of the current call, as on_result saw them
    outcome      \* how the current or last call of run_batch stands

poolVars == <<ready, restarts, fatal, inFlight, retries, buffered, pc, caller,
              site, scan, target, requeued, submitting, drained, batch, todo,
              expected, completed, results, outcome>>
vars == <<workerVars, poolVars>>

controlVars == <<pc, caller, site, scan, target, requeued>>
batchVars == <<submitting, batch, todo, expected, completed, results, outcome>>

Results == [task : Tasks \cup {NoTask}, status : Statuses]
PCs == {"down", "start", "batch", "put", "drain", "monitor", "requeue",
        "accept", "wait", "returned", "close", "join", "closed"}
Callers == {"none", "start", "startMonitor", "full", "put", "submitted", "wait"}

PoolTypeOK ==
    /\ ready \in [Workers -> {"no"} \cup Statuses]
    /\ restarts \in [Workers -> Nat]
    /\ fatal \in BOOLEAN
    /\ inFlight \in [Workers -> Tasks \cup {NoTask}]
    /\ retries \in [Tasks -> Nat]
    /\ buffered \in Seq(Results)
    /\ drained \in Seq(Results)

ControlTypeOK ==
    /\ pc \in PCs
    /\ caller \in Callers
    /\ site \in {"none", "drain", "monitor"}
    /\ scan \in 0 .. NumWorkers
    /\ target \in Workers
    /\ requeued \in Tasks \cup {NoTask}

BatchTypeOK ==
    /\ submitting \in Tasks \cup {NoTask}
    /\ batch \in 0 .. Len(Batches)
    /\ todo \subseteq Tasks
    /\ expected \subseteq Tasks
    /\ completed \subseteq Tasks
    /\ results \in Seq(Results)
    /\ outcome \in {"none", "running", "complete", "partial", "raised"}

\* The type invariant, which the inductive invariants below build on.
TypeOK == WorkerTypeOK /\ PoolTypeOK /\ ControlTypeOK /\ BatchTypeOK

Init ==
    /\ WorkerInit
    /\ ready = [w \in Workers |-> "no"]
    /\ restarts = [w \in Workers |-> 0]
    /\ fatal = FALSE
    /\ inFlight = [w \in Workers |-> NoTask]
    /\ retries = [t \in Tasks |-> 0]
    /\ buffered = <<>> /\ drained = <<>>
    /\ pc = "down" /\ caller = "none" /\ site = "none"
    /\ scan = 0 /\ target = 0 /\ requeued = NoTask /\ submitting = NoTask
    /\ batch = 0 /\ todo = {} /\ expected = {} /\ completed = {}
    /\ results = <<>> /\ outcome = "none"

AllReady == \A w \in Workers : ready[w] # "no"

-----------------------------------------------------------------------------
(* run_batch and start.                                                    *)

\* A caller hands over the next batch; the first call spawns every worker.
RunBatch ==
    /\ pc \in {"down", "returned"}
    /\ batch < Len(Batches)
    /\ batch' = batch + 1
    /\ todo' = Batches[batch + 1]
    /\ expected' = {} /\ completed' = {} /\ results' = <<>>
    /\ outcome' = "running"
    /\ \/ /\ pc = "down"
          /\ state' = [w \in Workers |-> "booting"]
          /\ pc' = "start"
       \/ /\ pc = "returned"
          /\ pc' = "batch"
          /\ UNCHANGED state
    /\ UNCHANGED <<held, canceled, generation, taskQueue, resultQueue, spool,
                   faults, ready, restarts, fatal, inFlight, retries, buffered,
                   caller, site, scan, target, requeued, submitting, drained>>

StartDrains ==
    /\ pc = "start" /\ ~AllReady
    /\ pc' = "drain" /\ caller' = "start"
    /\ UNCHANGED <<workerVars, ready, restarts, fatal, inFlight, retries,
                   buffered, site, scan, target, requeued, drained, batchVars>>

Started ==
    /\ pc = "start" /\ AllReady
    /\ pc' = "batch"
    /\ UNCHANGED <<workerVars, ready, restarts, fatal, inFlight, retries,
                   buffered, caller, site, scan, target, requeued, drained,
                   batchVars>>

\* submit(): spool the task, then put it into its shard's queue.
Submit(t) ==
    /\ pc = "batch" /\ t \in todo
    /\ todo' = todo \ {t}
    /\ expected' = expected \cup {t}
    /\ spool' = spool \cup {t}
    /\ submitting' = t
    /\ pc' = "put"
    /\ UNCHANGED <<state, held, canceled, generation, taskQueue, resultQueue,
                   faults, ready, restarts, fatal, inFlight, retries, buffered,
                   caller, site, scan, target, requeued, drained, batch,
                   completed, results, outcome>>

\* There was room: run_batch accepts what submit buffered, then drains.
Put ==
    /\ pc = "put"
    /\ LET w == ShardOf(submitting) IN
         /\ Len(taskQueue[w]) < QueueMax
         /\ taskQueue' = [taskQueue EXCEPT ![w] = Append(@, submitting)]
    /\ submitting' = NoTask
    /\ drained' = buffered /\ buffered' = <<>>
    /\ pc' = "accept" /\ caller' = "put"
    /\ UNCHANGED <<state, held, canceled, generation, resultQueue, spool,
                   faults, ready, restarts, fatal, inFlight, retries, site,
                   scan, target, requeued, batch, todo, expected, completed,
                   results, outcome>>

\* queue.Full after a second: drain and try again.
PutFull ==
    /\ pc = "put"
    /\ Len(taskQueue[ShardOf(submitting)]) >= QueueMax
    /\ pc' = "drain" /\ caller' = "full"
    /\ UNCHANGED <<workerVars, ready, restarts, fatal, inFlight, retries,
                   buffered, site, scan, target, requeued, drained, batchVars>>

AllSubmitted ==
    /\ pc = "batch" /\ todo = {}
    /\ pc' = "wait"
    /\ UNCHANGED <<workerVars, ready, restarts, fatal, inFlight, retries,
                   buffered, caller, site, scan, target, requeued, drained,
                   batchVars>>

WaitDrains ==
    /\ pc = "wait" /\ completed # expected /\ ~fatal
    /\ pc' = "drain" /\ caller' = "wait"
    /\ UNCHANGED <<workerVars, ready, restarts, fatal, inFlight, retries,
                   buffered, site, scan, target, requeued, drained, batchVars>>

\* run_batch returns: a partial run carries the fatal errors.
Return ==
    /\ pc = "wait" /\ (completed = expected \/ fatal)
    /\ outcome' = IF completed = expected THEN "complete" ELSE "partial"
    /\ pc' = "returned"
    /\ UNCHANGED <<workerVars, ready, restarts, fatal, inFlight, retries,
                   buffered, caller, site, scan, target, requeued, drained,
                   submitting, batch, todo, expected, completed, results>>

\* Mutant of IsNew: repeated keys are not skipped.
IsExpected(r) == r.task \in expected

\* accept() skips results of other batches and repeated keys.
IsNew(r) == r.task \in expected \ completed

Accept ==
    /\ pc = "accept" /\ drained # <<>>
    /\ LET r == Head(drained) IN
         IF IsNew(r)
         THEN /\ completed' = completed \cup {r.task}
              /\ results' = Append(results, r)
         ELSE UNCHANGED <<completed, results>>
    /\ drained' = Tail(drained)
    /\ UNCHANGED <<workerVars, ready, restarts, fatal, inFlight, retries,
                   buffered, controlVars, submitting, batch, todo, expected,
                   outcome>>

Accepted ==
    /\ pc = "accept" /\ drained = <<>>
    /\ \/ caller = "put" /\ pc' = "drain" /\ caller' = "submitted"
       \/ caller = "submitted" /\ pc' = "batch" /\ caller' = "none"
       \/ caller = "wait" /\ pc' = "wait" /\ caller' = "none"
    /\ UNCHANGED <<workerVars, ready, restarts, fatal, inFlight, retries,
                   buffered, site, scan, target, requeued, drained, batchVars>>

-----------------------------------------------------------------------------
(* _restart_worker: kill, put the in-flight task back, spawn a replacement. *)

\* Mutant of Continue: the scan advances whoever called _restart_worker.
ContinueAdvances(from) == pc' = from /\ site' = "none" /\ scan' = scan + 1

\* Where _restart_worker returns to.
Continue(from) ==
    /\ pc' = from
    /\ site' = "none"
    /\ scan' = IF from = "monitor" THEN scan + 1 ELSE scan

\* Mutant of Kill: the old process is left running with its task.
KillSpares(w) == inFlight' = [inFlight EXCEPT ![w] = NoTask] /\ UNCHANGED held

Kill(w) == /\ held' = [held EXCEPT ![w] = NoTask]
           /\ inFlight' = [inFlight EXCEPT ![w] = NoTask]

\* Count the restart; past the limit the worker stays dead.
Respawn(w) ==
    /\ restarts' = [restarts EXCEPT ![w] = @ + 1]
    /\ IF restarts[w] + 1 > MaxRestarts
       THEN /\ fatal' = TRUE
            /\ state' = [state EXCEPT ![w] = "exited"]
            /\ UNCHANGED <<canceled, generation, ready>>
       ELSE /\ generation' = [generation EXCEPT ![w] = @ + 1]
            /\ state' = [state EXCEPT ![w] = "booting"]
            /\ canceled' = [canceled EXCEPT ![w] = {}]
            /\ ready' = [ready EXCEPT ![w] = "no"]
            /\ UNCHANGED fatal

RestartWorker(w, from) ==
    /\ Kill(w)
    /\ LET t == inFlight[w] IN
         \/ /\ t = NoTask
            /\ Respawn(w)
            /\ Continue(from)
            /\ UNCHANGED <<retries, target, requeued>>
         \/ /\ t # NoTask /\ retries[t] + 1 > MaxRetries
            /\ retries' = [retries EXCEPT ![t] = @ + 1]
            /\ fatal' = TRUE
            /\ state' = [state EXCEPT ![w] = "exited"]
            /\ Continue(from)
            /\ UNCHANGED <<canceled, generation, ready, restarts, target,
                           requeued>>
         \/ /\ t # NoTask /\ retries[t] + 1 <= MaxRetries
            /\ retries' = [retries EXCEPT ![t] = @ + 1]
            /\ state' = [state EXCEPT ![w] = "exited"]
            /\ pc' = "requeue" /\ site' = from
            /\ target' = w /\ requeued' = t
            /\ UNCHANGED <<canceled, generation, ready, restarts, fatal, scan>>
    /\ UNCHANGED <<taskQueue, spool, buffered, caller>>

\* The put has no timeout, and comes before the replacement is spawned.
Requeue ==
    /\ pc = "requeue"
    /\ Len(taskQueue[target]) < QueueMax
    /\ taskQueue' = [taskQueue EXCEPT ![target] = Append(@, requeued)]
    /\ requeued' = NoTask
    /\ Respawn(target)
    /\ Continue(site)
    /\ UNCHANGED <<held, resultQueue, spool, faults, inFlight, retries,
                   buffered, caller, target, drained, batchVars>>

-----------------------------------------------------------------------------
(* drain: messages one by one until the queue is empty, then the monitor.  *)

Message == Head(resultQueue)

\* Mutant of Stale: generations are not compared.
NeverStale == FALSE

Stale == Message.gen # generation[Message.worker]

Receive(type) ==
    /\ pc = "drain" /\ resultQueue # <<>>
    /\ Message.type = type
    /\ resultQueue' = Tail(resultQueue)

\* A lifecycle message of a replaced process is obsolete.
ReceiveStale ==
    /\ \E type \in MessageTypes \ {"result"} : Receive(type)
    /\ Stale
    /\ UNCHANGED <<state, held, canceled, generation, taskQueue, spool, faults,
                   poolVars>>

\* Any report of the current generation, a failed one too, makes it ready.
ReceiveWarmup ==
    /\ Receive("warmup") /\ ~Stale
    /\ ready' = [ready EXCEPT ![Message.worker] = Message.status]
    /\ UNCHANGED <<state, held, canceled, generation, taskQueue, spool, faults,
                   restarts, fatal, inFlight, retries, buffered, controlVars,
                   drained, batchVars>>

ReceiveStarted ==
    /\ Receive("started") /\ ~Stale
    /\ inFlight' = [inFlight EXCEPT ![Message.worker] = Message.task]
    /\ UNCHANGED <<state, held, canceled, generation, taskQueue, spool, faults,
                   ready, restarts, fatal, retries, buffered, controlVars,
                   drained, batchVars>>

\* Mutant of Unlinked: a success removes its own task's file.
UnlinkedOwn == IF Message.status = "success" THEN {Message.task} ELSE {}

\* A success removes the spool file of whatever is in flight at its worker.
Unlinked ==
    IF Message.status = "success" THEN {inFlight[Message.worker]} ELSE {}

\* Results of replaced processes count too.
ReceiveResult ==
    /\ Receive("result")
    /\ LET w == Message.worker
           t == Message.task
       IN /\ inFlight' = IF ~Stale /\ inFlight[w] = t
                         THEN [inFlight EXCEPT ![w] = NoTask] ELSE inFlight
          /\ drained' = Append(drained, [task |-> t, status |-> Message.status])
          /\ spool' = spool \ Unlinked
    /\ UNCHANGED <<state, held, canceled, generation, taskQueue, faults, ready,
                   restarts, fatal, retries, buffered, controlVars, batchVars>>

ReceiveFatal ==
    /\ Receive("fatal") /\ ~Stale
    /\ RestartWorker(Message.worker, "drain")
    /\ UNCHANGED <<faults, drained, batchVars>>

ReceiveDone ==
    /\ Receive("done") /\ ~Stale
    /\ UNCHANGED <<state, held, canceled, generation, taskQueue, spool, faults,
                   poolVars>>

DrainedAll ==
    /\ pc = "drain" /\ resultQueue = <<>>
    /\ pc' = "monitor" /\ scan' = 0
    /\ UNCHANGED <<workerVars, ready, restarts, fatal, inFlight, retries,
                   buffered, caller, site, target, requeued, drained, batchVars>>

-----------------------------------------------------------------------------
(* _monitor_workers: one worker after the other.                           *)

\* Mutant of SeenDead: exits are only noticed while the pool starts.
SeenDeadAtStart(w) == state[w] = "exited" /\ caller \in {"start", "startMonitor"}

SeenDead(w) == state[w] = "exited"

MonitorDead ==
    /\ pc = "monitor" /\ scan < NumWorkers
    /\ SeenDead(scan)
    /\ RestartWorker(scan, "monitor")
    /\ UNCHANGED <<resultQueue, faults, drained, batchVars>>

\* The last heartbeat of a ready worker is too old (never during start).
MonitorStale ==
    /\ pc = "monitor" /\ scan < NumWorkers
    /\ Alive(scan) /\ ready[scan] # "no"
    /\ caller \notin {"start", "startMonitor"}
    /\ Fault
    /\ RestartWorker(scan, "monitor")
    /\ UNCHANGED <<resultQueue, drained, batchVars>>

MonitorHealthy ==
    /\ pc = "monitor" /\ scan < NumWorkers
    /\ ~SeenDead(scan)
    /\ scan' = scan + 1
    /\ UNCHANGED <<workerVars, ready, restarts, fatal, inFlight, retries,
                   buffered, pc, caller, site, target, requeued, drained,
                   batchVars>>

\* drain() returns its results to run_batch.
DrainReturns ==
    /\ pc = "monitor" /\ scan = NumWorkers
    /\ caller \in {"submitted", "wait"}
    /\ pc' = "accept"
    /\ UNCHANGED <<workerVars, ready, restarts, fatal, inFlight, retries,
                   buffered, caller, site, scan, target, requeued, drained,
                   batchVars>>

\* An exception leaves run_batch; every caller closes the pool.
RaiseError ==
    /\ pc' = "close" /\ caller' = "none" /\ scan' = 0
    /\ outcome' = "raised"
    /\ UNCHANGED <<batch, submitting, todo, expected, completed, results>>

\* Mutant of Extended: what drain() returned is not kept.
Unkept == buffered

\* buffered_results.extend(drain())
Extended == buffered \o drained

\* drain() returns to submit's queue.Full handler, which raises or retries.
FullReturns ==
    /\ pc = "monitor" /\ scan = NumWorkers /\ caller = "full"
    /\ buffered' = Extended
    /\ drained' = <<>>
    /\ \/ fatal /\ RaiseError
       \/ /\ ~fatal
          /\ pc' = "put" /\ caller' = "none"
          /\ UNCHANGED <<scan, batchVars>>
    /\ UNCHANGED <<workerVars, ready, restarts, fatal, inFlight, retries, site,
                   target, requeued>>

\* start() drops what drain() returned and runs a second monitor pass.
StartMonitors ==
    /\ pc = "monitor" /\ scan = NumWorkers /\ caller = "start"
    /\ caller' = "startMonitor" /\ scan' = 0
    /\ drained' = <<>>
    /\ UNCHANGED <<workerVars, ready, restarts, fatal, inFlight, retries,
                   buffered, pc, site, target, requeued, batchVars>>

StartContinues ==
    /\ pc = "monitor" /\ scan = NumWorkers /\ caller = "startMonitor"
    /\ \/ /\ fatal /\ RaiseError
          /\ UNCHANGED faults
       \/ /\ ~fatal /\ Fault /\ RaiseError   \* TimeoutError at the deadline
       \/ /\ ~fatal
          /\ pc' = "start" /\ caller' = "none"
          /\ UNCHANGED <<scan, faults, batchVars>>
    /\ UNCHANGED <<state, held, canceled, generation, taskQueue, resultQueue,
                   spool, ready, restarts, fatal, inFlight, retries, buffered,
                   site, target, requeued, drained>>

-----------------------------------------------------------------------------
(* close: a None for every queue with room, then join or kill each worker. *)

Close ==
    /\ pc = "returned"
    /\ pc' = "close" /\ scan' = 0
    /\ UNCHANGED <<workerVars, ready, restarts, fatal, inFlight, retries,
                   buffered, caller, site, target, requeued, drained, batchVars>>

CloseSignals ==
    /\ pc = "close"
    /\ pc' = "join"
    /\ taskQueue' = [w \in Workers |-> IF Len(taskQueue[w]) < QueueMax
                                       THEN Append(taskQueue[w], NoTask)
                                       ELSE taskQueue[w]]
    /\ UNCHANGED <<state, held, canceled, generation, resultQueue, spool, faults,
                   ready, restarts, fatal, inFlight, retries, buffered, caller,
                   site, scan, target, requeued, drained, batchVars>>

\* The worker has exited, or its join timed out and it is killed.
CloseJoins ==
    /\ pc = "join" /\ scan < NumWorkers
    /\ \/ ~Alive(scan) /\ UNCHANGED <<state, held>>
       \/ Alive(scan) /\ Goto(scan, "exited", NoTask)
    /\ scan' = scan + 1
    /\ UNCHANGED <<canceled, generation, taskQueue, resultQueue, spool, faults,
                   ready, restarts, fatal, inFlight, retries, buffered, pc,
                   caller, site, target, requeued, drained, batchVars>>

Closed ==
    /\ pc = "join" /\ scan = NumWorkers
    /\ pc' = "closed"
    /\ state' = [w \in Workers |-> "none"]
    /\ inFlight' = [w \in Workers |-> NoTask]
    /\ buffered' = <<>>
    /\ UNCHANGED <<held, canceled, generation, taskQueue, resultQueue, spool,
                   faults, ready, restarts, fatal, retries, caller, site, scan,
                   target, requeued, drained, batchVars>>

-----------------------------------------------------------------------------
\* What the coordinator does by itself, the environment's choices aside.
Coordinator ==
    \/ StartDrains \/ Started \/ (\E t \in todo : Submit(t)) \/ Put \/ PutFull
    \/ AllSubmitted \/ WaitDrains \/ Return \/ Accept \/ Accepted \/ Requeue
    \/ ReceiveStale \/ ReceiveWarmup \/ ReceiveStarted \/ ReceiveResult
    \/ ReceiveFatal \/ ReceiveDone \/ DrainedAll
    \/ MonitorDead \/ MonitorHealthy \/ DrainReturns \/ FullReturns
    \/ StartMonitors \/ StartContinues
    \/ CloseSignals \/ CloseJoins \/ Closed

\* A closed pool is the only place where the system may stop.
Terminated == pc = "closed" /\ UNCHANGED vars

Worker(w) == (WorkerProgress(w) \/ WorkerFault(w)) /\ UNCHANGED poolVars

Next ==
    \/ RunBatch \/ Close \/ Coordinator \/ MonitorStale
    \/ \E w \in Workers : Worker(w)
    \/ Terminated

Spec == Init /\ [][Next]_vars

\* The coordinator thread and the workers' own steps are scheduled; faults,
\* heartbeat time-outs and what the caller does next are not.
Fairness ==
    /\ WF_vars(Coordinator)
    /\ \A w \in Workers : WF_vars(WorkerProgress(w) /\ UNCHANGED poolVars)

FairSpec == Spec /\ Fairness

-----------------------------------------------------------------------------
(* Properties.                                                             *)

\* run_batch does what BatchVerification promises: tasks that were retried, and
\* results that surface from replaced processes, are still delivered once.
Promise == INSTANCE BatchVerification WITH
    submitted <- expected,
    delivered <- [i \in 1 .. Len(results) |-> results[i].task]
DeliversOnce == Promise!Spec

\* Killing, retrying and requeueing never leave two live copies of a task: it
\* is queued once, held by one process, or in the coordinator's hands.
Queued(t) == {p \in Workers \X (1 .. QueueMax) :
                p[2] <= Len(taskQueue[p[1]]) /\ taskQueue[p[1]][p[2]] = t}
Holders(t) == {w \in Workers : held[w] = t}
InHand(t) == (IF requeued = t THEN 1 ELSE 0) + (IF submitting = t THEN 1 ELSE 0)
SingleCopy ==
    \A t \in Tasks : Cardinality(Queued(t)) + Cardinality(Holders(t)) + InHand(t) <= 1

\* in_flight is never left behind: the recorded task is being verified by the
\* live process, its result is still to be read, or that process failed.
ResultPending(w, t) ==
    \E i \in 1 .. Len(resultQueue) :
        LET m == resultQueue[i] IN
        m.type = "result" /\ m.worker = w /\ m.task = t /\ m.gen = generation[w]
InFlightAccounted ==
    \A w \in Workers : inFlight[w] # NoTask =>
        \/ held[w] = inFlight[w] /\ state[w] \in {"verifying", "hung"}
        \/ ResultPending(w, inFlight[w])
        \/ state[w] \in {"failing", "stopping", "exited"}

\* Every task that can still be dequeued has its spool file: removing the file
\* of an in-flight task never starves a retry of the same task.
SpoolBacked ==
    /\ \A w \in Workers : \A i \in 1 .. Len(taskQueue[w]) :
            taskQueue[w][i] \in spool \cup {NoTask}
    /\ \A w \in Workers : inFlight[w] \in spool \cup {NoTask}
    /\ {requeued, submitting} \subseteq spool \cup {NoTask}

\* Messages of a replaced process are all read before its successor has a task
\* in flight, so a stale result never touches the successor's task.
StaleBeforeInFlight ==
    \A i \in 1 .. Len(resultQueue) :
        LET m == resultQueue[i] IN
        inFlight[m.worker] # NoTask => m.gen = generation[m.worker]

\* A canceled attempt is only reported after a success of the same problem.
CanceledAfterSuccess ==
    \A i \in 1 .. Len(results) : results[i].status = "canceled" =>
        \E j \in 1 .. i - 1 : /\ results[j].status = "success"
                              /\ results[j].task[1] = results[i].task[1]

\* run_batch never waits for results that nothing can produce any more.
Quiescent == resultQueue = <<>> /\ \A w \in Workers :
                state[w] = "idle" /\ taskQueue[w] = <<>>
NoStrandedBatch ==
    pc = "wait" /\ Quiescent => completed = expected \/ fatal

\* run_batch returns or raises.
BatchReturns == (outcome = "running") ~> (outcome # "running")

-----------------------------------------------------------------------------
(* Inductive strengthenings.                                               *)

\* TypeOK needs that a process at work has a task, and that _restart_worker
\* knows where to return to.
HoldsTask == \A w \in Workers :
    state[w] \in {"loaded", "verifying", "hung"} => held[w] \in Tasks
RequeueReturns == pc = "requeue" =>
    /\ site \in {"drain", "monitor"}
    /\ site = "monitor" => scan < NumWorkers
TypeInv == TypeOK /\ HoldsTask /\ RequeueReturns

\* StaleBeforeInFlight needs the queue to be sorted by generation for each
\* worker, and the task popped before its worker's generation advances.
GenerationsSorted ==
    \A i, j \in 1 .. Len(resultQueue) :
        i < j /\ resultQueue[i].worker = resultQueue[j].worker
            => resultQueue[i].gen <= resultQueue[j].gen
NoFutureGeneration ==
    \A i \in 1 .. Len(resultQueue) :
        resultQueue[i].gen <= generation[resultQueue[i].worker]
RequeuePopped == pc = "requeue" => inFlight[target] = NoTask
StaleInv ==
    GenerationsSorted /\ NoFutureGeneration /\ RequeuePopped /\ StaleBeforeInFlight
\* What the coordinator knows of worker w depends on the messages of its live
\* generation g in the result queue q, and on what is recorded in flight, f; what
\* the process does, on the task it holds, h, and on its state, s.
From(q, i, w, g, type) == q[i].type = type /\ q[i].worker = w /\ q[i].gen = g

\* InFlightAccounted needs the same of tasks whose "started" is not read yet, and
\* that nothing is in flight at a worker, or to be read of it, before it is spawned.
Ended == {"none", "failing", "stopping", "exited"}
AccountedFor(q, i, w, g, h, s, t) ==
    \/ h = t /\ s \in {"verifying", "hung"}
    \/ \E j \in i + 1 .. Len(q) : From(q, j, w, g, "result") /\ q[j].task = t
    \/ s \in Ended
Accounts(q, w, g, f, h, s) ==
    /\ \A i \in 1 .. Len(q) :
         From(q, i, w, g, "started") => AccountedFor(q, i, w, g, h, s, q[i].task)
    /\ f # NoTask => AccountedFor(q, 0, w, g, h, s, f)
TasksAccounted ==
    \A w \in Workers :
        Accounts(resultQueue, w, generation[w], inFlight[w], held[w], state[w])
SpawnedFirst ==
    /\ pc = "down" => \A w \in Workers : state[w] = "none"
    /\ \A w \in Workers : state[w] = "none" =>
         /\ inFlight[w] = NoTask
         /\ pc = "closed" \/ \A i \in 1 .. Len(resultQueue) : resultQueue[i].worker # w
AccountInv == SpawnedFirst /\ TasksAccounted

\* What SingleCopy takes from the callers: no task is handed over twice.  They
\* number the problems of a pool once (grpo_remote counts _next_problem_index up).
DisjointBatches ==
    \A i, j \in 1 .. Len(Batches) : i # j => Batches[i] \cap Batches[j] = {}

\* SingleCopy needs that everything about a task happens at its shard, and that a
\* task still to be submitted has left no trace.
Unused == todo \cup UNION {Batches[k] : k \in batch + 1 .. Len(Batches)}
Placed(u, w, t) == t # NoTask => ShardOf(t) = w /\ t \notin u
QueuePlaced(u, w, d) == \A i \in 1 .. Len(d) : Placed(u, w, d[i])
MessagesPlaced(u, q) == \A i \in 1 .. Len(q) : Placed(u, q[i].worker, q[i].task)
TasksPlaced ==
    /\ \A w \in Workers : /\ QueuePlaced(Unused, w, taskQueue[w])
                          /\ Placed(Unused, w, held[w])
                          /\ Placed(Unused, w, inFlight[w])
    /\ MessagesPlaced(Unused, resultQueue)
    /\ Placed(Unused, target, requeued)
    /\ submitting # NoTask => submitting \notin Unused
TodoOnce == \A k \in batch + 1 .. Len(Batches) : Batches[k] \cap todo = {}

\* Worker w has, or is about to be recorded to have, task t.
Taken(q, w, g, f, h, t) ==
    \/ h = t
    \/ f = t
    \/ \E i \in 1 .. Len(q) : From(q, i, w, g, "started") /\ q[i].task = t

\* Task queue d, the coordinator's hands (r: requeued, b: submitting) and worker w
\* have no task in common, and the live process starts a task once.
QueuedOnce(d, q, w, g, f, h, r, b) ==
    \A i \in 1 .. Len(d) : d[i] # NoTask =>
        /\ \A j \in 1 .. Len(d) : d[j] = d[i] => j = i
        /\ ~Taken(q, w, g, f, h, d[i])
        /\ d[i] # r /\ d[i] # b
InHandOnce(q, w, g, f, h, r, b) ==
    /\ r # NoTask => ~Taken(q, w, g, f, h, r) /\ r # b
    /\ b # NoTask => ~Taken(q, w, g, f, h, b)
StartedOnce(q, w, g, f, h, s) ==
    /\ \A i \in 1 .. Len(q) : From(q, i, w, g, "started") =>
         /\ q[i].task # NoTask /\ q[i].task # f
         /\ \A j \in 1 .. Len(q) :
              From(q, j, w, g, "started") /\ q[j].task = q[i].task => j = i
         /\ s = "loaded" => h # q[i].task
    /\ s = "loaded" => h # f
Copies(d, q, w, g, f, h, s, r, b) ==
    /\ QueuedOnce(d, q, w, g, f, h, r, b)
    /\ InHandOnce(q, w, g, f, h, r, b)
    /\ StartedOnce(q, w, g, f, h, s)
CopiesApart ==
    \A w \in Workers :
        Copies(taskQueue[w], resultQueue, w, generation[w], inFlight[w], held[w],
               state[w], requeued, submitting)
CopyInv == TasksPlaced /\ TodoOnce /\ CopiesApart

\* SpoolBacked needs that a result answers the "started" before it, and that the
\* files of tasks not yet recorded in flight are there.  As far as the messages
\* before position j tell, w works on t:
WorksOn(q, j, w, g, f, t) ==
    /\ \A i \in 1 .. j - 1 :
         (/\ From(q, i, w, g, "started")
          /\ \A k \in i + 1 .. j - 1 : ~From(q, k, w, g, "started"))
            => q[i].task = t
    /\ (\A i \in 1 .. j - 1 : ~From(q, i, w, g, "started")) => f \in {t, NoTask}
InTurn(q, w, g, f, h, s) ==
    /\ \A j \in 1 .. Len(q) :
         From(q, j, w, g, "result") => WorksOn(q, j, w, g, f, q[j].task)
    /\ s \in {"verifying", "hung"} => WorksOn(q, Len(q) + 1, w, g, f, h)
ResultsInTurn ==
    \A w \in Workers :
        InTurn(resultQueue, w, generation[w], inFlight[w], held[w], state[w])
StartedBacked ==
    /\ \A w \in Workers : state[w] = "loaded" => held[w] \in spool
    /\ \A i \in 1 .. Len(resultQueue) :
         LET m == resultQueue[i] IN
         m.type = "started" /\ m.gen = generation[m.worker] => m.task \in spool
SpoolInv == ResultsInTurn /\ StartedBacked /\ SpoolBacked

\* DeliversOnce needs that run_batch waits with nothing left to submit.
Running == {"start", "batch", "put", "drain", "monitor", "requeue", "accept", "wait"}
OutcomeKnown ==
    /\ pc = "down" => outcome = "none"
    /\ pc \in Running => outcome = "running" /\ batch > 0
    /\ pc = "returned" => outcome \in {"complete", "partial"}
    /\ pc \in {"close", "join", "closed"} => outcome # "running"
SubmitsAll ==
    /\ pc = "wait" \/ caller = "wait" => todo = {}
    /\ caller # "none" => pc \in {"drain", "monitor", "requeue", "accept"}
BatchSplit ==
    /\ expected \cap todo = {}
    /\ batch > 0 => expected \cup todo = Batches[batch]
CompletedDelivered ==
    /\ completed = {results[i].task : i \in 1 .. Len(results)}
    /\ completed \subseteq expected
DeliveryInv == OutcomeKnown /\ SubmitsAll /\ BatchSplit /\ CompletedDelivered
\* NoStrandedBatch holds until the first fault, and needs that until the pool is
\* closed no process fails, that what the coordinator collects is handed on before
\* it waits, and that every result awaited is on its way.
Ending == {"close", "join", "closed"}
Calm ==
    /\ ~ fatal /\ pc # "requeue"
    /\ pc \notin Ending =>
         /\ \A w \in Workers :
              /\ state[w] \in {"none", "booting", "idle", "loaded", "verifying"}
              /\ NoTask \notin {taskQueue[w][i] : i \in 1 .. Len(taskQueue[w])}
         /\ \A i \in 1 .. Len(resultQueue) :
              resultQueue[i].type \in {"warmup", "started", "result"}
HandedOn ==
    /\ pc \in {"down", "start", "batch", "put", "wait", "returned"}
          \/ caller = "startMonitor" => drained = <<>>
    /\ caller = "startMonitor" => pc = "monitor"
    /\ caller = "full" => pc \in {"drain", "monitor"}
    /\ IF pc = "put" \/ caller = "full" THEN submitting # NoTask
                                       ELSE submitting = NoTask /\ buffered = <<>>
    /\ pc \in {"down", "start"} \/ caller \in {"start", "startMonitor"} => expected = {}
    /\ pc = "returned" => completed = expected
InQueue(w, t) == \E i \in 1 .. Len(taskQueue[w]) : taskQueue[w][i] = t
AtWork(w, t) == state[w] \in {"loaded", "verifying"} /\ held[w] = t
OnTheWay(t) ==
    \/ submitting = t
    \/ \E w \in Workers : InQueue(w, t) \/ AtWork(w, t)
    \/ \E i \in 1 .. Len(resultQueue) : resultQueue[i].type = "result" /\ resultQueue[i].task = t
    \/ \E i \in 1 .. Len(drained) : drained[i].task = t
    \/ \E i \in 1 .. Len(buffered) : buffered[i].task = t
NothingLost == pc \notin Ending => \A t \in expected \ completed : OnTheWay(t)
StrandInv == faults = 0 => Calm /\ HandedOn /\ NothingLost

\* CanceledAfterSuccess takes from the callers that the attempts at a problem are
\* handed over in one batch.
ProblemsApart ==
    \A i, j \in 1 .. Len(Batches) : \A s \in Batches[i], t \in Batches[j] :
        s[1] = t[1] => i = j
\* It needs that results keep their order on the way, with one for each task that
\* is no longer at work, and that a worker cancels after a success that it sent.
Answered(m) == IF m.type = "result" THEN [task |-> m.task, status |-> m.status]
                                    ELSE [task |-> NoTask, status |-> "none"]
LogOf(a, b, c, q) == a \o (b \o (c \o [i \in 1 .. Len(q) |-> Answered(q[i])]))
Log == LogOf(results, buffered, drained, resultQueue)
OneEach(L) == \A i, j \in 1 .. Len(L) :
    L[i].task = L[j].task /\ L[i].task # NoTask => i = j
Success(e, problem) == e.task # NoTask /\ e.status = "success" /\ e.task[1] = problem
InOrder(L) == \A i \in 1 .. Len(L) : L[i].task # NoTask /\ L[i].status = "canceled" =>
    \E j \in 1 .. i - 1 : Success(L[j], L[i].task[1])
Problems(k) == {t[1] : t \in Batches[k]}
CancelsTold(L) == \A w \in Workers : \A problem \in canceled[w] :
    /\ \E k \in 1 .. batch : problem \in Problems(k)
    /\ problem \in Problems(batch) => \E i \in 1 .. Len(L) : Success(L[i], problem)
Live(t) == submitting = t \/ \E w \in Workers : held[w] = t \/ InQueue(w, t)
Settled(L) == \A i \in 1 .. Len(L) :
    L[i].task # NoTask => L[i].task \in expected /\ ~ Live(L[i].task)
LiveAwaited == \A t \in Tasks : Live(t) => t \in expected
LogInv == faults = 0 /\ pc \notin Ending =>
    /\ Settled(Log) /\ LiveAwaited
    /\ OneEach(Log) /\ InOrder(Log) /\ CancelsTold(Log)
===============================================================================

------------------------ MODULE PersistentServiceProofs ------------------------
(***************************************************************************)
(* Who is answered, and with what: the two ends of the persistent service  *)
(* agree on who waits (WaitsForAnswer), and a reward is given for the      *)
(* verdict on the completion itself (OwnVerdict), for any number of        *)
(* services, ranks, lives of the run and faults.                           *)
(***************************************************************************)
EXTENDS PersistentService, FiniteSetTheorems, TLAPS

------------------------------------------------------------------------------
(* Types                                                                   *)

Contents == Nat \X Nat \X Nat \X Nat
TaskType == [key : Keys, content : Contents]
RequestType == [life : Nat \ {0}, rank : Ranks, op : {"snapshot", "run_batch"},
                tasks : SUBSET TaskType]
ClientType == [pc : {"new", "snapshot", "started", "batch"}, batch : 0 .. MaxBatch,
               index : Nat, tasks : SUBSET TaskType, waiting : SUBSET Services,
               verdicts : SUBSET TaskType]
ServiceType == [pc : {"booting", "listening", "snapshot", "run_batch", "closed"},
                stopping : BOOLEAN, conn : RequestType \cup {NoRequest},
                expected : SUBSET Keys, completed : SUBSET TaskType]
PoolType == [inflight : Keys \cup {NoKey}, gen : Nat, retries : [Keys -> Nat],
             restarts : Nat, fatal : BOOLEAN, lost : SUBSET Keys]
WorkerType == [state : {"idle", "busy", "dead"}, gen : Nat,
               key : Keys \cup {NoKey}, content : Contents]
MessageType == [type : {"started", "result", "fatal"}, gen : Nat, key : Keys,
                content : Contents, success : BOOLEAN]

RunTypes ==
    /\ life \in Nat /\ running \in BOOLEAN /\ (running => life > 0)
    /\ client \in [Ranks -> ClientType]
    /\ \A r \in Ranks : client[r].index <= client[r].batch * BatchSize
ServiceTypes ==
    /\ svc \in [Services -> ServiceType]
    /\ backlog \in [Services -> Seq(RequestType)]
PoolTypes ==
    /\ pool \in [Services -> PoolType] /\ worker \in [Services -> WorkerType]
    /\ \A s \in Services : worker[s].state = "busy" => worker[s].key \in Keys
    /\ queue \in [Services -> Seq(Keys)]
    /\ results \in [Services -> Seq(MessageType)]
    /\ spool \in [Services -> [Keys -> Contents]]
TypeInv == RunTypes /\ ServiceTypes /\ PoolTypes /\ rewards \subseteq Contents \X Contents

------------------------------------------------------------------------------
(* Connections                                                             *)

\* What a service has accepted or will accept, and what it does not serve.
ServingAt(s) ==
    /\ \A q \in Requests(s) : q.life <= life
    /\ svc[s].pc \in {"booting", "closed"} => backlog[s] = <<>>
    /\ svc[s].conn.op = IF svc[s].pc \in {"snapshot", "run_batch"} THEN svc[s].pc
                                                                  ELSE "none"

\* A rank of this life has one request at a service.
OneRequestAt(s) ==
    \A i \in DOMAIN backlog[s] : backlog[s][i].life = life =>
        /\ \A j \in DOMAIN backlog[s] : backlog[s][j].life = life
             /\ backlog[s][j].rank = backlog[s][i].rank => j = i
        /\ ~ (svc[s].conn.life = life /\ svc[s].conn.rank = backlog[s][i].rank)

Serving == \A s \in Services : ServingAt(s)
OneRequest == \A s \in Services : OneRequestAt(s)

\* A rank waits in a call only.
WaitsInCall ==
    \A r \in Ranks : client[r].pc \notin {"snapshot", "batch"} => client[r].waiting = {}

ConnInv == Serving /\ OneRequest /\ WaitsInCall /\ WaitsForAnswer

------------------------------------------------------------------------------
(* Batches                                                                 *)

KeysOf(tasks) == {t.key : t \in tasks}

\* content c of the run and the rank of request q
Of(q, c) == c[1] = q.life /\ c[2] = q.rank

\* The tasks of one batch: their keys are their own.
Batch(tasks) ==
    \A t \in tasks :
        /\ t.content[3] = t.key[1]
        /\ \A u \in tasks : u.key = t.key => u = t

\* The tasks of the batch at hand: each is answered or waited for, and outside
\* a batch there is neither a task nor a verdict.
ClientAt(r) ==
    /\ client[r].pc # "batch" => client[r].tasks = {} /\ client[r].verdicts = {}
    /\ Batch(client[r].tasks)
    /\ \A t \in client[r].tasks :
         /\ t.key[1] = client[r].batch /\ t.content[1] = life /\ t.content[2] = r
         /\ ServiceOf(r, t.key[2]) \in client[r].waiting
              \/ \E v \in client[r].verdicts : v.key = t.key
    /\ KeysOf(client[r].verdicts) \subseteq KeysOf(client[r].tasks)

\* A request holds tasks of its run and rank, and what a service expects was
\* submitted.
RequestAt(s) ==
    /\ \A q \in Requests(s) : Batch(q.tasks) /\ \A t \in q.tasks : Of(q, t.content)
    /\ svc[s].pc # "run_batch" => svc[s].expected = {} /\ svc[s].completed = {}
    /\ KeysOf(svc[s].completed) \subseteq svc[s].expected
    /\ KeysOf(svc[s].conn.tasks) \cap svc[s].expected = {}

\* The requests of this life are those of calls under way, with all their tasks.
CurrentAt(s) ==
    /\ \A q \in Requests(s) : q.life = life =>
         client[q.rank].pc = IF q.op = "run_batch" THEN "batch" ELSE "snapshot"
    /\ \A i \in DOMAIN backlog[s] :
         LET q == backlog[s][i] IN
         q.life = life => q.tasks = TasksFor(q.rank, s, client[q.rank].tasks)
    /\ LET q == svc[s].conn IN
       q.life = life => KeysOf(q.tasks) \cup svc[s].expected
                          = KeysOf(TasksFor(q.rank, s, client[q.rank].tasks))

BatchInv ==
    /\ \A s \in Services : RequestAt(s)
    /\ running => (\A r \in Ranks : ClientAt(r)) /\ (\A s \in Services : CurrentAt(s))

------------------------------------------------------------------------------
(* Names                                                                   *)

\* A key and a completion that belong together: under the name of its run, its
\* rank and its batch a completion has one key.
Named(k, c) ==
    /\ c \in Contents /\ c[3] = k[1] /\ c[1] \in 1 .. life /\ c[2] \in Ranks
    /\ running /\ c[1] = life =>
         /\ c[3] <= client[c[2]].batch
         /\ client[c[2]].pc = "batch" /\ c[3] = client[c[2]].batch
              => [key |-> k, content |-> c] \in client[c[2]].tasks

RequestsNamed(s) == \A q \in Requests(s) : \A t \in q.tasks : Named(t.key, t.content)
CompletedNamed(s) == \A v \in svc[s].completed : Named(v.key, v.content)
SpoolNamed(s) == \A k \in Keys : spool[s][k] # Gone => Named(k, spool[s][k])
WorkerNamed(s) == worker[s].state = "busy" => Named(worker[s].key, worker[s].content)
ResultsNamed(s) ==
    \A i \in DOMAIN results[s] :
        results[s][i].type # "fatal" => Named(results[s][i].key, results[s][i].content)
NamedAt(s) ==
    /\ RequestsNamed(s) /\ CompletedNamed(s) /\ SpoolNamed(s) /\ WorkerNamed(s)
    /\ ResultsNamed(s)

NameInv ==
    /\ \A s \in Services : NamedAt(s)
    /\ \A r \in Ranks : \A v \in client[r].verdicts : Named(v.key, v.content)

------------------------------------------------------------------------------
(* A pool that has replaced no worker                                      *)

Pending(v) == v.expected \ KeysOf(v.completed)

\* A worker holds its task until it has answered, also when it is dead.
Holds(w) == w.state = "busy" \/ (w.state = "dead" /\ w.key # NoKey)

\* What is queued, at work and answered belongs to the batch at hand, each task
\* in one place; a started task is at work or its result is on the way.
QueueClean(v, q, sp) ==
    \A i \in DOMAIN q :
        /\ q[i] \in Pending(v) /\ Of(v.conn, sp[q[i]])
        /\ \A j \in DOMAIN q : q[j] = q[i] => j = i
BusyClean(v, q, w) ==
    Holds(w) =>
        /\ w.key \in Pending(v) /\ Of(v.conn, w.content)
        /\ \A i \in DOMAIN q : q[i] # w.key
ResultsClean(v, q, w, res) ==
    \A i \in DOMAIN res : res[i].type = "result" =>
        /\ res[i].key \in Pending(v) /\ Of(v.conn, res[i].content)
        /\ \A j \in DOMAIN q : q[j] # res[i].key
        /\ ~ (Holds(w) /\ w.key = res[i].key)
        /\ \A j \in DOMAIN res : res[j].type = "result" /\ res[j].key = res[i].key => j = i
Ending(w, res, k, i) ==
    \/ Holds(w) /\ w.key = k
    \/ \E j \in DOMAIN res : j > i /\ res[j].type = "result" /\ res[j].key = k
StartsClean(w, res) ==
    \A i \in DOMAIN res :
        /\ res[i].type # "fatal" /\ res[i].gen = 0
        /\ res[i].type = "started" => Ending(w, res, res[i].key, i)
FlightClean(w, res, p) == p.inflight # NoKey => Ending(w, res, p.inflight, 0)
Clean(v, q, w, res, sp, p) ==
    /\ p.gen = 0 /\ w.gen = 0
    /\ QueueClean(v, q, sp) /\ BusyClean(v, q, w) /\ ResultsClean(v, q, w, res)
    /\ StartsClean(w, res) /\ FlightClean(w, res, p)
    /\ \A c \in v.completed : Of(v.conn, c.content)

Untouched(p) == p.restarts = 0 /\ ~ p.fatal
CleanAt(s) == Untouched(pool[s]) =>
    Clean(svc[s], queue[s], worker[s], results[s], spool[s], pool[s])
CleanInv == \A s \in Services : CleanAt(s)

\* Unless a worker was replaced, a rank gets verdicts on its own completions.
VerdictInv ==
    running => \A r \in Ranks : \A v \in client[r].verdicts :
        \/ v.content[1] = life /\ v.content[2] = r
        \/ \E s \in Services : pool[s].restarts > 0
------------------------------------------------------------------------------
(* Types are kept.                                                         *)

\* Sequence u is sequence t of n + 1 elements without its head.
Shorter(t, u, n) ==
    /\ DOMAIN t = 1 .. n + 1 /\ DOMAIN u = 1 .. n
    /\ \A i \in 1 .. n : u[i] = t[i + 1] /\ i + 1 \in 1 .. n + 1
    /\ 1 \in 1 .. n + 1

LEMMA TailIs ==
    ASSUME NEW S, NEW t \in Seq(S), t # <<>>
    PROVE  /\ \E n \in Nat : Shorter(t, Tail(t), n)
           /\ Head(t) = t[1] /\ Head(t) \in S /\ Tail(t) \in Seq(S)
<1>1. PICK k \in Nat : k = Len(t)
  OBVIOUS
<1>2. k # 0
  BY <1>1
<1>3. PICK n \in Nat : k = n + 1
  <2>1. k - 1 \in Nat /\ k = (k - 1) + 1
    BY <1>2
  <2> QED
    BY <2>1
<1>4. DOMAIN t = 1 .. n + 1 /\ DOMAIN Tail(t) = 1 .. n
  <2>1. Tail(t) \in Seq(S) /\ Len(Tail(t)) = k - 1
    BY <1>1
  <2>2. k - 1 = n
    BY <1>3
  <2> QED
    BY <1>1, <1>3, <2>1, <2>2
<1>5. \A i \in 1 .. n : i + 1 \in 1 .. n + 1
  OBVIOUS
<1>6. ASSUME NEW i \in 1 .. n
      PROVE  Tail(t)[i] = t[i + 1]
  <2>1. i \in 1 .. Len(t) - 1
    BY <1>1, <1>3
  <2> QED
    BY <2>1
<1>7. Head(t) = t[1] /\ Head(t) \in S /\ Tail(t) \in Seq(S) /\ 1 \in 1 .. n + 1
  BY <1>1, <1>3
<1> QED
  BY <1>4, <1>5, <1>6, <1>7 DEF Shorter

\* Sequence u is sequence t of n elements and one more.
Longer(t, u, n, x) ==
    /\ DOMAIN t = 1 .. n /\ DOMAIN u = 1 .. n + 1 /\ u[n + 1] = x
    /\ \A i \in 1 .. n : u[i] = t[i] /\ i \in 1 .. n + 1 /\ i # n + 1
    /\ \A i \in 1 .. n + 1 : i \in 1 .. n \/ i = n + 1
    /\ n + 1 \in 1 .. n + 1

LEMMA AppendIs ==
    ASSUME NEW S, NEW t \in Seq(S), NEW x \in S
    PROVE  \E n \in Nat : Longer(t, Append(t, x), n, x)
<1>1. PICK n \in Nat : n = Len(t)
  OBVIOUS
<1>2. /\ DOMAIN t = 1 .. n /\ DOMAIN Append(t, x) = 1 .. n + 1
      /\ Append(t, x)[n + 1] = x /\ \A i \in 1 .. n : Append(t, x)[i] = t[i]
  BY <1>1
<1>3. /\ \A i \in 1 .. n : i \in 1 .. n + 1 /\ i # n + 1
      /\ \A i \in 1 .. n + 1 : i \in 1 .. n \/ i = n + 1
      /\ n + 1 \in 1 .. n + 1
  OBVIOUS
<1> QED
  BY <1>2, <1>3 DEF Longer

LEMMA Targets ==
    ASSUME NEW r \in Ranks
    PROVE  /\ OwnServices(r) \subseteq Services
           /\ \A i \in Nat : ServiceOf(r, i) \in Services
<1>1. r \in Nat
  BY ServiceAssumption DEF Ranks
<1>2. \A i \in Nat : i % NumServices \in Services
  BY ServiceAssumption DEF Services
<1> QED
  BY <1>1, <1>2 DEF OwnServices, ServiceOf

\* the number of the completion at a position among those that get a task
Number(good, p) == Cardinality({q \in good : q < p})

LEMMA Numbers ==
    ASSUME NEW good \in SUBSET Positions
    PROVE  /\ Cardinality(good) \in 0 .. BatchSize
           /\ \A p \in good : Number(good, p) \in Nat /\ Number(good, p) < Cardinality(good)
           /\ \A p \in good, q \in good : p < q => Number(good, p) < Number(good, q)
<1>1. IsFiniteSet(Positions) /\ Cardinality(Positions) = BatchSize
  BY ServiceAssumption, FS_Interval DEF Positions
<1>2. IsFiniteSet(good) /\ Cardinality(good) <= BatchSize
  BY <1>1, FS_Subset
<1>3. \A S \in SUBSET good : IsFiniteSet(S) /\ Cardinality(S) \in Nat
  BY <1>2, FS_Subset, FS_CardinalityType
<1>4. \A S \in SUBSET good, T \in SUBSET good :
        S \subseteq T /\ S # T => Cardinality(S) < Cardinality(T)
  BY <1>3, FS_Subset, FS_CardinalityType
<1>5. \A p \in good : p \in Nat
  BY ServiceAssumption DEF Positions
<1>6. ASSUME NEW p \in good
      PROVE  Number(good, p) \in Nat /\ Number(good, p) < Cardinality(good)
  <2> DEFINE S == {q \in good : q < p}
  <2>1. S \in SUBSET good /\ p \notin S /\ S # good
    BY <1>5
  <2>2. Cardinality(S) < Cardinality(good)
    BY <2>1, <1>4
  <2> QED
    BY <2>1, <2>2, <1>3 DEF Number
<1>7. ASSUME NEW p \in good, NEW q \in good, p < q
      PROVE  Number(good, p) < Number(good, q)
  <2> DEFINE S == {x \in good : x < p}
             T == {x \in good : x < q}
  <2>1. S \in SUBSET good /\ T \in SUBSET good /\ p \notin S /\ p \in T
    BY <1>7, <1>5
  <2>2. S \subseteq T
    <3> SUFFICES ASSUME NEW x \in S PROVE x \in T
      OBVIOUS
    <3>1. x \in Nat /\ p \in Nat /\ q \in Nat /\ x < p
      BY <1>5
    <3> QED
      BY <3>1, <1>7
  <2>3. Cardinality(S) < Cardinality(T)
    BY <2>1, <2>2, <1>4
  <2> QED
    BY <2>3 DEF Number
<1> QED
  BY <1>2, <1>3, <1>6, <1>7

\* n completions of every batch so far
Place(n) == n * BatchSize

LEMMA Places ==
    /\ \A n \in Nat : Place(n) \in Nat /\ Place(n + 1) = Place(n) + BatchSize
    /\ \A n \in 0 .. MaxBatch : Place(n) <= Place(MaxBatch)
<1>1. \A n \in Nat : n * BatchSize \in Nat /\ (n + 1) * BatchSize = n * BatchSize + BatchSize
  BY ServiceAssumption
<1>2. ASSUME NEW n \in 0 .. MaxBatch
      PROVE  n * BatchSize <= MaxBatch * BatchSize
  <2>1. PICK d \in Nat : n + d = MaxBatch
    <3>1. MaxBatch - n \in Nat /\ n + (MaxBatch - n) = MaxBatch
      BY ServiceAssumption
    <3> QED
      BY <3>1
  <2>2. MaxBatch * BatchSize = n * BatchSize + d * BatchSize
    BY <2>1, ServiceAssumption
  <2>3. n * BatchSize \in Nat /\ d * BatchSize \in Nat
    BY <2>1, ServiceAssumption
  <2> QED
    BY <2>2, <2>3
<1> QED
  BY <1>1, <1>2 DEF Place

\* A reward call makes tasks for a part of its completions, each with a key of
\* its own, and counts them.
LEMMA NewTasks ==
    ASSUME RunTypes, NEW r \in Ranks, client[r].batch < MaxBatch,
           NEW good \in SUBSET Positions
    PROVE  /\ Tasks(r, good) \subseteq TaskType
           /\ client[r].batch + 1 \in 1 .. MaxBatch
           /\ client[r].index + Cardinality(good) \in Nat
           /\ client[r].index + Cardinality(good) <= (client[r].batch + 1) * BatchSize
           /\ Batch(Tasks(r, good))
           /\ \A t \in Tasks(r, good) :
                /\ t.key[1] = client[r].batch + 1 /\ t.key[2] \in Nat
                /\ t.content[1] = life /\ t.content[2] = r
                /\ t.content[3] = client[r].batch + 1
<1> DEFINE b == client[r].batch
           n == client[r].index
           key(p) == <<b + 1, n + Number(good, p)>>
           content(p) == <<life, r, b + 1, p>>
<1>1. b \in 0 .. MaxBatch /\ n \in Nat /\ n <= Place(b) /\ life \in Nat /\ r \in Nat
  <2>1. client[r] \in ClientType /\ life \in Nat
    BY DEF RunTypes
  <2>2. client[r].index <= client[r].batch * BatchSize
    BY DEF RunTypes
  <2> QED
    BY <2>1, <2>2, ServiceAssumption DEF ClientType, Place, Ranks
<1>2. b + 1 \in 1 .. MaxBatch /\ MaxBatch \in Nat /\ BatchSize \in Nat
  BY <1>1, ServiceAssumption
<1>3. Place(b) \in Nat /\ Place(b + 1) = Place(b) + BatchSize /\ Place(b + 1) <= Place(MaxBatch)
  BY <1>1, <1>2, Places
<1>4. Tasks(r, good) = {[key |-> key(p), content |-> content(p)] : p \in good}
  BY DEF Tasks, Number
<1> HIDE DEF b, n
<1>5. n + Cardinality(good) \in Nat /\ n + Cardinality(good) <= Place(b + 1)
  BY <1>1, <1>2, <1>3, Numbers
<1>6. ASSUME NEW p \in good
      PROVE  key(p) \in Keys /\ content(p) \in Contents
  <2>1. Number(good, p) \in Nat /\ Number(good, p) < Cardinality(good) /\ Cardinality(good) \in Nat
    BY Numbers
  <2>2. n + Number(good, p) \in 0 .. MaxBatch * BatchSize
    <3>1. Place(MaxBatch) \in Nat
      BY <1>2, Places
    <3>2. n + Number(good, p) <= n + Cardinality(good)
      BY <2>1, <1>1
    <3>3. n + Number(good, p) \in Nat /\ n + Number(good, p) <= Place(MaxBatch)
      <4>1. \A w, x, y, z \in Nat : w + x <= w + y /\ w + y <= z => w + x <= z /\ w + x \in Nat
        OBVIOUS
      <4>2. Place(b + 1) \in Nat
        BY <1>1, <1>2, Places
      <4>3. n + Cardinality(good) <= Place(MaxBatch)
        BY <2>1, <1>1, <1>3, <1>5, <3>1, <4>2
      <4> QED
        BY <2>1, <1>1, <3>1, <3>2, <4>1, <4>3
    <3> QED
      BY <3>1, <3>3 DEF Place
  <2>3. p \in Nat
    BY ServiceAssumption DEF Positions
  <2> QED
    BY <2>2, <2>3, <1>1, <1>2 DEF Keys, Contents
<1>7. ASSUME NEW p \in good, NEW q \in good, key(p) = key(q)
      PROVE  p = q
  <2>1. p \in Nat /\ q \in Nat
    BY ServiceAssumption DEF Positions
  <2>2. Number(good, p) \in Nat /\ Number(good, q) \in Nat
    BY Numbers
  <2>3. Number(good, p) = Number(good, q)
    <3>1. n + Number(good, p) = n + Number(good, q)
      BY <1>7
    <3>2. \A x, y, z \in Nat : x + y = x + z => y = z
      OBVIOUS
    <3> QED
      BY <3>1, <3>2, <2>2, <1>1
  <2>4. ~ (p < q) /\ ~ (q < p)
    BY <2>2, <2>3, Numbers
  <2> QED
    BY <2>1, <2>4
<1>8. Tasks(r, good) \subseteq TaskType
  BY <1>4, <1>6 DEF TaskType
<1>9. \A t \in Tasks(r, good) :
        /\ t.key[1] = b + 1 /\ t.key[2] \in Nat
        /\ t.content[1] = life /\ t.content[2] = r /\ t.content[3] = b + 1
  <2>1. \A p \in good : n + Number(good, p) \in Nat
    BY <1>1, Numbers
  <2> QED
    BY <1>4, <2>1
<1>10. Batch(Tasks(r, good))
  BY <1>4, <1>7, <1>9 DEF Batch
<1> QED
  BY <1>2, <1>5, <1>8, <1>9, <1>10 DEF b, n, Place
LEMMA Records ==
    /\ NewClient \in ClientType /\ NewPool \in PoolType /\ NoRequest.op = "none"
    /\ \A pc \in {"booting", "listening", "closed"} : Idle(pc) \in ServiceType
    /\ NoRequest.life = 0 /\ NoRequest.tasks = {}
<1>1. 0 \in 0 .. MaxBatch
  BY ServiceAssumption
<1> QED
  BY <1>1
  DEF NewClient, ClientType, NewPool, PoolType, NoRequest, Idle, ServiceType

LEMMA KilledTypes ==
    ASSUME RunTypes, Killed, life' = life
    PROVE  RunTypes'
<1>1. client' \in [Ranks -> ClientType]
  BY Records DEF Killed
<1>2. \A r \in Ranks : client'[r].index <= client'[r].batch * BatchSize
  BY ServiceAssumption DEF Killed, NewClient
<1> QED
  BY <1>1, <1>2 DEF RunTypes, Killed

\* A change of one client
LEMMA ClientTypes ==
    ASSUME RunTypes, NEW r \in Ranks, NEW c \in ClientType, SetClient(r, c),
           c.index <= c.batch * BatchSize, life' = life, running' = running
    PROVE  RunTypes'
<1>1. client' \in [Ranks -> ClientType]
  BY DEF RunTypes, SetClient
<1>2. \A q \in Ranks : client'[q] = IF q = r THEN c ELSE client[q]
  BY DEF RunTypes, SetClient
<1>3. \A q \in Ranks : client'[q].index <= client'[q].batch * BatchSize
  BY <1>2 DEF RunTypes
<1> QED
  BY <1>1, <1>3 DEF RunTypes

\* A change of one service
LEMMA OneServiceTypes ==
    ASSUME ServiceTypes, NEW s \in Services, NEW v \in ServiceType,
           svc' = [svc EXCEPT ![s] = v], backlog' = backlog
    PROVE  ServiceTypes'
BY DEF ServiceTypes

LEMMA CloseTypes ==
    ASSUME RunTypes, ServiceTypes, NEW s \in Services, Close(s), life' = life
    PROVE  RunTypes' /\ ServiceTypes'
<1>1. UNCHANGED <<running, client>> => RunTypes'
  BY DEF RunTypes
<1>2. Killed => RunTypes'
  BY KilledTypes
<1>3. RunTypes'
  BY <1>1, <1>2 DEF Close
<1>4. [Idle("closed") EXCEPT !.stopping = svc[s].stopping] \in ServiceType
  BY Records DEF ServiceTypes, ServiceType
<1>5. svc' \in [Services -> ServiceType]
  BY <1>4 DEF Close, ServiceTypes
<1>6. backlog' \in [Services -> Seq(RequestType)]
  BY DEF Close, ServiceTypes
<1> QED
  BY <1>3, <1>5, <1>6 DEF ServiceTypes

LEMMA ConnectTypes ==
    ASSUME RunTypes, ServiceTypes, NEW r \in Ranks, NEW D \in SUBSET Services,
           NEW requests \in [D -> RequestType], Connect(r, requests),
           life' = life, svc' = svc,
           NEW c \in ClientType, running' => SetClient(r, c),
           c.index <= c.batch * BatchSize, running
    PROVE  RunTypes' /\ ServiceTypes'
<1>1. CASE Killed /\ UNCHANGED backlog
  BY <1>1, KilledTypes DEF ServiceTypes
<1>2. CASE ~ (Killed /\ UNCHANGED backlog)
  <2>1. /\ backlog' = [s \in Services |->
             IF s \in DOMAIN requests THEN Append(backlog[s], requests[s]) ELSE backlog[s]]
        /\ running' = running
    BY <1>2 DEF Connect
  <2>2. backlog' \in [Services -> Seq(RequestType)]
    BY <2>1 DEF ServiceTypes
  <2>3. RunTypes'
    BY <2>1, ClientTypes
  <2> QED
    BY <2>2, <2>3 DEF ServiceTypes
<1> QED
  BY <1>1, <1>2

LEMMA ReplyTypes ==
    ASSUME RunTypes, ServiceTypes, NEW s \in Services, svc[s].conn # NoRequest,
           NEW verdicts \in SUBSET TaskType, Reply(s, verdicts),
           UNCHANGED <<life, backlog>>
    PROVE  RunTypes' /\ ServiceTypes'
<1> DEFINE q == svc[s].conn
           c == [client[q.rank] EXCEPT !.waiting = @ \ {s}, !.verdicts = @ \cup verdicts]
<1>1. q \in RequestType
  BY DEF ServiceTypes, ServiceType
<1>2. q.rank \in Ranks
  BY <1>1 DEF RequestType
<1>3. c \in ClientType
  BY <1>2 DEF RunTypes, ClientType
<1>4. c.index <= c.batch * BatchSize
  BY <1>2 DEF RunTypes, ClientType
<1>5. \/ UNCHANGED <<running, client>> \/ Killed
      \/ SetClient(q.rank, c) /\ UNCHANGED running
  BY DEF Reply
<1>6. RunTypes'
  <2>1. CASE UNCHANGED <<running, client>>
    BY <2>1 DEF RunTypes
  <2>2. CASE Killed
    BY <2>2, KilledTypes
  <2>3. CASE SetClient(q.rank, c) /\ UNCHANGED running
    BY <2>3, <1>2, <1>3, <1>4, ClientTypes
  <2> QED
    BY <1>5, <2>1, <2>2, <2>3
<1>7. [Idle("listening") EXCEPT !.stopping = svc[s].stopping] \in ServiceType
  BY Records DEF ServiceTypes, ServiceType
<1>8. svc' = [svc EXCEPT ![s] = [Idle("listening") EXCEPT !.stopping = svc[s].stopping]]
  BY DEF Reply
<1> QED
  BY <1>6, <1>7, <1>8, OneServiceTypes

\* What _restart_worker leaves of the pool
LEMMA RestartedTypes ==
    ASSUME NEW s \in Services, NEW p \in PoolType, worker[s] \in WorkerType
    PROVE  /\ Restarted(s, p).pool \in PoolType
           /\ Restarted(s, p).again => p.inflight \in Keys
           /\ Restarted(s, p).pool.inflight = NoKey
           /\ Restarted(s, p).pool.restarts >= p.restarts
           /\ p.fatal => Restarted(s, p).pool.fatal
           /\ Restarted(s, p).pool.restarts > 0 \/ Restarted(s, p).pool.fatal
<1>1. p.inflight # NoKey => p.inflight \in Keys /\ p.retries[p.inflight] \in Nat
  BY DEF PoolType
<1>2. p.restarts \in Nat /\ p.gen \in Nat /\ p.fatal \in BOOLEAN /\ MaxWorkerRestarts \in Nat
  BY ServiceAssumption DEF PoolType
<1>3. p.retries \in [Keys -> Nat]
  BY DEF PoolType
<1>4. ASSUME NEW k \in Keys
      PROVE  [p.retries EXCEPT ![k] = @ + 1] \in [Keys -> Nat]
  BY <1>3
<1> DEFINE again == Requeues(p.inflight)
           retries == IF again THEN [p.retries EXCEPT ![p.inflight] = @ + 1] ELSE p.retries
           tired == again /\ retries[p.inflight] > MaxTaskRetries
           worn == p.restarts + 1 > MaxWorkerRestarts
           lost == p.lost \cup Unread(s, p)
           next == [p EXCEPT !.inflight = NoKey, !.retries = retries, !.lost = lost]
<1>5. again <=> p.inflight # NoKey
  BY DEF Requeues
<1>6. retries \in [Keys -> Nat]
  BY <1>1, <1>3, <1>4, <1>5
<1>7. Restarted(s, p) =
        IF tired
          THEN [pool |-> [next EXCEPT !.fatal = TRUE], again |-> FALSE, up |-> FALSE]
          ELSE [pool |-> [next EXCEPT !.restarts = @ + 1, !.fatal = @ \/ worn,
                             !.gen = IF worn THEN @ ELSE @ + 1],
                again |-> again, up |-> ~ worn]
  BY DEF Restarted
<1>11. lost \subseteq Keys
  BY DEF Unread, PoolType, WorkerType
<1> HIDE DEF again, retries, tired, worn, lost
<1>8. next \in PoolType /\ next.inflight = NoKey /\ next.restarts = p.restarts
      /\ next.fatal = p.fatal /\ next.gen = p.gen
  BY <1>6, <1>11 DEF PoolType
<1> HIDE DEF next
<1>9. CASE tired
  <2>1. Restarted(s, p).pool = [next EXCEPT !.fatal = TRUE] /\ ~ Restarted(s, p).again
    BY <1>7, <1>9
  <2>2. [next EXCEPT !.fatal = TRUE] \in PoolType
    BY <1>8 DEF PoolType
  <2> QED
    BY <1>2, <1>8, <2>1, <2>2 DEF PoolType
<1>10. CASE ~ tired
  <2> DEFINE t == [next EXCEPT !.restarts = @ + 1, !.fatal = @ \/ worn,
                               !.gen = IF worn THEN @ ELSE @ + 1]
  <2>1. Restarted(s, p).pool = t /\ Restarted(s, p).again = again
    BY <1>7, <1>10
  <2>2. worn \in BOOLEAN
    BY DEF worn
  <2>3. next.restarts + 1 \in Nat /\ next.restarts + 1 > 0
        /\ (IF worn THEN next.gen ELSE next.gen + 1) \in Nat
        /\ next.restarts + 1 >= p.restarts
    BY <1>2, <1>8
  <2>4. (next.fatal \/ worn) \in BOOLEAN
    BY <2>2
  <2>5. /\ t \in PoolType /\ t.inflight = NoKey /\ t.restarts = next.restarts + 1
        /\ t.fatal = (next.fatal \/ worn)
    BY <1>8, <2>3, <2>4 DEF PoolType
  <2> QED
    BY <1>1, <1>5, <1>8, <2>1, <2>3, <2>5
<1> QED
  BY <1>9, <1>10

LEMMA RestartTypes ==
    ASSUME PoolTypes, NEW s \in Services, Restart(s, pool[s])
    PROVE  /\ pool' \in [Services -> PoolType] /\ worker' \in [Services -> WorkerType]
           /\ queue' \in [Services -> Seq(Keys)]
           /\ \A u \in Services : worker'[u].state = "busy" => worker'[u].key \in Keys
<1>1. pool[s] \in PoolType /\ worker[s] \in WorkerType
  BY DEF PoolTypes
<1> DEFINE R == Restarted(s, pool[s])
<1>2. R.pool \in PoolType /\ (R.again => pool[s].inflight \in Keys)
  BY <1>1, RestartedTypes
<1>3. /\ pool' = [pool EXCEPT ![s] = R.pool]
      /\ queue' = IF R.again THEN [queue EXCEPT ![s] = Append(@, pool[s].inflight)] ELSE queue
      /\ worker' = [worker EXCEPT ![s] =
            [@ EXCEPT !.state = IF R.up THEN "idle" ELSE "dead", !.gen = R.pool.gen]]
  BY DEF Restart
<1> HIDE DEF R
<1>4. R.pool.gen \in Nat
  BY <1>2 DEF PoolType
<1>5. worker[s] \in WorkerType
  BY DEF PoolTypes
<1>6. [worker[s] EXCEPT !.state = IF R.up THEN "idle" ELSE "dead", !.gen = R.pool.gen]
        \in WorkerType
  BY <1>4, <1>5 DEF WorkerType
<1>7. worker' \in [Services -> WorkerType]
  BY <1>3, <1>6 DEF PoolTypes
<1>8. \A u \in Services : worker'[u].state = "busy" => worker'[u].key \in Keys
  BY <1>3, <1>5 DEF PoolTypes, WorkerType
<1>9. pool' \in [Services -> PoolType] /\ queue' \in [Services -> Seq(Keys)]
  BY <1>2, <1>3 DEF PoolTypes
<1> QED
  BY <1>7, <1>8, <1>9
LEMMA ClientStepTypes ==
    ASSUME TypeInv, Serving, NEW r \in Ranks, ClientStep(r)
    PROVE  TypeInv'
<1>1. UNCHANGED poolVars
  BY DEF ClientStep, Snapshot, Started, RunBatch, Score
<1>2. PoolTypes'
  BY <1>1 DEF TypeInv, PoolTypes, poolVars
<1>3. client[r] \in ClientType /\ life \in Nat /\ client[r].index <= client[r].batch * BatchSize
  BY DEF TypeInv, RunTypes
<1>4. CASE Snapshot(r)
  <2> DEFINE requests == [s \in OwnServices(r) |-> Request(r, "snapshot", {})]
             c == [client[r] EXCEPT !.pc = "snapshot", !.waiting = OwnServices(r)]
  <2>1. c \in ClientType /\ c.index = client[r].index /\ c.batch = client[r].batch
    BY <1>3, Targets DEF ClientType
  <2>2. running /\ life > 0
    BY <1>4 DEF Snapshot, TypeInv, RunTypes
  <2>3. requests \in [OwnServices(r) -> RequestType]
    BY <1>3, <2>2 DEF Request, RequestType
  <2>4. Connect(r, requests) /\ (running' => SetClient(r, c)) /\ UNCHANGED <<life, rewards, svc>>
    BY <1>4 DEF Snapshot
  <2> HIDE DEF requests, c
  <2>5. RunTypes' /\ ServiceTypes'
    BY <1>3, <2>1, <2>2, <2>3, <2>4, Targets, ConnectTypes DEF TypeInv
  <2> QED
    BY <1>2, <2>4, <2>5 DEF TypeInv
<1>5. CASE Started(r)
  <2> DEFINE c == [client[r] EXCEPT !.pc = "started"]
  <2>1. c \in ClientType /\ c.index = client[r].index /\ c.batch = client[r].batch
    BY <1>3 DEF ClientType
  <2>2. SetClient(r, c) /\ UNCHANGED <<life, running, rewards, svc, backlog>>
    BY <1>5 DEF Started
  <2> HIDE DEF c
  <2> QED
    BY <1>2, <1>3, <2>1, <2>2, ClientTypes DEF TypeInv, ServiceTypes
<1>6. CASE RunBatch(r)
  <2>1. PICK good \in SUBSET Positions :
          LET tasks == Tasks(r, good)
              targets == {ServiceOf(r, t.key[2]) : t \in tasks}
          IN  /\ Connect(r, [s \in targets |->
                               Request(r, "run_batch", TasksFor(r, s, tasks))])
              /\ running' => SetClient(r,
                    [client[r] EXCEPT !.pc = "batch", !.batch = @ + 1,
                        !.index = @ + Cardinality(good), !.tasks = tasks,
                        !.waiting = targets, !.verdicts = {}])
    BY <1>6 DEF RunBatch
  <2> DEFINE tasks == Tasks(r, good)
             targets == {ServiceOf(r, t.key[2]) : t \in tasks}
             requests == [s \in targets |-> Request(r, "run_batch", TasksFor(r, s, tasks))]
             c == [client[r] EXCEPT !.pc = "batch", !.batch = @ + 1,
                       !.index = @ + Cardinality(good), !.tasks = tasks,
                       !.waiting = targets, !.verdicts = {}]
  <2>2. running /\ life > 0 /\ client[r].batch < MaxBatch /\ UNCHANGED <<life, rewards, svc>>
    BY <1>6 DEF RunBatch, TypeInv, RunTypes
  <2>3. /\ tasks \subseteq TaskType /\ client[r].batch + 1 \in 1 .. MaxBatch
        /\ client[r].index + Cardinality(good) \in Nat
        /\ client[r].index + Cardinality(good) <= (client[r].batch + 1) * BatchSize
        /\ \A t \in tasks : t.key[2] \in Nat
    BY <2>2, NewTasks DEF TypeInv
  <2> HIDE DEF tasks
  <2>4. targets \in SUBSET Services
    BY <2>3, Targets
  <2>5. requests \in [targets -> RequestType]
    BY <1>3, <2>2, <2>3 DEF Request, RequestType, TasksFor
  <2>6. /\ c \in ClientType /\ c.index = client[r].index + Cardinality(good)
        /\ c.batch = client[r].batch + 1
    <3>1. client[r].batch + 1 \in 0 .. MaxBatch
      BY <2>3
    <3> QED
      BY <1>3, <2>3, <2>4, <3>1 DEF ClientType
  <2>7. Connect(r, requests) /\ (running' => SetClient(r, c))
    BY <2>1 DEF tasks
  <2> HIDE DEF targets, requests, c
  <2>8. RunTypes' /\ ServiceTypes'
    BY <2>2, <2>3, <2>4, <2>5, <2>6, <2>7, ConnectTypes DEF TypeInv
  <2> QED
    BY <1>2, <2>2, <2>8 DEF TypeInv
<1>7. CASE Score(r)
  <2> DEFINE c == [client[r] EXCEPT !.pc = "started", !.tasks = {}, !.verdicts = {}]
  <2>1. c \in ClientType /\ c.index = client[r].index /\ c.batch = client[r].batch
    BY <1>3 DEF ClientType
  <2>2. /\ SetClient(r, c) /\ UNCHANGED <<life, running, svc, backlog>>
        /\ rewards' = rewards \cup {<<t.content, VerdictFor(r, t)>> : t \in client[r].tasks}
    BY <1>7 DEF Score
  <2>3. \A t \in client[r].tasks : t.content \in Contents /\ VerdictFor(r, t) \in Contents
    <3> SUFFICES ASSUME NEW t \in client[r].tasks
                 PROVE  t.content \in Contents /\ VerdictFor(r, t) \in Contents
      OBVIOUS
    <3> DEFINE own == {v \in client[r].verdicts : v.key[2] = t.key[2]}
    <3>1. own \subseteq TaskType /\ t \in TaskType
      BY <1>3 DEF ClientType
    <3>2. own # {} => (CHOOSE v \in own : TRUE) \in own
      OBVIOUS
    <3>3. Gone \in Contents
      BY DEF Gone, Contents
    <3> QED
      BY <3>1, <3>2, <3>3 DEF VerdictFor, TaskType
  <2>4. rewards' \subseteq Contents \X Contents
    BY <2>2, <2>3 DEF TypeInv
  <2> HIDE DEF c
  <2> QED
    BY <1>2, <1>3, <2>1, <2>2, <2>4, ClientTypes DEF TypeInv, ServiceTypes
<1> QED
  BY <1>4, <1>5, <1>6, <1>7 DEF ClientStep

LEMMA ServiceStepTypes ==
    ASSUME TypeInv, Serving, NEW s \in Services, ServiceStep(s) \/ Stop(s)
    PROVE  TypeInv'
<1>1. svc[s] \in ServiceType
  BY DEF TypeInv, ServiceTypes
<1>2. rewards' = rewards /\ life' = life
  BY DEF ServiceStep, Boot, Accept, ReplySnapshot, Submit, ReplyBatch, Exit, Stop, clientVars
<1>3. UNCHANGED poolVars => PoolTypes'
  BY DEF TypeInv, PoolTypes, poolVars
<1>4. UNCHANGED clientVars => RunTypes'
  BY DEF TypeInv, RunTypes, clientVars
<1>5. CASE Boot(s)
  <2>1. svc' = [svc EXCEPT ![s] = Idle("listening")] /\ Idle("listening") \in ServiceType
    BY <1>5, Records DEF Boot
  <2>2. UNCHANGED <<clientVars, backlog, poolVars>>
    BY <1>5 DEF Boot
  <2>3. ServiceTypes'
    BY <2>1, <2>2, OneServiceTypes DEF TypeInv
  <2> QED
    BY <1>2, <1>3, <1>4, <2>2, <2>3 DEF TypeInv
<1>6. CASE Accept(s)
  <2> DEFINE q == Head(backlog[s])
  <2>1. q \in RequestType /\ Tail(backlog[s]) \in Seq(RequestType)
    BY <1>6 DEF Accept, TypeInv, ServiceTypes
  <2>2. UNCHANGED poolVars
    BY <1>6 DEF Accept
  <2>3. CASE Current(q)
    <3>1. /\ svc' = [svc EXCEPT ![s].pc = q.op, ![s].conn = q]
          /\ backlog' = [backlog EXCEPT ![s] = Tail(@)]
          /\ UNCHANGED <<running, client>>
      BY <1>6, <2>3 DEF Accept
    <3>2. [svc[s] EXCEPT !.pc = q.op, !.conn = q] \in ServiceType
      BY <1>1, <2>1 DEF ServiceType, RequestType
    <3>3. ServiceTypes'
      BY <2>1, <3>1, <3>2 DEF TypeInv, ServiceTypes
    <3>4. RunTypes'
      BY <1>2, <3>1 DEF TypeInv, RunTypes
    <3> QED
      BY <1>2, <1>3, <2>2, <3>3, <3>4 DEF TypeInv
  <2>4. CASE ~ Current(q)
    BY <1>2, <1>3, <1>6, <2>2, <2>4, CloseTypes DEF Accept, TypeInv
  <2> QED
    BY <2>3, <2>4
<1>7. CASE ReplySnapshot(s)
  <2>1. svc[s].conn # NoRequest
    BY <1>7, Records DEF ReplySnapshot, Serving, ServingAt
  <2> QED
    BY <1>2, <1>3, <1>7, <2>1, ReplyTypes DEF ReplySnapshot, TypeInv
<1>8. CASE Submit(s)
  <2>1. PICK t \in svc[s].conn.tasks :
          /\ spool' = [spool EXCEPT ![s][t.key] = t.content]
          /\ queue' = [queue EXCEPT ![s] = Append(@, t.key)]
          /\ svc' = [svc EXCEPT ![s].conn.tasks = @ \ {t}, ![s].expected = @ \cup {t.key}]
    BY <1>8 DEF Submit
  <2>2. UNCHANGED <<clientVars, backlog, pool, worker, results>>
    BY <1>8 DEF Submit
  <2>3. svc[s].conn \in RequestType
    BY <1>1, <1>8, Records DEF Submit, Serving, ServingAt, ServiceType
  <2>4. t \in TaskType
    BY <2>3 DEF RequestType
  <2>5. t.key \in Keys /\ t.content \in Contents
    BY <2>4 DEF TaskType
  <2> DEFINE v == [svc[s] EXCEPT !.conn.tasks = @ \ {t}, !.expected = @ \cup {t.key}]
  <2>6. [svc[s].conn EXCEPT !.tasks = @ \ {t}] \in RequestType
    BY <2>3 DEF RequestType
  <2>7. v \in ServiceType
    BY <1>1, <2>5, <2>6 DEF ServiceType
  <2>8. svc' = [svc EXCEPT ![s] = v]
    BY <2>1
  <2>9. ServiceTypes'
    BY <2>2, <2>7, <2>8, OneServiceTypes DEF TypeInv
  <2>10. spool' \in [Services -> [Keys -> Contents]] /\ queue' \in [Services -> Seq(Keys)]
    BY <2>1, <2>5 DEF TypeInv, PoolTypes
  <2>11. PoolTypes'
    BY <2>2, <2>10 DEF TypeInv, PoolTypes
  <2> QED
    BY <1>2, <1>4, <2>2, <2>9, <2>11 DEF TypeInv
<1>9. CASE ReplyBatch(s)
  <2>1. svc[s].conn # NoRequest
    BY <1>9, Records DEF ReplyBatch, Serving, ServingAt
  <2>2. svc[s].completed \in SUBSET TaskType
    BY <1>1 DEF ServiceType
  <2> QED
    BY <1>2, <1>3, <1>9, <2>1, <2>2, ReplyTypes DEF ReplyBatch, TypeInv
<1>10. CASE Exit(s)
  BY <1>2, <1>3, <1>10, CloseTypes DEF Exit, TypeInv
<1>11. CASE Stop(s)
  <2>1. [svc[s] EXCEPT !.stopping = TRUE] \in ServiceType
    BY <1>1 DEF ServiceType
  <2>2. ServiceTypes'
    BY <1>11, <2>1, OneServiceTypes DEF Stop, TypeInv
  <2> QED
    BY <1>2, <1>3, <1>4, <1>11, <2>2 DEF Stop, TypeInv
<1> QED
  BY <1>5, <1>6, <1>7, <1>8, <1>9, <1>10, <1>11 DEF ServiceStep

LEMMA PoolStepTypes ==
    ASSUME TypeInv, Serving, NEW s \in Services, PoolStep(s) \/ Dies(s) \/ StaleHeartbeat(s)
    PROVE  TypeInv'
<1>1. UNCHANGED <<clientVars, backlog>>
  BY DEF PoolStep, Take, Check, Drain, Dies, DeadReplaced, StaleHeartbeat
<1>2. RunTypes' /\ rewards' = rewards
  BY <1>1 DEF TypeInv, RunTypes, clientVars
<1>3. svc' = svc => ServiceTypes'
  BY <1>1 DEF TypeInv, ServiceTypes
<1>4. /\ worker[s] \in WorkerType /\ queue[s] \in Seq(Keys) /\ spool[s] \in [Keys -> Contents]
      /\ results[s] \in Seq(MessageType) /\ pool[s] \in PoolType
  BY DEF TypeInv, PoolTypes
<1>5. CASE Take(s)
  <2> DEFINE key == Head(queue[s])
             content == spool[s][key]
             type == IF content = Gone THEN "fatal" ELSE "started"
             state == IF content = Gone THEN "dead" ELSE "busy"
  <2>1. key \in Keys /\ content \in Contents /\ Tail(queue[s]) \in Seq(Keys)
    BY <1>4, <1>5 DEF Take
  <2>2. /\ worker' = [worker EXCEPT ![s] =
               [@ EXCEPT !.state = state, !.key = key, !.content = content]]
        /\ results' = [results EXCEPT ![s] =
               Append(@, Message(type, s, key, content, FALSE))]
        /\ queue' = [queue EXCEPT ![s] = Tail(@)]
        /\ UNCHANGED <<svc, pool, spool>>
    BY <1>5 DEF Take
  <2> HIDE DEF key, content
  <2>3. Message(type, s, key, content, FALSE) \in MessageType
    BY <1>4, <2>1 DEF Message, MessageType, WorkerType
  <2>4. [worker[s] EXCEPT !.state = state, !.key = key, !.content = content] \in WorkerType
    BY <1>4, <2>1 DEF WorkerType
  <2> HIDE DEF type, state
  <2> DEFINE message == Message(type, s, key, content, FALSE)
  <2>5. /\ worker' \in [Services -> WorkerType] /\ results' \in [Services -> Seq(MessageType)]
        /\ queue' \in [Services -> Seq(Keys)]
    <3>1. worker' \in [Services -> WorkerType]
      BY <2>2, <2>4 DEF TypeInv, PoolTypes
    <3>2. results' = [results EXCEPT ![s] = Append(@, message)] /\ message \in MessageType
      BY <2>2, <2>3
    <3>3. results' \in [Services -> Seq(MessageType)]
      <4> HIDE DEF message
      <4> QED
        BY <3>2 DEF TypeInv, PoolTypes
    <3>4. queue' \in [Services -> Seq(Keys)]
      BY <2>1, <2>2 DEF TypeInv, PoolTypes
    <3> QED
      BY <3>1, <3>3, <3>4
  <2>6. \A u \in Services : worker'[u].state = "busy" => worker'[u].key \in Keys
    BY <1>4, <2>1, <2>2 DEF TypeInv, PoolTypes, WorkerType
  <2>7. PoolTypes'
    BY <2>2, <2>5, <2>6 DEF TypeInv, PoolTypes
  <2> QED
    BY <1>2, <1>3, <2>2, <2>7 DEF TypeInv
<1>6. CASE Check(s)
  <2>1. PICK success \in BOOLEAN : results' = [results EXCEPT ![s] = Append(@,
            Message("result", s, worker[s].key, worker[s].content, success))]
    BY <1>6 DEF Check
  <2>2. worker' = [worker EXCEPT ![s].state = "idle"] /\ UNCHANGED <<svc, pool, queue, spool>>
    BY <1>6 DEF Check
  <2>3. worker[s].key \in Keys
    BY <1>6 DEF Check, TypeInv, PoolTypes
  <2>4. Message("result", s, worker[s].key, worker[s].content, success) \in MessageType
    BY <1>4, <2>3 DEF Message, MessageType, WorkerType
  <2>5. results' \in [Services -> Seq(MessageType)]
    BY <2>1, <2>4 DEF TypeInv, PoolTypes
  <2>6. worker' \in [Services -> WorkerType]
    BY <1>4, <2>2 DEF TypeInv, PoolTypes, WorkerType
  <2>7. \A u \in Services : worker'[u].state = "busy" => worker'[u].key \in Keys
    BY <1>4, <2>2 DEF TypeInv, PoolTypes, WorkerType
  <2>8. PoolTypes'
    BY <2>2, <2>5, <2>6, <2>7 DEF TypeInv, PoolTypes
  <2> QED
    BY <1>2, <1>3, <2>2, <2>8 DEF TypeInv
<1>7. CASE DeadReplaced(s) \/ StaleHeartbeat(s)
  <2>1. Restart(s, pool[s]) /\ UNCHANGED <<svc, results, spool>>
    BY <1>7 DEF DeadReplaced, StaleHeartbeat
  <2>2. PoolTypes'
    BY <2>1, RestartTypes DEF TypeInv, PoolTypes
  <2> QED
    BY <1>2, <1>3, <2>1, <2>2 DEF TypeInv
<1>8. CASE Drain(s)
  <2> DEFINE m == Head(results[s])
             p == pool[s]
             v == [svc[s] EXCEPT !.completed = @ \cup {[key |-> m.key, content |-> m.content]}]
  <2>1. m \in MessageType /\ Tail(results[s]) \in Seq(MessageType)
    BY <1>4, <1>8 DEF Drain
  <2>2. /\ \/ Restart(s, p)
           \/ pool' = [pool EXCEPT ![s].inflight = m.key] /\ UNCHANGED <<queue, worker>>
           \/ pool' = [pool EXCEPT ![s].inflight = NoKey] /\ UNCHANGED <<queue, worker>>
           \/ UNCHANGED <<pool, queue, worker>>
        /\ \/ spool' = spool
           \/ p.inflight # NoKey /\ spool' = [spool EXCEPT ![s][p.inflight] = Gone]
        /\ \/ svc' = svc
           \/ svc' = [svc EXCEPT ![s] = v]
        /\ results' = [results EXCEPT ![s] = Tail(@)]
    BY <1>8 DEF Drain
  <2>3. m.key \in Keys /\ m.content \in Contents
    BY <2>1 DEF MessageType
  <2>4. v \in ServiceType
    <3>1. svc[s] \in ServiceType
      BY DEF TypeInv, ServiceTypes
    <3> QED
      BY <2>3, <3>1 DEF ServiceType, TaskType
  <2> HIDE DEF m, v
  <2>5. ServiceTypes'
    BY <1>1, <1>3, <2>2, <2>4, OneServiceTypes DEF TypeInv
  <2>6. results' \in [Services -> Seq(MessageType)]
    BY <2>1, <2>2 DEF TypeInv, PoolTypes
  <2>7. spool' \in [Services -> [Keys -> Contents]]
    <3>1. p.inflight # NoKey => p.inflight \in Keys
      BY <1>4 DEF PoolType
    <3>2. Gone \in Contents
      BY DEF Gone, Contents
    <3>3. p.inflight \in Keys => [spool[s] EXCEPT ![p.inflight] = Gone] \in [Keys -> Contents]
      BY <1>4, <3>2
    <3>4. \/ spool' = spool
          \/ spool' = [spool EXCEPT ![s] = [spool[s] EXCEPT ![p.inflight] = Gone]]
               /\ p.inflight \in Keys
      BY <2>2, <3>1
    <3> QED
      BY <3>3, <3>4 DEF TypeInv, PoolTypes
  <2>8. ASSUME NEW k \in Keys \cup {NoKey}, pool' = [pool EXCEPT ![s].inflight = k]
        PROVE  pool' \in [Services -> PoolType]
    BY <1>4, <2>8 DEF TypeInv, PoolTypes, PoolType
  <2> DEFINE Typed ==
        /\ pool' \in [Services -> PoolType] /\ worker' \in [Services -> WorkerType]
        /\ queue' \in [Services -> Seq(Keys)]
        /\ \A u \in Services : worker'[u].state = "busy" => worker'[u].key \in Keys
  <2>9. Typed
    <3>1. Restart(s, p) => Typed
      BY RestartTypes DEF TypeInv
    <3>2. UNCHANGED <<queue, worker>> /\ pool' \in [Services -> PoolType] => Typed
      BY DEF TypeInv, PoolTypes
    <3>3. UNCHANGED pool => pool' \in [Services -> PoolType]
      BY DEF TypeInv, PoolTypes
    <3> QED
      BY <2>2, <2>3, <2>8, <3>1, <3>2, <3>3
  <2> QED
    BY <1>2, <2>5, <2>6, <2>7, <2>9 DEF TypeInv, PoolTypes
<1>9. CASE Dies(s)
  <2>1. /\ worker' = [worker EXCEPT ![s] = [worker[s] EXCEPT !.state = "dead",
               !.key = IF worker[s].state = "busy" THEN worker[s].key ELSE NoKey]]
        /\ UNCHANGED <<svc, pool, queue, results, spool>>
    BY <1>9 DEF Dies
  <2>2. PoolTypes'
    <3> DEFINE w == [worker[s] EXCEPT !.state = "dead",
                        !.key = IF worker[s].state = "busy" THEN worker[s].key ELSE NoKey]
    <3>1. w \in WorkerType /\ w.state = "dead"
      BY <1>4 DEF WorkerType
    <3>2. worker' = [worker EXCEPT ![s] = w]
      BY <2>1
    <3> HIDE DEF w
    <3> QED
      BY <2>1, <3>1, <3>2 DEF TypeInv, PoolTypes
  <2> QED
    BY <1>2, <1>3, <2>1, <2>2 DEF TypeInv
<1> QED
  BY <1>5, <1>6, <1>7, <1>8, <1>9 DEF PoolStep

LEMMA NextTypes ==
    ASSUME TypeInv, Serving, [Next]_vars
    PROVE  TypeInv'
<1>1. CASE Launch
  <2>1. client' \in [Ranks -> ClientType] /\ life' \in Nat /\ life' > 0 /\ running'
    BY <1>1, Records DEF Launch, TypeInv, RunTypes
  <2>2. \A r \in Ranks : client'[r].index <= client'[r].batch * BatchSize
    BY <1>1, ServiceAssumption DEF Launch, NewClient
  <2>3. RunTypes'
    BY <2>1, <2>2, <1>1 DEF RunTypes, Launch
  <2> QED
    BY <1>1, <2>3 DEF Launch, TypeInv, ServiceTypes, PoolTypes, poolVars
<1>2. CASE Kill
  <2>1. RunTypes'
    BY <1>2, KilledTypes DEF Kill, TypeInv
  <2> QED
    BY <1>2, <2>1 DEF Kill, TypeInv, ServiceTypes, PoolTypes, poolVars
<1>3. CASE UNCHANGED vars
  BY <1>3 DEF vars, TypeInv, RunTypes, ServiceTypes, PoolTypes
<1> QED
  BY <1>1, <1>2, <1>3, ClientStepTypes, ServiceStepTypes, PoolStepTypes DEF Next
------------------------------------------------------------------------------
(* The two ends agree on who waits.                                        *)

\* A service without a connection is listening, or does not serve.
LEMMA Unserving ==
    ASSUME ServiceTypes, Serving, NEW s \in Services,
           svc[s].pc \notin {"snapshot", "run_batch"}
    PROVE  svc[s].conn = NoRequest
BY DEF ServiceTypes, ServiceType, RequestType, Serving, ServingAt

\* Nothing of a service moves that its clients know of.
LEMMA QuietService ==
    ASSUME NEW s \in Services, ServingAt(s), OneRequestAt(s),
           \/ svc'[s].pc = svc[s].pc
           \/ svc[s].pc = "booting" /\ svc'[s].pc = "listening",
           svc'[s].conn.life = svc[s].conn.life, svc'[s].conn.rank = svc[s].conn.rank,
           svc'[s].conn.op = svc[s].conn.op, backlog'[s] = backlog[s], life' = life
    PROVE  /\ ServingAt(s)' /\ OneRequestAt(s)'
           /\ \A r \in Ranks : Connected(r, s)' <=> Connected(r, s)
<1>1. /\ \A q \in Requests(s)' : q.life <= life
      /\ \A r \in Ranks : Connected(r, s)' <=> Connected(r, s)
  BY DEF Requests, Connected, ServingAt
<1>2. ServingAt(s)'
  BY <1>1 DEF ServingAt
<1>3. OneRequestAt(s)'
  BY DEF OneRequestAt
<1> QED
  BY <1>1, <1>2, <1>3

LEMMA QuietKeepsConn ==
    ASSUME ConnInv,
           \A s \in Services :
              /\ \/ svc'[s].pc = svc[s].pc
                 \/ svc[s].pc = "booting" /\ svc'[s].pc = "listening"
              /\ svc'[s].conn.life = svc[s].conn.life /\ svc'[s].conn.rank = svc[s].conn.rank
              /\ svc'[s].conn.op = svc[s].conn.op /\ backlog'[s] = backlog[s],
           UNCHANGED <<life, running, client>>
    PROVE  ConnInv'
<1>1. \A s \in Services : /\ ServingAt(s)' /\ OneRequestAt(s)'
                          /\ \A r \in Ranks : Connected(r, s)' <=> Connected(r, s)
  BY QuietService DEF ConnInv, Serving, OneRequest
<1> QED
  BY <1>1 DEF ConnInv, Serving, OneRequest, WaitsInCall, WaitsForAnswer

\* A run ends.
LEMMA KilledKeepsConn ==
    ASSUME Killed, Serving', OneRequest'
    PROVE  ConnInv'
BY DEF Killed, ConnInv, WaitsInCall, WaitsForAnswer, NewClient

LEMMA CloseKeepsConn ==
    ASSUME TypeInv, ConnInv, NEW s \in Services, Close(s), life' = life
    PROVE  ConnInv'
<1>1. /\ svc'[s].pc = "closed" /\ svc'[s].conn = NoRequest /\ backlog'[s] = <<>>
      /\ \A u \in Services \ {s} : svc'[u] = svc[u] /\ backlog'[u] = backlog[u]
  BY DEF Close, Idle, TypeInv, ServiceTypes
<1>2. Requests(s)' = {NoRequest}
  BY <1>1 DEF Requests
<1>3. ServingAt(s)' /\ OneRequestAt(s)'
  BY <1>1, <1>2, Records DEF ServingAt, OneRequestAt, TypeInv, RunTypes
<1>4. \A u \in Services \ {s} :
        /\ ServingAt(u)' /\ OneRequestAt(u)'
        /\ \A r \in Ranks : Connected(r, u)' <=> Connected(r, u)
  BY <1>1, QuietService DEF ConnInv, Serving, OneRequest
<1>5. Serving' /\ OneRequest'
  BY <1>3, <1>4 DEF Serving, OneRequest
<1>6. CASE Killed
  BY <1>5, <1>6, KilledKeepsConn
<1>7. CASE ~ Killed
  <2>1. UNCHANGED <<running, client>> /\ ~ \E r \in Ranks : Connected(r, s) /\ running
    BY <1>7 DEF Close
  <2>2. \A r \in Ranks : running => ~ Connected(r, s)'
    BY <1>2, Records DEF Connected, TypeInv, RunTypes
  <2>3. WaitsForAnswer'
    BY <2>1, <2>2, <1>4 DEF WaitsForAnswer, ConnInv
  <2> QED
    BY <1>5, <2>1, <2>3 DEF ConnInv, WaitsInCall
<1> QED
  BY <1>6, <1>7

\* A request is the last one of a backlog.
LEMMA Appended ==
    ASSUME ServiceTypes, NEW s \in Services, NEW q \in RequestType,
           backlog'[s] = Append(backlog[s], q), svc'[s] = svc[s]
    PROVE  /\ \E n \in Nat :
                /\ DOMAIN backlog[s] = 1 .. n /\ DOMAIN backlog'[s] = 1 .. n + 1
                /\ backlog'[s][n + 1] = q
                /\ \A i \in 1 .. n : backlog'[s][i] = backlog[s][i]
           /\ Requests(s)' = Requests(s) \cup {q}
<1>1. backlog[s] \in Seq(RequestType)
  BY DEF ServiceTypes
<1>2. PICK n \in Nat : n = Len(backlog[s])
  BY <1>1
<1>3. /\ DOMAIN backlog'[s] = 1 .. n + 1 /\ DOMAIN backlog[s] = 1 .. n
      /\ backlog'[s][n + 1] = q
      /\ \A i \in 1 .. n : backlog'[s][i] = backlog[s][i]
  BY <1>1, <1>2
<1>4. \A i \in 1 .. n + 1 : i \in 1 .. n \/ i = n + 1
  OBVIOUS
<1>5. n + 1 \in 1 .. n + 1 /\ \A i \in 1 .. n : i \in 1 .. n + 1
  OBVIOUS
<1>6. ASSUME NEW i \in DOMAIN backlog'[s]
      PROVE  backlog'[s][i] \in {backlog[s][j] : j \in DOMAIN backlog[s]} \cup {q}
  BY <1>3, <1>4
<1>7. ASSUME NEW i \in DOMAIN backlog[s]
      PROVE  backlog[s][i] \in {backlog'[s][j] : j \in DOMAIN backlog'[s]}
  BY <1>3, <1>5
<1>8. q \in {backlog'[s][j] : j \in DOMAIN backlog'[s]}
  BY <1>3, <1>5
<1>9. Requests(s)' = Requests(s) \cup {q}
  BY <1>6, <1>7, <1>8 DEF Requests
<1> QED
  BY <1>3, <1>9

\* A rank sends its requests.
LEMMA ConnectKeepsConn ==
    ASSUME TypeInv, ConnInv, NEW r \in Ranks, NEW D \in SUBSET Services,
           NEW requests \in [D -> RequestType],
           \A s \in D : requests[s].life = life /\ requests[s].rank = r,
           running, client[r].waiting = {}, Connect(r, requests),
           NEW c, c.waiting = D, c.pc \in {"snapshot", "batch"},
           running' => SetClient(r, c), UNCHANGED <<life, svc>>
    PROVE  ConnInv'
<1>1. CASE Killed /\ UNCHANGED backlog
  <2>1. Serving' /\ OneRequest'
    BY <1>1, QuietService DEF ConnInv, Serving, OneRequest
  <2> QED
    BY <1>1, <2>1, KilledKeepsConn
<1>2. CASE ~ (Killed /\ UNCHANGED backlog)
  <2>1. /\ \A s \in Services : backlog'[s] =
             IF s \in D THEN Append(backlog[s], requests[s]) ELSE backlog[s]
        /\ \A s \in D : svc[s].pc \notin {"booting", "closed"}
        /\ running' = running /\ SetClient(r, c)
    BY <1>2 DEF Connect
  <2>2. \A s \in Services : ~ Connected(r, s)
    BY DEF ConnInv, WaitsForAnswer
  <2>3. ASSUME NEW s \in D
        PROVE  /\ ServingAt(s)' /\ OneRequestAt(s)' /\ Connected(r, s)'
               /\ \A u \in Ranks \ {r} : Connected(u, s)' <=> Connected(u, s)
    <3> DEFINE q == requests[s]
    <3>2. q \in RequestType /\ q.life = life /\ q.rank = r
      OBVIOUS
    <3>3. backlog'[s] = Append(backlog[s], q) /\ svc'[s] = svc[s]
      BY <2>1
    <3> HIDE DEF q
    <3>4. PICK n \in Nat :
            /\ DOMAIN backlog[s] = 1 .. n /\ DOMAIN backlog'[s] = 1 .. n + 1
            /\ backlog'[s][n + 1] = q
            /\ \A i \in 1 .. n : backlog'[s][i] = backlog[s][i]
      BY <3>2, <3>3, Appended DEF TypeInv
    <3>5. Requests(s)' = Requests(s) \cup {q}
      BY <3>2, <3>3, Appended DEF TypeInv
    <3>6. ServingAt(s)'
      BY <2>1, <3>2, <3>5 DEF ServingAt, ConnInv, Serving, TypeInv, RunTypes
    <3>7. /\ \A i \in 1 .. n : ~ (backlog[s][i].life = life /\ backlog[s][i].rank = r)
          /\ ~ (svc[s].conn.life = life /\ svc[s].conn.rank = r)
      BY <2>2, <3>4 DEF Connected, Requests
    <3>8. OneRequestAt(s)'
      <4>1. ASSUME NEW i \in 1 .. n + 1, backlog'[s][i].life = life
            PROVE  /\ \A j \in 1 .. n + 1 : backlog'[s][j].life = life
                        /\ backlog'[s][j].rank = backlog'[s][i].rank => j = i
                   /\ ~ (svc[s].conn.life = life /\ svc[s].conn.rank = backlog'[s][i].rank)
        <5>1. \A j \in 1 .. n + 1 : j \in 1 .. n \/ j = n + 1
          OBVIOUS
        <5> QED
          BY <3>2, <3>4, <3>7, <4>1, <5>1 DEF OneRequestAt, ConnInv, OneRequest
      <4> QED
        BY <3>4, <4>1 DEF OneRequestAt
    <3>9. Connected(r, s)' /\ \A u \in Ranks \ {r} : Connected(u, s)' <=> Connected(u, s)
      BY <3>2, <3>5 DEF Connected
    <3> QED
      BY <3>6, <3>8, <3>9
  <2>4. ASSUME NEW s \in Services \ D
        PROVE  /\ ServingAt(s)' /\ OneRequestAt(s)'
               /\ \A u \in Ranks : Connected(u, s)' <=> Connected(u, s)
    BY <2>1, QuietService DEF ConnInv, Serving, OneRequest
  <2>5. client'[r] = c /\ \A u \in Ranks \ {r} : client'[u] = client[u]
    BY <2>1 DEF SetClient, TypeInv, RunTypes
  <2>6. WaitsForAnswer'
    BY <2>2, <2>3, <2>4, <2>5 DEF WaitsForAnswer, ConnInv
  <2>7. WaitsInCall'
    BY <2>5 DEF WaitsInCall, ConnInv
  <2> QED
    BY <2>3, <2>4, <2>6, <2>7 DEF ConnInv, Serving, OneRequest
<1> QED
  BY <1>1, <1>2

LEMMA ReplyKeepsConn ==
    ASSUME TypeInv, ConnInv, NEW s \in Services, NEW verdicts, Reply(s, verdicts),
           svc[s].pc \in {"snapshot", "run_batch"}, UNCHANGED <<life, backlog>>
    PROVE  ConnInv'
<1> DEFINE q == svc[s].conn
<1>1. /\ svc'[s].pc = "listening" /\ svc'[s].conn = NoRequest
      /\ \A u \in Services \ {s} : svc'[u] = svc[u]
  BY DEF Reply, Idle, TypeInv, ServiceTypes
<1>2. q \in RequestType
  BY Records DEF TypeInv, ServiceTypes, ServiceType, ConnInv, Serving, ServingAt
<1>3. ServingAt(s)' /\ OneRequestAt(s)'
  <2>1. \A x \in Requests(s)' : x = NoRequest \/ x \in Requests(s)
    BY <1>1 DEF Requests
  <2>2. ServingAt(s)'
    BY <1>1, <2>1, Records DEF ServingAt, ConnInv, Serving, TypeInv, RunTypes
  <2>3. \A i \in DOMAIN backlog[s] : backlog[s][i].life # 0
    <3>1. \A i \in DOMAIN backlog[s] : backlog[s][i] \in RequestType
      BY DEF TypeInv, ServiceTypes
    <3> QED
      BY <3>1 DEF RequestType
  <2>4. OneRequestAt(s)'
    BY <1>1, <2>3, Records DEF OneRequestAt, ConnInv, OneRequest
  <2> QED
    BY <2>2, <2>4
<1>4. \A u \in Services \ {s} :
        /\ ServingAt(u)' /\ OneRequestAt(u)'
        /\ \A r \in Ranks : Connected(r, u)' <=> Connected(r, u)
  BY <1>1, QuietService DEF ConnInv, Serving, OneRequest
<1>5. Serving' /\ OneRequest'
  BY <1>3, <1>4 DEF Serving, OneRequest
<1>6. CASE Killed
  BY <1>5, <1>6, KilledKeepsConn
<1>7. CASE ~ Killed /\ ~ running
  <2>1. UNCHANGED <<running, client>>
    BY <1>7 DEF Reply, Current
  <2> QED
    BY <1>5, <1>7, <2>1 DEF ConnInv, WaitsInCall, WaitsForAnswer
<1>8. CASE ~ Killed /\ running
  <2>1. running' = running
    BY <1>8 DEF Reply
  <2>2. \A u \in Ranks : Connected(u, s)' <=> Connected(u, s) /\ ~ (q.life = life /\ q.rank = u)
    <3>1. ASSUME NEW u \in Ranks, Connected(u, s)'
          PROVE  Connected(u, s) /\ ~ (q.life = life /\ q.rank = u)
      <4>1. PICK x \in Requests(s)' : x.life = life /\ x.rank = u
        BY <3>1 DEF Connected
      <4>2. x # NoRequest
        BY <1>8, <4>1, Records DEF TypeInv, RunTypes
      <4>3. PICK i \in DOMAIN backlog[s] : x = backlog[s][i]
        BY <1>1, <4>1, <4>2 DEF Requests
      <4> QED
        BY <4>1, <4>3 DEF Connected, Requests, ConnInv, OneRequest, OneRequestAt
    <3>2. ASSUME NEW u \in Ranks, Connected(u, s), ~ (q.life = life /\ q.rank = u)
          PROVE  Connected(u, s)'
      BY <3>2 DEF Connected, Requests
    <3> QED
      BY <3>1, <3>2
  <2>3. CASE q.life = life
    <3>1. client' = [client EXCEPT ![q.rank] = [client[q.rank] EXCEPT
                        !.waiting = @ \ {s}, !.verdicts = @ \cup verdicts]]
      BY <1>8, <2>3 DEF Reply, Current, SetClient
    <3>2. /\ client'[q.rank].waiting = client[q.rank].waiting \ {s}
          /\ client'[q.rank].pc = client[q.rank].pc
          /\ \A u \in Ranks \ {q.rank} : client'[u] = client[u]
      BY <1>2, <3>1 DEF TypeInv, RunTypes, ClientType, RequestType
    <3>3. WaitsInCall'
      BY <3>2 DEF WaitsInCall, ConnInv
    <3>4. WaitsForAnswer'
      <4>1. \A u \in Ranks, x \in Services : x \in client'[u].waiting
               <=> x \in client[u].waiting /\ ~ (u = q.rank /\ x = s)
        BY <3>2
      <4> QED
        BY <1>4, <1>8, <2>1, <2>2, <2>3, <4>1 DEF WaitsForAnswer, ConnInv
    <3> QED
      BY <1>5, <3>3, <3>4 DEF ConnInv
  <2>4. CASE q.life # life
    <3>1. UNCHANGED <<running, client>>
      BY <1>8, <2>4 DEF Reply, Current
    <3>2. WaitsForAnswer'
      BY <1>4, <1>8, <2>2, <2>4, <3>1 DEF WaitsForAnswer, ConnInv
    <3> QED
      BY <1>5, <3>1, <3>2 DEF ConnInv, WaitsInCall
  <2> QED
    BY <2>3, <2>4
<1> QED
  BY <1>6, <1>7, <1>8
\* The first request of a backlog becomes the connection.
LEMMA AcceptFacts ==
    ASSUME TypeInv, ConnInv, NEW s \in Services, Accept(s), Current(Head(backlog[s]))
    PROVE  /\ UNCHANGED <<life, running, client>> /\ running
           /\ svc[s].pc = "listening" /\ svc[s].conn = NoRequest
           /\ svc'[s].expected = svc[s].expected /\ svc'[s].completed = svc[s].completed
           /\ svc'[s].conn \in RequestType /\ svc'[s].conn.life = life
           /\ svc'[s].pc = svc'[s].conn.op
           /\ \A u \in Services \ {s} : svc'[u] = svc[u] /\ backlog'[u] = backlog[u]
           /\ \E n \in Nat :
                /\ DOMAIN backlog[s] = 1 .. n + 1 /\ DOMAIN backlog'[s] = 1 .. n
                /\ svc'[s].conn = backlog[s][1]
                /\ \A i \in 1 .. n : backlog'[s][i] = backlog[s][i + 1]
           /\ Requests(s)' \cup {NoRequest} = Requests(s)
<1> DEFINE q == Head(backlog[s])
<1>1. /\ svc' = [svc EXCEPT ![s].pc = q.op, ![s].conn = q]
      /\ backlog' = [backlog EXCEPT ![s] = Tail(@)]
      /\ UNCHANGED <<life, running, client>> /\ running /\ svc[s].pc = "listening" /\ backlog[s] # <<>>
  BY DEF Accept, Current
<1>2. svc[s].conn = NoRequest
  BY <1>1, Unserving DEF TypeInv, ConnInv
<1>3. backlog[s] \in Seq(RequestType) /\ svc[s] \in ServiceType
  BY DEF TypeInv, ServiceTypes
<1>4. PICK n \in Nat \ {0} : n = Len(backlog[s])
  BY <1>1, <1>3
<1>5. /\ DOMAIN backlog[s] = 1 .. n /\ DOMAIN backlog'[s] = 1 .. n - 1
      /\ \A i \in 1 .. n - 1 : backlog'[s][i] = backlog[s][i + 1]
      /\ q = backlog[s][1]
  BY <1>1, <1>3, <1>4 DEF TypeInv, ServiceTypes
<1>6. /\ svc'[s].expected = svc[s].expected /\ svc'[s].completed = svc[s].completed
      /\ svc'[s].pc = q.op /\ svc'[s].conn = q
      /\ \A u \in Services \ {s} : svc'[u] = svc[u] /\ backlog'[u] = backlog[u]
  BY <1>1, <1>3 DEF TypeInv, ServiceTypes, ServiceType
<1>7. q \in RequestType /\ q.life = life /\ q.op \in {"snapshot", "run_batch"}
  <2>1. q \in RequestType
    BY <1>3, <1>1
  <2> QED
    BY <2>1 DEF Current, RequestType
<1> HIDE DEF q
<1>8. \A i \in 1 .. n - 1 : i \in 1 .. n /\ i + 1 \in 1 .. n /\ i + 1 # 1
  BY <1>4
<1>9. \A i \in 1 .. n : i # 1 => i - 1 \in 1 .. n - 1 /\ (i - 1) + 1 = i
  BY <1>4
<1>10. 1 \in 1 .. n
  BY <1>4
<1>11. Requests(s)' \cup {NoRequest} = Requests(s)
  <2>1. ASSUME NEW x \in Requests(s)'
        PROVE  x \in Requests(s)
    <3>1. CASE x = q
      BY <1>5, <1>10, <3>1 DEF Requests
    <3>2. CASE x # q
      <4>1. PICK i \in 1 .. n - 1 : x = backlog'[s][i]
        BY <1>5, <1>6, <3>2 DEF Requests
      <4> QED
        BY <1>5, <1>8, <4>1 DEF Requests
    <3> QED
      BY <3>1, <3>2
  <2>2. ASSUME NEW x \in Requests(s), x # NoRequest
        PROVE  x \in Requests(s)'
    <3>1. PICK i \in 1 .. n : x = backlog[s][i]
      BY <1>2, <1>5, <2>2 DEF Requests
    <3>2. CASE i = 1
      BY <1>5, <1>6, <3>1, <3>2 DEF Requests
    <3>3. CASE i # 1
      <4>1. i - 1 \in 1 .. n - 1 /\ backlog'[s][i - 1] = x
        BY <1>5, <1>9, <3>1, <3>3
      <4> QED
        BY <1>5, <4>1 DEF Requests
    <3> QED
      BY <3>2, <3>3
  <2>3. NoRequest \in Requests(s)
    BY <1>2 DEF Requests
  <2> QED
    BY <2>1, <2>2, <2>3
<1> QED
  <2>1. n - 1 \in Nat /\ (n - 1) + 1 = n
    BY <1>4
  <2>2. \E k \in Nat :
           /\ DOMAIN backlog[s] = 1 .. k + 1 /\ DOMAIN backlog'[s] = 1 .. k
           /\ svc'[s].conn = backlog[s][1]
           /\ \A i \in 1 .. k : backlog'[s][i] = backlog[s][i + 1]
    BY <1>5, <1>6, <2>1
  <2> QED
    BY <1>1, <1>2, <1>6, <1>7, <1>11, <2>2

LEMMA AcceptKeepsConn ==
    ASSUME TypeInv, ConnInv, NEW s \in Services, Accept(s), Current(Head(backlog[s]))
    PROVE  ConnInv'
<1> DEFINE q == svc'[s].conn
<1>1. /\ UNCHANGED <<life, running, client>> /\ q \in RequestType /\ q.life = life
      /\ svc'[s].pc = q.op /\ q.op \in {"snapshot", "run_batch"}
      /\ \A u \in Services \ {s} : svc'[u] = svc[u] /\ backlog'[u] = backlog[u]
      /\ Requests(s)' \cup {NoRequest} = Requests(s)
  BY AcceptFacts DEF RequestType
<1>2. PICK n \in Nat :
        /\ DOMAIN backlog[s] = 1 .. n + 1 /\ DOMAIN backlog'[s] = 1 .. n
        /\ q = backlog[s][1]
        /\ \A i \in 1 .. n : backlog'[s][i] = backlog[s][i + 1]
  BY AcceptFacts
<1> HIDE DEF q
<1>3. 1 \in 1 .. n + 1 /\ \A i \in 1 .. n : i + 1 \in 1 .. n + 1 /\ i + 1 # 1
  OBVIOUS
<1>4. ServingAt(s)'
  <2>1. \A x \in Requests(s)' : x.life <= life'
    BY <1>1 DEF ConnInv, Serving, ServingAt
  <2> QED
    BY <1>1, <2>1 DEF ServingAt, q
<1>5. OneRequestAt(s)'
  <2>1. ASSUME NEW i \in 1 .. n, backlog'[s][i].life = life
        PROVE  /\ \A j \in 1 .. n : backlog'[s][j].life = life
                    /\ backlog'[s][j].rank = backlog'[s][i].rank => j = i
               /\ ~ (q.life = life /\ q.rank = backlog'[s][i].rank)
    <3>1. backlog'[s][i] = backlog[s][i + 1] /\ i + 1 \in 1 .. n + 1
      BY <1>2, <1>3
    <3>2. \A j \in 1 .. n + 1 : backlog[s][j].life = life
            /\ backlog[s][j].rank = backlog[s][i + 1].rank => j = i + 1
      BY <1>2, <2>1, <3>1 DEF ConnInv, OneRequest, OneRequestAt
    <3>3. ASSUME NEW j \in 1 .. n, backlog'[s][j].life = life,
                 backlog'[s][j].rank = backlog'[s][i].rank
          PROVE  j = i
      <4>1. j + 1 = i + 1
        BY <1>2, <1>3, <3>1, <3>2, <3>3
      <4> QED
        BY <4>1
    <3>4. ~ (q.life = life /\ q.rank = backlog'[s][i].rank)
      BY <1>2, <1>3, <3>1, <3>2
    <3> QED
      BY <3>3, <3>4
  <2> QED
    BY <1>1, <1>2, <2>1 DEF OneRequestAt, q
<1>6. \A u \in Services \ {s} :
        /\ ServingAt(u)' /\ OneRequestAt(u)'
        /\ \A r \in Ranks : Connected(r, u)' <=> Connected(r, u)
  BY <1>1, QuietService DEF ConnInv, Serving, OneRequest
<1>7. running => \A r \in Ranks : Connected(r, s)' <=> Connected(r, s)
  <2>1. \A x \in Requests(s) : running /\ x.life = life => x # NoRequest
    BY Records DEF TypeInv, RunTypes
  <2> QED
    BY <1>1, <2>1 DEF Connected
<1>8. WaitsForAnswer'
  BY <1>1, <1>6, <1>7 DEF WaitsForAnswer, ConnInv
<1> QED
  BY <1>1, <1>4, <1>5, <1>6, <1>8 DEF ConnInv, Serving, OneRequest, WaitsInCall

\* A change of one client that waits for the same services
LEMMA ClientKeepsConn ==
    ASSUME TypeInv, ConnInv, NEW r \in Ranks, NEW c, SetClient(r, c),
           c.waiting = client[r].waiting, c.waiting = {},
           UNCHANGED <<life, running, svc, backlog>>
    PROVE  ConnInv'
<1>1. client'[r] = c /\ \A u \in Ranks \ {r} : client'[u] = client[u]
  BY DEF SetClient, TypeInv, RunTypes
<1>2. \A s \in Services : /\ ServingAt(s)' /\ OneRequestAt(s)'
                          /\ \A u \in Ranks : Connected(u, s)' <=> Connected(u, s)
  BY QuietService DEF ConnInv, Serving, OneRequest
<1>3. WaitsForAnswer'
  BY <1>1, <1>2 DEF ConnInv, WaitsForAnswer
<1>4. WaitsInCall'
  BY <1>1 DEF ConnInv, WaitsInCall
<1> QED
  BY <1>2, <1>3, <1>4 DEF ConnInv, Serving, OneRequest

LEMMA ClientStepConn ==
    ASSUME TypeInv, ConnInv, NEW r \in Ranks, ClientStep(r)
    PROVE  ConnInv'
<1>1. client[r] \in ClientType
  BY DEF TypeInv, RunTypes
<1>2. CASE Snapshot(r)
  <2> DEFINE requests == [s \in OwnServices(r) |-> Request(r, "snapshot", {})]
             c == [client[r] EXCEPT !.pc = "snapshot", !.waiting = OwnServices(r)]
  <2>1. c.waiting = OwnServices(r) /\ c.pc = "snapshot"
    BY <1>1 DEF ClientType
  <2>2. running /\ life \in Nat /\ life > 0 /\ client[r].waiting = {}
    BY <1>2 DEF Snapshot, TypeInv, RunTypes, ConnInv, WaitsInCall
  <2>3. /\ requests \in [OwnServices(r) -> RequestType]
        /\ \A s \in OwnServices(r) : requests[s].life = life /\ requests[s].rank = r
    BY <2>2 DEF Request, RequestType
  <2>4. Connect(r, requests) /\ (running' => SetClient(r, c)) /\ UNCHANGED <<life, svc>>
    BY <1>2 DEF Snapshot
  <2> HIDE DEF requests, c
  <2> QED
    BY <2>1, <2>2, <2>3, <2>4, Targets, ConnectKeepsConn
<1>3. CASE RunBatch(r)
  <2>1. PICK good \in SUBSET Positions :
          LET tasks == Tasks(r, good)
              targets == {ServiceOf(r, t.key[2]) : t \in tasks}
          IN  /\ Connect(r, [s \in targets |->
                               Request(r, "run_batch", TasksFor(r, s, tasks))])
              /\ running' => SetClient(r,
                    [client[r] EXCEPT !.pc = "batch", !.batch = @ + 1,
                        !.index = @ + Cardinality(good), !.tasks = tasks,
                        !.waiting = targets, !.verdicts = {}])
    BY <1>3 DEF RunBatch
  <2> DEFINE tasks == Tasks(r, good)
             targets == {ServiceOf(r, t.key[2]) : t \in tasks}
             requests == [s \in targets |-> Request(r, "run_batch", TasksFor(r, s, tasks))]
             c == [client[r] EXCEPT !.pc = "batch", !.batch = @ + 1,
                       !.index = @ + Cardinality(good), !.tasks = tasks,
                       !.waiting = targets, !.verdicts = {}]
  <2>2. /\ running /\ life \in Nat /\ life > 0 /\ client[r].waiting = {}
        /\ client[r].batch < MaxBatch /\ UNCHANGED <<life, svc>>
    BY <1>3 DEF RunBatch, TypeInv, RunTypes, ConnInv, WaitsInCall
  <2>3. tasks \subseteq TaskType /\ \A t \in tasks : t.key[2] \in Nat
    BY <2>2, NewTasks DEF TypeInv
  <2> HIDE DEF tasks
  <2>4. targets \in SUBSET Services
    BY <2>3, Targets
  <2>5. /\ requests \in [targets -> RequestType]
        /\ \A s \in targets : requests[s].life = life /\ requests[s].rank = r
    BY <2>2, <2>3 DEF Request, RequestType, TasksFor
  <2>6. c.waiting = targets /\ c.pc = "batch"
    BY <1>1 DEF ClientType
  <2>7. Connect(r, requests) /\ (running' => SetClient(r, c))
    BY <2>1 DEF tasks
  <2> HIDE DEF targets, requests, c
  <2> QED
    BY <2>2, <2>4, <2>5, <2>6, <2>7, ConnectKeepsConn
<1>4. CASE Started(r)
  <2> DEFINE c == [client[r] EXCEPT !.pc = "started"]
  <2>1. c.waiting = client[r].waiting /\ client[r].waiting = {}
    BY <1>1, <1>4 DEF Started, ClientType
  <2>2. SetClient(r, c) /\ UNCHANGED <<life, running, svc, backlog>>
    BY <1>4 DEF Started
  <2> HIDE DEF c
  <2> QED
    BY <2>1, <2>2, ClientKeepsConn
<1>5. CASE Score(r)
  <2> DEFINE c == [client[r] EXCEPT !.pc = "started", !.tasks = {}, !.verdicts = {}]
  <2>1. c.waiting = client[r].waiting /\ client[r].waiting = {}
    BY <1>1, <1>5 DEF Score, ClientType
  <2>2. SetClient(r, c) /\ UNCHANGED <<life, running, svc, backlog>>
    BY <1>5 DEF Score
  <2> HIDE DEF c
  <2> QED
    BY <2>1, <2>2, ClientKeepsConn
<1> QED
  BY <1>2, <1>3, <1>4, <1>5 DEF ClientStep

\* The steps that leave every connection as it is
LEMMA QuietStep ==
    ASSUME TypeInv, ConnInv, NEW s \in Services,
           Boot(s) \/ Submit(s) \/ Stop(s) \/ PoolStep(s) \/ Dies(s) \/ StaleHeartbeat(s)
    PROVE  ConnInv'
<1>1. UNCHANGED <<life, running, client, backlog>>
  BY DEF Boot, Submit, Stop, PoolStep, Take, Check, Drain, Dies, DeadReplaced,
         StaleHeartbeat, clientVars
<1>2. /\ \/ svc'[s].pc = svc[s].pc
         \/ svc[s].pc = "booting" /\ svc'[s].pc = "listening"
      /\ svc'[s].conn.life = svc[s].conn.life /\ svc'[s].conn.rank = svc[s].conn.rank
      /\ svc'[s].conn.op = svc[s].conn.op
      /\ \A u \in Services \ {s} : svc'[u] = svc[u]
  <2>1. svc \in [Services -> ServiceType] /\ svc[s] \in ServiceType
    BY DEF TypeInv, ServiceTypes
  <2>2. CASE Boot(s)
    <3>1. svc[s].conn = NoRequest
      BY <2>2, Unserving DEF Boot, TypeInv, ConnInv
    <3> QED
      BY <2>1, <2>2, <3>1 DEF Boot, Idle
  <2>3. CASE Submit(s)
    <3>1. svc[s].conn \in RequestType
      BY <2>1, <2>3, Records DEF Submit, ConnInv, Serving, ServingAt, ServiceType
    <3> QED
      <4>1. PICK t \in svc[s].conn.tasks :
              svc' = [svc EXCEPT ![s].conn.tasks = @ \ {t}, ![s].expected = @ \cup {t.key}]
        BY <2>3 DEF Submit
      <4> DEFINE v == [svc[s] EXCEPT !.conn.tasks = @ \ {t}, !.expected = @ \cup {t.key}]
      <4>2. v.pc = svc[s].pc /\ v.conn = [svc[s].conn EXCEPT !.tasks = @ \ {t}]
        BY <2>1 DEF ServiceType
      <4>3. svc' = [svc EXCEPT ![s] = v]
        BY <4>1
      <4> HIDE DEF v
      <4> QED
        BY <2>1, <3>1, <4>2, <4>3 DEF RequestType
  <2>4. CASE Stop(s)
    BY <2>1, <2>4 DEF Stop, ServiceType
  <2>5. CASE Take(s) \/ Check(s) \/ Dies(s) \/ DeadReplaced(s) \/ StaleHeartbeat(s)
    BY <2>5 DEF Take, Check, Dies, DeadReplaced, StaleHeartbeat
  <2>6. CASE Drain(s)
    BY <2>1, <2>6 DEF Drain, ServiceType
  <2> QED
    BY <2>2, <2>3, <2>4, <2>5, <2>6 DEF PoolStep
<1> QED
  BY <1>1, <1>2, QuietKeepsConn

LEMMA NextKeepsConn ==
    ASSUME TypeInv, ConnInv, [Next]_vars
    PROVE  ConnInv'
<1>1. CASE Launch
  <2>1. /\ life' = life + 1 /\ client' = [r \in Ranks |-> NewClient] /\ life \in Nat
        /\ UNCHANGED <<svc, backlog>>
    BY <1>1 DEF Launch, TypeInv, RunTypes
  <2>2. ASSUME NEW s \in Services
        PROVE  /\ ServingAt(s)' /\ OneRequestAt(s)'
               /\ \A r \in Ranks : ~ Connected(r, s)'
    <3>1. Requests(s)' = Requests(s) /\ \A q \in Requests(s) : q.life <= life
      BY <2>1 DEF Requests, ConnInv, Serving, ServingAt
    <3>2. \A q \in Requests(s) : q.life \in Nat
      <4>1. \A i \in DOMAIN backlog[s] : backlog[s][i] \in RequestType
        BY DEF TypeInv, ServiceTypes
      <4>2. svc[s].conn \in RequestType \cup {NoRequest}
        BY DEF TypeInv, ServiceTypes, ServiceType
      <4> QED
        BY <4>1, <4>2, Records DEF Requests, RequestType
    <3>3. \A q \in Requests(s) : q.life <= life' /\ q.life # life'
      BY <2>1, <3>1, <3>2
    <3>4. \A i \in DOMAIN backlog[s] : backlog[s][i].life # life'
      BY <3>3 DEF Requests
    <3> QED
      BY <2>1, <3>1, <3>3, <3>4 DEF ServingAt, OneRequestAt, Connected, ConnInv, Serving
  <2>3. \A r \in Ranks : client'[r].waiting = {}
    BY <2>1 DEF NewClient
  <2> QED
    BY <2>2, <2>3 DEF ConnInv, Serving, OneRequest, WaitsInCall, WaitsForAnswer
<1>2. CASE Kill
  <2>1. Serving' /\ OneRequest'
    BY <1>2, QuietService DEF Kill, ConnInv, Serving, OneRequest
  <2> QED
    BY <1>2, <2>1, KilledKeepsConn DEF Kill
<1>3. CASE UNCHANGED vars
  BY <1>3, QuietKeepsConn DEF vars
<1>4. ASSUME NEW s \in Services, ServiceStep(s)
      PROVE  ConnInv'
  <2>1. CASE Accept(s)
    <3>1. life' = life
      BY <2>1 DEF Accept
    <3> QED
      BY <2>1, <3>1, AcceptKeepsConn, CloseKeepsConn DEF Accept
  <2>2. CASE ReplySnapshot(s) \/ ReplyBatch(s)
    BY <2>2, ReplyKeepsConn DEF ReplySnapshot, ReplyBatch
  <2>3. CASE Exit(s)
    BY <2>3, CloseKeepsConn DEF Exit
  <2> QED
    BY <1>4, <2>1, <2>2, <2>3, QuietStep DEF ServiceStep
<1> QED
  BY <1>1, <1>2, <1>3, <1>4, ClientStepConn, QuietStep DEF Next

LEMMA InitConn == Init => TypeInv /\ ConnInv
<1> SUFFICES ASSUME Init PROVE TypeInv /\ ConnInv
  OBVIOUS
<1>1. RunTypes
  <2>1. client = [r \in Ranks |-> NewClient] /\ life = 0 /\ running = FALSE
    BY DEF Init
  <2>2. NewClient.index <= NewClient.batch * BatchSize
    BY ServiceAssumption DEF NewClient
  <2> QED
    BY <2>1, <2>2, Records DEF RunTypes
<1>2. ServiceTypes
  BY Records DEF Init, ServiceTypes
<1>3. PoolTypes
  BY Records DEF Init, PoolTypes, WorkerType, Gone, Contents
<1>4. \A s \in Services : Requests(s) = {NoRequest} /\ backlog[s] = <<>>
  BY DEF Init, Requests, Idle
<1>5. Serving /\ OneRequest
  BY <1>4, Records DEF Init, Idle, Serving, ServingAt, OneRequest, OneRequestAt
<1> QED
  BY <1>1, <1>2, <1>3, <1>5
  DEF Init, TypeInv, ConnInv, WaitsInCall, WaitsForAnswer, NewClient

LEMMA ConnInvariant == Spec => [](TypeInv /\ ConnInv)
<1>1. TypeInv /\ ConnInv /\ [Next]_vars => (TypeInv /\ ConnInv)'
  BY NextTypes, NextKeepsConn DEF ConnInv
<1> QED
  BY InitConn, <1>1, PTL DEF Spec

\* A rank of a running job waits exactly for the services that hold its
\* connection: no reply of Reply is lost or read twice while both ends live.
THEOREM NoReplyLost == Spec => []WaitsForAnswer
<1>1. ConnInv => WaitsForAnswer
  BY DEF ConnInv
<1> QED
  BY ConnInvariant, <1>1, PTL
------------------------------------------------------------------------------
(* A request holds the batch of its rank.                                  *)

\* Requests come from ranks.
LEMMA RequestsTyped ==
    ASSUME ServiceTypes, NEW s \in Services
    PROVE  /\ \A i \in DOMAIN backlog[s] : backlog[s][i] \in RequestType
           /\ svc[s].conn \in RequestType \cup {NoRequest}
           /\ \A q \in Requests(s) : q.rank \in Ranks /\ q.life \in Nat
                                     /\ q.tasks \subseteq TaskType
<1>1. \A i \in DOMAIN backlog[s] : backlog[s][i] \in RequestType
  BY DEF ServiceTypes
<1>2. svc[s].conn \in RequestType \cup {NoRequest}
  BY DEF ServiceTypes, ServiceType
<1>3. NoRequest.rank \in Ranks
  BY ServiceAssumption DEF NoRequest, Ranks
<1> QED
  BY <1>1, <1>2, <1>3, Records DEF Requests, RequestType

\* A rank that waits for nothing has no request of this life.
LEMMA NoneOf ==
    ASSUME ServiceTypes, ConnInv, running, NEW r \in Ranks, client[r].waiting = {},
           NEW s \in Services, NEW q \in Requests(s), q.life = life
    PROVE  q.rank # r
BY DEF ConnInv, WaitsForAnswer, Connected

\* What a service holds does not move, and no client of it either.
LEMMA SameCurrent ==
    ASSUME NEW s \in Services, CurrentAt(s), backlog'[s] = backlog[s],
           svc'[s].conn = svc[s].conn, svc'[s].expected = svc[s].expected, life' = life,
           \A q \in Requests(s) : q.life = life =>
               /\ client'[q.rank].pc = client[q.rank].pc
               /\ client'[q.rank].tasks = client[q.rank].tasks
    PROVE  CurrentAt(s)'
<1>1. Requests(s)' = Requests(s)
  BY DEF Requests
<1>2. svc[s].conn \in Requests(s) /\ \A i \in DOMAIN backlog[s] : backlog[s][i] \in Requests(s)
  BY DEF Requests
<1> QED
  BY <1>1, <1>2 DEF CurrentAt, TasksFor

LEMMA SameRequests ==
    ASSUME NEW s \in Services, RequestAt(s), backlog'[s] = backlog[s], svc'[s] = svc[s]
    PROVE  RequestAt(s)'
BY DEF RequestAt, Requests

LEMMA KilledKeepsBatch ==
    ASSUME Killed, \A s \in Services : RequestAt(s)'
    PROVE  BatchInv'
BY DEF Killed, BatchInv

LEMMA CloseKeepsBatch ==
    ASSUME TypeInv, ConnInv, BatchInv, NEW s \in Services, Close(s), life' = life
    PROVE  BatchInv'
<1>1. /\ svc'[s].pc = "closed" /\ svc'[s].conn = NoRequest /\ backlog'[s] = <<>>
      /\ svc'[s].expected = {} /\ svc'[s].completed = {}
      /\ \A u \in Services \ {s} : svc'[u] = svc[u] /\ backlog'[u] = backlog[u]
  BY DEF Close, Idle, TypeInv, ServiceTypes
<1>2. Requests(s)' = {NoRequest}
  BY <1>1 DEF Requests
<1>3. RequestAt(s)'
  BY <1>1, <1>2, Records DEF RequestAt, Batch, KeysOf
<1>4. \A u \in Services : RequestAt(u)'
  BY <1>1, <1>3, SameRequests DEF BatchInv
<1>5. CASE Killed
  BY <1>4, <1>5, KilledKeepsBatch
<1>6. CASE ~ Killed
  <2>1. UNCHANGED <<running, client>>
    BY <1>6 DEF Close
  <2>2. ASSUME running
        PROVE  \A u \in Services : CurrentAt(u)'
    <3>1. CurrentAt(s)'
      BY <1>1, <1>2, <2>2, Records DEF CurrentAt, TypeInv, RunTypes
    <3>2. \A u \in Services \ {s} : CurrentAt(u)'
      BY <1>1, <2>1, <2>2, SameCurrent DEF BatchInv
    <3> QED
      BY <3>1, <3>2
  <2>3. ASSUME running
        PROVE  \A r \in Ranks : ClientAt(r)'
    BY <2>1, <2>3 DEF BatchInv, ClientAt
  <2> QED
    BY <1>4, <2>1, <2>2, <2>3 DEF BatchInv
<1> QED
  BY <1>5, <1>6

LEMMA ConnectKeepsBatch ==
    ASSUME TypeInv, ConnInv, BatchInv, NEW r \in Ranks, NEW D \in SUBSET Services,
           NEW requests \in [D -> RequestType],
           NEW op \in {"snapshot", "run_batch"}, NEW tasks \in SUBSET TaskType,
           \A s \in D : /\ requests[s].life = life /\ requests[s].rank = r
                        /\ requests[s].op = op
                        /\ requests[s].tasks = TasksFor(r, s, tasks),
           running, client[r].waiting = {}, Connect(r, requests),
           NEW c, c.waiting = D, c.pc = IF op = "run_batch" THEN "batch" ELSE "snapshot",
           c.tasks = tasks, c.verdicts = {}, op = "snapshot" => tasks = {},
           Batch(tasks),
           \A t \in tasks : /\ t.key[1] = c.batch /\ t.content[1] = life /\ t.content[2] = r
                            /\ ServiceOf(r, t.key[2]) \in D,
           running' => SetClient(r, c), UNCHANGED <<life, svc>>
    PROVE  BatchInv'
<1>1. CASE Killed /\ UNCHANGED backlog
  <2>1. \A s \in Services : RequestAt(s)'
    BY <1>1, SameRequests DEF BatchInv
  <2> QED
    BY <1>1, <2>1, KilledKeepsBatch
<1>2. CASE ~ (Killed /\ UNCHANGED backlog)
  <2>1. /\ \A s \in Services : backlog'[s] =
             IF s \in D THEN Append(backlog[s], requests[s]) ELSE backlog[s]
        /\ running' = running /\ SetClient(r, c)
    BY <1>2 DEF Connect
  <2>2. client'[r] = c /\ \A u \in Ranks \ {r} : client'[u] = client[u]
    BY <2>1 DEF SetClient, TypeInv, RunTypes
  <2>3. \A s \in Services : \A q \in Requests(s) : q.life = life =>
          q.rank \in Ranks \ {r} /\ client'[q.rank] = client[q.rank]
    BY <2>2, NoneOf, RequestsTyped DEF TypeInv
  <2>4. ClientAt(r)'
    BY <2>2 DEF ClientAt, KeysOf
  <2>5. \A u \in Ranks \ {r} : ClientAt(u)'
    BY <2>2 DEF ClientAt, BatchInv
  <2>6. ASSUME NEW s \in Services \ D
        PROVE  RequestAt(s)' /\ CurrentAt(s)'
    BY <2>1, <2>3, <2>6, SameRequests, SameCurrent DEF BatchInv
  <2>7. ASSUME NEW s \in D
        PROVE  RequestAt(s)' /\ CurrentAt(s)'
    <3> DEFINE q == requests[s]
    <3>1. /\ q \in RequestType /\ q.life = life /\ q.rank = r /\ q.op = op
          /\ q.tasks = TasksFor(r, s, tasks)
      OBVIOUS
    <3>2. backlog'[s] = Append(backlog[s], q) /\ svc'[s] = svc[s]
      BY <2>1
    <3> HIDE DEF q
    <3>3. PICK n \in Nat :
            /\ DOMAIN backlog[s] = 1 .. n /\ DOMAIN backlog'[s] = 1 .. n + 1
            /\ backlog'[s][n + 1] = q
            /\ \A i \in 1 .. n : backlog'[s][i] = backlog[s][i]
      BY <3>1, <3>2, Appended DEF TypeInv
    <3>4. Requests(s)' = Requests(s) \cup {q}
      BY <3>1, <3>2, Appended DEF TypeInv
    <3>5. Batch(q.tasks) /\ \A t \in q.tasks : Of(q, t.content)
      BY <3>1 DEF Batch, Of, TasksFor
    <3>6. RequestAt(s)'
      BY <3>2, <3>4, <3>5 DEF RequestAt, BatchInv
    <3>7. \A i \in 1 .. n + 1 : i \in 1 .. n \/ i = n + 1
      OBVIOUS
    <3>8. svc[s].conn \in Requests(s) /\ \A i \in 1 .. n : backlog[s][i] \in Requests(s)
      BY <3>3 DEF Requests
    <3>9. CurrentAt(s)
      BY DEF BatchInv
    <3>10. \A x \in Requests(s)' : x.life = life =>
             client'[x.rank].pc = IF x.op = "run_batch" THEN "batch" ELSE "snapshot"
      BY <2>2, <2>3, <3>1, <3>4, <3>9 DEF CurrentAt
    <3>11. ASSUME NEW i \in 1 .. n + 1, backlog'[s][i].life = life
           PROVE  backlog'[s][i].tasks =
                    TasksFor(backlog'[s][i].rank, s, client'[backlog'[s][i].rank].tasks)
      BY <2>2, <2>3, <3>1, <3>3, <3>7, <3>8, <3>9, <3>11 DEF CurrentAt
    <3>12. svc[s].conn.life = life =>
             KeysOf(svc[s].conn.tasks) \cup svc[s].expected =
               KeysOf(TasksFor(svc[s].conn.rank, s, client'[svc[s].conn.rank].tasks))
      BY <2>3, <3>8, <3>9 DEF CurrentAt
    <3>13. CurrentAt(s)'
      BY <3>2, <3>3, <3>10, <3>11, <3>12 DEF CurrentAt, TasksFor
    <3> QED
      BY <3>6, <3>13
  <2> QED
    BY <2>4, <2>5, <2>6, <2>7 DEF BatchInv
<1> QED
  BY <1>1, <1>2

\* A rank that waits for nothing ends its call.
LEMMA CallEndKeepsBatch ==
    ASSUME TypeInv, ConnInv, BatchInv, NEW r \in Ranks, NEW c, running,
           client[r].waiting = {}, SetClient(r, c), c.tasks = {}, c.verdicts = {},
           UNCHANGED <<life, running, svc, backlog>>
    PROVE  BatchInv'
<1>1. client'[r] = c /\ \A u \in Ranks \ {r} : client'[u] = client[u]
  BY DEF SetClient, TypeInv, RunTypes
<1>2. \A s \in Services : \A q \in Requests(s) : q.life = life => client'[q.rank] = client[q.rank]
  BY <1>1, NoneOf, RequestsTyped DEF TypeInv
<1>3. \A s \in Services : RequestAt(s)' /\ CurrentAt(s)'
  BY <1>2, SameRequests, SameCurrent DEF BatchInv
<1>4. ClientAt(r)'
  BY <1>1 DEF ClientAt, Batch, KeysOf
<1>5. \A u \in Ranks \ {r} : ClientAt(u)'
  BY <1>1 DEF ClientAt, BatchInv
<1> QED
  BY <1>3, <1>4, <1>5 DEF BatchInv
LEMMA ClientStepBatch ==
    ASSUME TypeInv, ConnInv, BatchInv, NEW r \in Ranks, ClientStep(r)
    PROVE  BatchInv'
<1>1. client[r] \in ClientType /\ running
  BY DEF TypeInv, RunTypes, ClientStep, Snapshot, RunBatch, Started, Score
<1>2. ClientAt(r)
  BY <1>1 DEF BatchInv
<1>3. CASE Snapshot(r)
  <2> DEFINE requests == [s \in OwnServices(r) |-> Request(r, "snapshot", {})]
             c == [client[r] EXCEPT !.pc = "snapshot", !.waiting = OwnServices(r)]
  <2>1. /\ c.waiting = OwnServices(r) /\ c.pc = "snapshot" /\ c.tasks = client[r].tasks
        /\ c.verdicts = client[r].verdicts
    BY <1>1 DEF ClientType
  <2>2. running /\ life \in Nat /\ life > 0 /\ client[r].waiting = {} /\ client[r].pc = "new"
    BY <1>3 DEF Snapshot, TypeInv, RunTypes, ConnInv, WaitsInCall
  <2>3. /\ requests \in [OwnServices(r) -> RequestType]
        /\ \A s \in OwnServices(r) : /\ requests[s].life = life /\ requests[s].rank = r
                                     /\ requests[s].op = "snapshot"
                                     /\ requests[s].tasks = TasksFor(r, s, {})
    BY <2>2 DEF Request, RequestType, TasksFor
  <2>4. Connect(r, requests) /\ (running' => SetClient(r, c)) /\ UNCHANGED <<life, svc>>
    BY <1>3 DEF Snapshot
  <2>5. c.tasks = {} /\ c.verdicts = {}
    BY <1>2, <2>1, <2>2 DEF ClientAt
  <2>6. Batch({})
    BY DEF Batch
  <2> HIDE DEF requests, c
  <2>7. OwnServices(r) \in SUBSET Services
    BY Targets
  <2> QED
    BY <1>1, <2>1, <2>2, <2>3, <2>4, <2>5, <2>6, <2>7, ConnectKeepsBatch
<1>4. CASE RunBatch(r)
  <2>1. PICK good \in SUBSET Positions :
          LET tasks == Tasks(r, good)
              targets == {ServiceOf(r, t.key[2]) : t \in tasks}
          IN  /\ Connect(r, [s \in targets |->
                               Request(r, "run_batch", TasksFor(r, s, tasks))])
              /\ running' => SetClient(r,
                    [client[r] EXCEPT !.pc = "batch", !.batch = @ + 1,
                        !.index = @ + Cardinality(good), !.tasks = tasks,
                        !.waiting = targets, !.verdicts = {}])
    BY <1>4 DEF RunBatch
  <2> DEFINE tasks == Tasks(r, good)
             targets == {ServiceOf(r, t.key[2]) : t \in tasks}
             requests == [s \in targets |-> Request(r, "run_batch", TasksFor(r, s, tasks))]
             c == [client[r] EXCEPT !.pc = "batch", !.batch = @ + 1,
                       !.index = @ + Cardinality(good), !.tasks = tasks,
                       !.waiting = targets, !.verdicts = {}]
  <2>2. /\ life \in Nat /\ life > 0 /\ client[r].waiting = {}
        /\ client[r].batch < MaxBatch /\ UNCHANGED <<life, svc>>
    BY <1>4 DEF RunBatch, TypeInv, RunTypes, ConnInv, WaitsInCall
  <2>3. /\ tasks \in SUBSET TaskType /\ Batch(tasks)
        /\ \A t \in tasks : /\ t.key[2] \in Nat /\ t.key[1] = client[r].batch + 1
                            /\ t.content[1] = life /\ t.content[2] = r
    BY <2>2, NewTasks DEF TypeInv
  <2> HIDE DEF tasks
  <2>4. targets \in SUBSET Services /\ \A t \in tasks : ServiceOf(r, t.key[2]) \in targets
    BY <2>3, Targets
  <2>5. /\ requests \in [targets -> RequestType]
        /\ \A s \in targets : /\ requests[s].life = life /\ requests[s].rank = r
                              /\ requests[s].op = "run_batch"
                              /\ requests[s].tasks = TasksFor(r, s, tasks)
    BY <2>2, <2>3 DEF Request, RequestType, TasksFor
  <2>6. /\ c.waiting = targets /\ c.pc = "batch" /\ c.tasks = tasks /\ c.verdicts = {}
        /\ c.batch = client[r].batch + 1
    BY <1>1 DEF ClientType
  <2>7. Connect(r, requests) /\ (running' => SetClient(r, c))
    BY <2>1 DEF tasks
  <2> HIDE DEF targets, requests, c
  <2> QED
    BY <1>1, <2>2, <2>3, <2>4, <2>5, <2>6, <2>7, ConnectKeepsBatch
<1>5. CASE Started(r)
  <2> DEFINE c == [client[r] EXCEPT !.pc = "started"]
  <2>1. /\ c.tasks = client[r].tasks /\ c.verdicts = client[r].verdicts
        /\ client[r].waiting = {} /\ client[r].pc # "batch"
    BY <1>1, <1>5 DEF Started, ClientType
  <2>2. SetClient(r, c) /\ UNCHANGED <<life, running, svc, backlog>>
    BY <1>5 DEF Started
  <2>3. c.tasks = {} /\ c.verdicts = {}
    BY <1>2, <2>1 DEF ClientAt
  <2> HIDE DEF c
  <2> QED
    BY <1>1, <2>1, <2>2, <2>3, CallEndKeepsBatch
<1>6. CASE Score(r)
  <2> DEFINE c == [client[r] EXCEPT !.pc = "started", !.tasks = {}, !.verdicts = {}]
  <2>1. c.tasks = {} /\ c.verdicts = {} /\ client[r].waiting = {}
    BY <1>1, <1>6 DEF Score, ClientType
  <2>2. SetClient(r, c) /\ UNCHANGED <<life, running, svc, backlog>>
    BY <1>6 DEF Score
  <2> HIDE DEF c
  <2> QED
    BY <1>1, <2>1, <2>2, CallEndKeepsBatch
<1> QED
  BY <1>3, <1>4, <1>5, <1>6 DEF ClientStep

LEMMA AcceptKeepsBatch ==
    ASSUME TypeInv, ConnInv, BatchInv, NEW s \in Services, Accept(s),
           Current(Head(backlog[s]))
    PROVE  BatchInv'
<1> DEFINE q == svc'[s].conn
<1>1. /\ UNCHANGED <<life, running, client>> /\ running /\ svc[s].pc = "listening"
      /\ q \in RequestType
      /\ svc'[s].expected = svc[s].expected /\ svc'[s].completed = svc[s].completed
      /\ \A u \in Services \ {s} : svc'[u] = svc[u] /\ backlog'[u] = backlog[u]
      /\ Requests(s)' \cup {NoRequest} = Requests(s)
  BY AcceptFacts
<1>2. PICK n \in Nat :
        /\ DOMAIN backlog[s] = 1 .. n + 1 /\ DOMAIN backlog'[s] = 1 .. n
        /\ q = backlog[s][1]
        /\ \A i \in 1 .. n : backlog'[s][i] = backlog[s][i + 1]
  BY AcceptFacts
<1>3. 1 \in 1 .. n + 1 /\ \A i \in 1 .. n : i + 1 \in 1 .. n + 1
  OBVIOUS
<1>4. svc[s] \in ServiceType
  BY DEF TypeInv, ServiceTypes
<1>5. svc'[s].expected = {} /\ svc'[s].completed = {}
  BY <1>1, <1>4 DEF BatchInv, RequestAt, ServiceType
<1>6. RequestAt(s) /\ CurrentAt(s)
  BY <1>1 DEF BatchInv
<1>7. RequestAt(s)'
  <2>1. \A x \in Requests(s)' : Batch(x.tasks) /\ \A t \in x.tasks : Of(x, t.content)
    BY <1>1, <1>6 DEF RequestAt
  <2> QED
    BY <1>5, <2>1 DEF RequestAt, KeysOf
<1>8. CurrentAt(s)'
  <2>1. \A x \in Requests(s)' : x.life = life =>
          client[x.rank].pc = IF x.op = "run_batch" THEN "batch" ELSE "snapshot"
    BY <1>1, <1>6 DEF CurrentAt
  <2>2. \A i \in 1 .. n + 1 : backlog[s][i].life = life => backlog[s][i].tasks =
          TasksFor(backlog[s][i].rank, s, client[backlog[s][i].rank].tasks)
    BY <1>2, <1>6 DEF CurrentAt
  <2>3. \A i \in 1 .. n : backlog'[s][i].life = life => backlog'[s][i].tasks =
          TasksFor(backlog'[s][i].rank, s, client[backlog'[s][i].rank].tasks)
    BY <1>2, <1>3, <2>2
  <2>4. q.life = life => KeysOf(q.tasks) \cup svc'[s].expected =
          KeysOf(TasksFor(q.rank, s, client[q.rank].tasks))
    BY <1>2, <1>3, <1>5, <2>2
  <2> QED
    BY <1>1, <1>2, <2>1, <2>3, <2>4 DEF CurrentAt, TasksFor
<1>9. \A u \in Services \ {s} : RequestAt(u)' /\ CurrentAt(u)'
  BY <1>1, SameRequests, SameCurrent DEF BatchInv
<1>10. \A r \in Ranks : ClientAt(r)'
  BY <1>1 DEF ClientAt, BatchInv
<1> QED
  BY <1>7, <1>8, <1>9, <1>10 DEF BatchInv

\* The reply brings a verdict for every task its service was given.
LEMMA ReplyKeepsBatch ==
    ASSUME TypeInv, ConnInv, BatchInv, NEW s \in Services,
           NEW verdicts \in SUBSET TaskType, Reply(s, verdicts),
           svc[s].pc \in {"snapshot", "run_batch"}, UNCHANGED <<life, backlog>>,
           svc[s].pc = "snapshot" => verdicts = {},
           svc[s].pc = "run_batch" /\ ~ pool[s].fatal =>
               svc[s].conn.tasks = {} /\ KeysOf(verdicts) = svc[s].expected
    PROVE  BatchInv'
<1> DEFINE q == svc[s].conn
<1>1. /\ svc'[s].pc = "listening" /\ svc'[s].conn = NoRequest
      /\ svc'[s].expected = {} /\ svc'[s].completed = {}
      /\ \A u \in Services \ {s} : svc'[u] = svc[u]
  BY DEF Reply, Idle, TypeInv, ServiceTypes
<1>2. q \in RequestType /\ q.rank \in Ranks /\ q.op = svc[s].pc /\ q \in Requests(s)
  BY Records DEF TypeInv, ServiceTypes, ServiceType, ConnInv, Serving, ServingAt,
                 RequestType, Requests
<1>3. \A x \in Requests(s)' : x = NoRequest \/ x \in Requests(s)
  BY <1>1 DEF Requests
<1>4. RequestAt(s)'
  <2>1. Batch(NoRequest.tasks) /\ KeysOf(NoRequest.tasks) = {}
    BY Records DEF Batch, KeysOf
  <2>2. \A x \in Requests(s)' : Batch(x.tasks) /\ \A t \in x.tasks : Of(x, t.content)
    BY <1>3, <2>1, Records DEF RequestAt, BatchInv
  <2> QED
    BY <1>1, <2>1, <2>2 DEF RequestAt, KeysOf
<1>5. \A u \in Services : RequestAt(u)'
  BY <1>1, <1>4, SameRequests DEF BatchInv
<1>6. CASE Killed
  BY <1>5, <1>6, KilledKeepsBatch
<1>7. CASE ~ Killed /\ ~ running
  <2>1. UNCHANGED <<running, client>>
    BY <1>7 DEF Reply, Current
  <2> QED
    BY <1>5, <1>7, <2>1 DEF BatchInv
<1>8. CASE ~ Killed /\ running
  <2>1. running' = running /\ life > 0
    BY <1>8 DEF Reply, TypeInv, RunTypes
  <2>2. ASSUME NEW u \in Services,
               \A r \in Ranks : client'[r].pc = client[r].pc /\ client'[r].tasks = client[r].tasks
        PROVE  CurrentAt(u)'
    <3>1. \A x \in Requests(u) : client'[x.rank].pc = client[x.rank].pc
                                 /\ client'[x.rank].tasks = client[x.rank].tasks
      BY <2>2, RequestsTyped DEF TypeInv
    <3>2. CASE u # s
      BY <1>1, <1>8, <3>1, <3>2, SameCurrent DEF BatchInv
    <3>3. CASE u = s
      <4>1. CurrentAt(s)
        BY <1>8 DEF BatchInv
      <4>2. NoRequest.life # life
        BY <2>1, Records
      <4>3. \A x \in Requests(s)' : x.life = life =>
              client'[x.rank].pc = IF x.op = "run_batch" THEN "batch" ELSE "snapshot"
        BY <1>3, <3>1, <3>3, <4>1, <4>2 DEF CurrentAt
      <4>4. \A i \in DOMAIN backlog[s] : backlog[s][i] \in Requests(s)
        BY DEF Requests
      <4> QED
        BY <1>1, <3>1, <3>3, <4>1, <4>2, <4>3, <4>4 DEF CurrentAt, TasksFor
    <3> QED
      BY <3>2, <3>3
  <2>3. CASE q.life # life
    <3>1. UNCHANGED <<running, client>>
      BY <1>8, <2>3 DEF Reply, Current
    <3>2. \A r \in Ranks : ClientAt(r)'
      BY <1>8, <3>1 DEF ClientAt, BatchInv
    <3>3. \A u \in Services : CurrentAt(u)'
      BY <2>2, <3>1
    <3> QED
      BY <1>5, <3>2, <3>3 DEF BatchInv
  <2>4. CASE q.life = life
    <3>1. /\ client' = [client EXCEPT ![q.rank] = [client[q.rank] EXCEPT
                          !.waiting = @ \ {s}, !.verdicts = @ \cup verdicts]]
          /\ ~ pool[s].fatal
      BY <1>8, <2>4 DEF Reply, Current, SetClient
    <3>2. /\ client'[q.rank].waiting = client[q.rank].waiting \ {s}
          /\ client'[q.rank].verdicts = client[q.rank].verdicts \cup verdicts
          /\ client'[q.rank].pc = client[q.rank].pc
          /\ client'[q.rank].tasks = client[q.rank].tasks
          /\ client'[q.rank].batch = client[q.rank].batch
          /\ \A r \in Ranks \ {q.rank} : client'[r] = client[r]
      BY <1>2, <3>1 DEF TypeInv, RunTypes, ClientType
    <3>3. \A u \in Services : CurrentAt(u)'
      BY <2>2, <3>2
    <3>4. \A r \in Ranks \ {q.rank} : ClientAt(r)'
      BY <1>8, <3>2 DEF ClientAt, BatchInv
    <3>5. ClientAt(q.rank) /\ CurrentAt(s)
      BY <1>2, <1>8 DEF BatchInv
    <3> DEFINE given == TasksFor(q.rank, s, client[q.rank].tasks)
    <3>6. /\ svc[s].pc = "snapshot" => client[q.rank].pc = "snapshot"
          /\ svc[s].pc = "run_batch" => client[q.rank].pc = "batch" /\ KeysOf(verdicts) = KeysOf(given)
      <4>1. KeysOf(q.tasks) \cup svc[s].expected = KeysOf(given)
        BY <2>4, <3>5 DEF CurrentAt
      <4>2. svc[s].pc = "run_batch" => KeysOf(q.tasks) = {}
        BY <3>1 DEF KeysOf
      <4> QED
        BY <1>2, <2>4, <3>1, <3>5, <4>1, <4>2 DEF CurrentAt
    <3>7. /\ client[q.rank].pc # "batch" => verdicts = {}
          /\ KeysOf(verdicts) \subseteq KeysOf(client[q.rank].tasks)
      BY <3>6 DEF KeysOf, TasksFor
    <3>8. ASSUME NEW t \in client[q.rank].tasks
          PROVE  \/ ServiceOf(q.rank, t.key[2]) \in client'[q.rank].waiting
                 \/ \E v \in client'[q.rank].verdicts : v.key = t.key
      <4>1. CASE ServiceOf(q.rank, t.key[2]) = s
        <5>1. t \in given
          BY <4>1 DEF TasksFor
        <5>2. svc[s].pc = "run_batch"
          BY <3>5, <3>6 DEF ClientAt
        <5>3. t.key \in KeysOf(verdicts)
          BY <3>6, <5>1, <5>2 DEF KeysOf
        <5> QED
          BY <3>2, <5>3 DEF KeysOf
      <4>2. CASE ServiceOf(q.rank, t.key[2]) # s
        BY <3>2, <3>5, <4>2 DEF ClientAt
      <4> QED
        BY <4>1, <4>2
    <3>9. KeysOf(client'[q.rank].verdicts) \subseteq KeysOf(client[q.rank].tasks)
      BY <3>2, <3>5, <3>7 DEF ClientAt, KeysOf
    <3>10. ASSUME NEW r \in {q.rank}
           PROVE  ClientAt(r)'
      BY <3>2, <3>5, <3>7, <3>8, <3>9 DEF ClientAt
    <3> QED
      BY <1>5, <3>3, <3>4, <3>10 DEF BatchInv
  <2> QED
    BY <2>3, <2>4
<1> QED
  BY <1>6, <1>7, <1>8
\* A step of one service that the ranks do not see
LEMMA ServiceKeepsBatch ==
    ASSUME TypeInv, BatchInv, NEW s \in Services, RequestAt(s)',
           running => CurrentAt(s)',
           \A u \in Services \ {s} : svc'[u] = svc[u],
           UNCHANGED <<life, running, client, backlog>>
    PROVE  BatchInv'
<1>1. \A u \in Services : RequestAt(u)' /\ (running => CurrentAt(u)')
  BY SameRequests, SameCurrent DEF BatchInv
<1>2. running => \A r \in Ranks : ClientAt(r)'
  BY DEF ClientAt, BatchInv
<1> QED
  BY <1>1, <1>2 DEF BatchInv

\* A service changes what its requests do not depend on.
LEMMA QuietKeepsBatch ==
    ASSUME TypeInv, BatchInv, NEW s \in Services,
           svc'[s].conn = svc[s].conn, svc'[s].expected = svc[s].expected,
           svc'[s].completed = svc[s].completed,
           \/ svc'[s].pc = svc[s].pc
           \/ svc'[s].expected = {} /\ svc'[s].completed = {},
           \A u \in Services \ {s} : svc'[u] = svc[u],
           UNCHANGED <<life, running, client, backlog>>
    PROVE  BatchInv'
<1>1. RequestAt(s)'
  BY DEF BatchInv, RequestAt, Requests
<1>2. running => CurrentAt(s)'
  BY SameCurrent DEF BatchInv
<1> QED
  BY <1>1, <1>2, ServiceKeepsBatch

LEMMA SubmitKeepsBatch ==
    ASSUME TypeInv, ConnInv, BatchInv, NEW s \in Services, Submit(s)
    PROVE  BatchInv'
<1>1. PICK t \in svc[s].conn.tasks :
        svc' = [svc EXCEPT ![s].conn.tasks = @ \ {t}, ![s].expected = @ \cup {t.key}]
  BY DEF Submit
<1>2. svc[s].pc = "run_batch" /\ UNCHANGED <<life, running, client, backlog>>
  BY DEF Submit, clientVars
<1> DEFINE q == svc[s].conn
           v == [svc[s] EXCEPT !.conn.tasks = @ \ {t}, !.expected = @ \cup {t.key}]
<1>3. svc[s] \in ServiceType /\ q \in RequestType
  BY <1>2, Records DEF TypeInv, ServiceTypes, ServiceType, ConnInv, Serving, ServingAt
<1>4. /\ v.pc = svc[s].pc /\ v.conn = [q EXCEPT !.tasks = @ \ {t}]
      /\ v.expected = svc[s].expected \cup {t.key} /\ v.completed = svc[s].completed
  BY <1>3 DEF ServiceType
<1>5. svc'[s] = v /\ \A u \in Services \ {s} : svc'[u] = svc[u]
  BY <1>1 DEF TypeInv, ServiceTypes
<1> HIDE DEF v
<1>6. /\ svc'[s].conn.life = q.life /\ svc'[s].conn.rank = q.rank
      /\ svc'[s].conn.op = q.op /\ svc'[s].conn.tasks = q.tasks \ {t}
  BY <1>3, <1>4, <1>5 DEF RequestType
<1>7. RequestAt(s) /\ (running => CurrentAt(s)) /\ q \in Requests(s)
  BY DEF BatchInv, Requests
<1>8. Batch(q.tasks) /\ \A u \in q.tasks : Of(q, u.content)
  BY <1>7 DEF RequestAt
<1>9. KeysOf(q.tasks \ {t}) \cup {t.key} = KeysOf(q.tasks) /\ t.key \notin KeysOf(q.tasks \ {t})
  BY <1>1, <1>8 DEF KeysOf, Batch
<1>10. \A x \in Requests(s)' : x = svc'[s].conn \/ x \in Requests(s)
  BY <1>2 DEF Requests
<1>11. RequestAt(s)'
  <2>1. Batch(q.tasks \ {t}) /\ \A u \in q.tasks \ {t} : Of(svc'[s].conn, u.content)
    BY <1>6, <1>8 DEF Batch, Of
  <2>2. \A x \in Requests(s)' : Batch(x.tasks) /\ \A u \in x.tasks : Of(x, u.content)
    BY <1>6, <1>7, <1>10, <2>1 DEF RequestAt
  <2>3. KeysOf(q.tasks \ {t}) \cap v.expected = {}
    BY <1>4, <1>7, <1>9 DEF RequestAt, KeysOf
  <2>4. KeysOf(v.completed) \subseteq v.expected
    BY <1>4, <1>7 DEF RequestAt
  <2> QED
    BY <1>2, <1>4, <1>5, <1>6, <2>2, <2>3, <2>4 DEF RequestAt
<1>12. running => CurrentAt(s)'
  <2>1. KeysOf(q.tasks \ {t}) \cup v.expected = KeysOf(q.tasks) \cup svc[s].expected
    BY <1>4, <1>9
  <2>2. running => \A x \in Requests(s)' : x.life = life =>
          client[x.rank].pc = IF x.op = "run_batch" THEN "batch" ELSE "snapshot"
    BY <1>6, <1>7, <1>10 DEF CurrentAt
  <2> QED
    BY <1>2, <1>5, <1>6, <1>7, <2>1, <2>2 DEF CurrentAt, TasksFor
<1> QED
  BY <1>2, <1>5, <1>11, <1>12, ServiceKeepsBatch

\* A drained result changes what is completed only.
LEMMA DrainedService ==
    ASSUME TypeInv, NEW s \in Services, Drain(s)
    PROVE  /\ UNCHANGED <<clientVars, backlog>>
           /\ \A u \in Services \ {s} : svc'[u] = svc[u]
           /\ svc'[s].pc = svc[s].pc /\ svc'[s].conn = svc[s].conn
           /\ svc'[s].expected = svc[s].expected /\ svc'[s].stopping = svc[s].stopping
           /\ LET m == Head(results[s])
                  accepted == m.type = "result" /\ m.key \in svc[s].expected
                                /\ \A v \in svc[s].completed : v.key # m.key
              IN  svc'[s].completed = svc[s].completed \cup
                    IF accepted THEN {[key |-> m.key, content |-> m.content]} ELSE {}
<1> DEFINE m == Head(results[s])
           accepted == m.type = "result" /\ m.key \in svc[s].expected
                         /\ \A v \in svc[s].completed : v.key # m.key
<1>1. /\ UNCHANGED <<clientVars, backlog>>
      /\ svc' = IF accepted
                  THEN [svc EXCEPT ![s].completed = @ \cup {[key |-> m.key, content |-> m.content]}]
                  ELSE svc
  BY DEF Drain
<1>2. svc[s] \in ServiceType /\ svc \in [Services -> ServiceType]
  BY DEF TypeInv, ServiceTypes
<1> HIDE DEF m
<1>3. CASE accepted
  BY <1>1, <1>2, <1>3 DEF ServiceType, m
<1>4. CASE ~ accepted
  BY <1>1, <1>4 DEF m
<1> QED
  BY <1>3, <1>4

LEMMA DrainKeepsBatch ==
    ASSUME TypeInv, ConnInv, BatchInv, NEW s \in Services, Drain(s)
    PROVE  BatchInv'
<1>1. /\ UNCHANGED <<life, running, client, backlog>>
      /\ \A u \in Services \ {s} : svc'[u] = svc[u]
      /\ svc'[s].pc = svc[s].pc /\ svc'[s].conn = svc[s].conn
      /\ svc'[s].expected = svc[s].expected
  BY DrainedService DEF clientVars
<1>2. KeysOf(svc'[s].completed) \subseteq KeysOf(svc[s].completed) \cup svc[s].expected
  <2> DEFINE m == Head(results[s])
             accepted == m.type = "result" /\ m.key \in svc[s].expected
                           /\ \A v \in svc[s].completed : v.key # m.key
  <2>1. svc'[s].completed = svc[s].completed \cup
          IF accepted THEN {[key |-> m.key, content |-> m.content]} ELSE {}
    BY DrainedService
  <2> HIDE DEF m
  <2>2. ASSUME NEW v \in svc'[s].completed
        PROVE  v \in svc[s].completed \/ v.key \in svc[s].expected
    BY <2>1, <2>2
  <2> QED
    BY <2>2 DEF KeysOf
<1>3. svc[s].pc = "run_batch"
  BY DEF Drain
<1>4. RequestAt(s)'
  <2>1. Requests(s)' = Requests(s)
    BY <1>1 DEF Requests
  <2>2. RequestAt(s)
    BY DEF BatchInv
  <2> QED
    BY <1>1, <1>2, <1>3, <2>1, <2>2 DEF RequestAt
<1>5. running => CurrentAt(s)'
  BY <1>1, SameCurrent DEF BatchInv
<1> QED
  BY <1>1, <1>4, <1>5, ServiceKeepsBatch

LEMMA NextKeepsBatch ==
    ASSUME TypeInv, ConnInv, BatchInv, [Next]_vars
    PROVE  BatchInv'
<1>1. CASE Launch
  <2>1. /\ life' = life + 1 /\ client' = [r \in Ranks |-> NewClient] /\ life \in Nat
        /\ UNCHANGED <<svc, backlog>>
    BY <1>1 DEF Launch, TypeInv, RunTypes
  <2>2. \A s \in Services : RequestAt(s)'
    BY <2>1, SameRequests DEF BatchInv
  <2>3. ASSUME NEW s \in Services
        PROVE  CurrentAt(s)'
    <3>1. Requests(s)' = Requests(s) /\ \A q \in Requests(s) : q.life <= life
      BY <2>1 DEF Requests, ConnInv, Serving, ServingAt
    <3>2. \A q \in Requests(s) : q.life # life'
      BY <2>1, <3>1, RequestsTyped DEF TypeInv
    <3>3. svc[s].conn \in Requests(s) /\ \A i \in DOMAIN backlog[s] : backlog[s][i] \in Requests(s)
      BY DEF Requests
    <3> QED
      BY <2>1, <3>1, <3>2, <3>3 DEF CurrentAt
  <2>4. \A r \in Ranks : ClientAt(r)'
    BY <2>1 DEF ClientAt, NewClient, Batch, KeysOf
  <2> QED
    BY <2>2, <2>3, <2>4 DEF BatchInv
<1>2. CASE Kill
  BY <1>2, SameRequests, KilledKeepsBatch DEF Kill, BatchInv
<1>3. CASE UNCHANGED vars
  <2>1. 0 \in Services
    BY ServiceAssumption DEF Services
  <2> QED
    BY <1>3, <2>1, QuietKeepsBatch DEF vars
<1>4. ASSUME NEW s \in Services, Boot(s)
      PROVE  BatchInv'
  <2>1. svc' = [svc EXCEPT ![s] = Idle("listening")] /\ svc[s].pc = "booting"
        /\ UNCHANGED <<life, running, client, backlog>>
    BY <1>4 DEF Boot, clientVars
  <2>2. svc[s].conn = NoRequest
    BY <2>1, Unserving DEF TypeInv, ConnInv
  <2>3. svc[s].expected = {} /\ svc[s].completed = {}
    BY <2>1 DEF BatchInv, RequestAt
  <2>4. /\ svc'[s] = Idle("listening")
        /\ \A u \in Services \ {s} : svc'[u] = svc[u]
    BY <2>1 DEF TypeInv, ServiceTypes
  <2> QED
    BY <2>1, <2>2, <2>3, <2>4, QuietKeepsBatch DEF Idle
<1>5. ASSUME NEW s \in Services, Stop(s)
      PROVE  BatchInv'
  <2>1. svc \in [Services -> ServiceType] /\ svc[s] \in ServiceType
    BY DEF TypeInv, ServiceTypes
  <2>2. svc' = [svc EXCEPT ![s].stopping = TRUE] /\ UNCHANGED <<life, running, client, backlog>>
    BY <1>5 DEF Stop, clientVars
  <2>3. /\ svc'[s].pc = svc[s].pc /\ svc'[s].conn = svc[s].conn
        /\ svc'[s].expected = svc[s].expected /\ svc'[s].completed = svc[s].completed
        /\ \A u \in Services \ {s} : svc'[u] = svc[u]
    BY <2>1, <2>2 DEF ServiceType
  <2> QED
    BY <2>2, <2>3, QuietKeepsBatch
<1>6. ASSUME NEW s \in Services, Take(s) \/ Check(s) \/ Dies(s) \/ DeadReplaced(s) \/ StaleHeartbeat(s)
      PROVE  BatchInv'
  <2>1. UNCHANGED <<life, running, client, backlog, svc>>
    BY <1>6 DEF Take, Check, Dies, DeadReplaced, StaleHeartbeat, clientVars
  <2> QED
    BY <2>1, QuietKeepsBatch
<1>7. ASSUME NEW s \in Services, ServiceStep(s)
      PROVE  BatchInv'
  <2>1. CASE Accept(s)
    <3>1. life' = life
      BY <2>1 DEF Accept
    <3> QED
      BY <2>1, <3>1, AcceptKeepsBatch, CloseKeepsBatch DEF Accept
  <2>2. CASE ReplySnapshot(s)
    BY <2>2, ReplyKeepsBatch DEF ReplySnapshot
  <2>3. CASE ReplyBatch(s)
    <3>1. svc[s].completed \in SUBSET TaskType
      BY DEF TypeInv, ServiceTypes, ServiceType
    <3>2. ~ pool[s].fatal => KeysOf(svc[s].completed) = svc[s].expected
      BY <2>3 DEF ReplyBatch, BatchComplete, KeysOf
    <3>3. /\ Reply(s, svc[s].completed) /\ svc[s].pc = "run_batch"
          /\ svc[s].conn.tasks = {} /\ UNCHANGED <<life, backlog>>
      BY <2>3 DEF ReplyBatch
    <3> QED
      BY <3>1, <3>2, <3>3, ReplyKeepsBatch
  <2>4. CASE Exit(s)
    BY <2>4, CloseKeepsBatch DEF Exit
  <2>5. CASE Submit(s)
    BY <2>5, SubmitKeepsBatch
  <2> QED
    BY <1>4, <1>7, <2>1, <2>2, <2>3, <2>4, <2>5 DEF ServiceStep
<1>8. ASSUME NEW s \in Services, PoolStep(s)
      PROVE  BatchInv'
  BY <1>6, <1>8, DrainKeepsBatch DEF PoolStep
<1> QED
  BY <1>1, <1>2, <1>3, <1>5, <1>6, <1>7, <1>8, ClientStepBatch DEF Next

LEMMA InitBatch == Init => BatchInv
<1> SUFFICES ASSUME Init PROVE BatchInv
  OBVIOUS
<1>1. \A s \in Services : Requests(s) = {NoRequest}
  BY DEF Init, Requests, Idle
<1>2. \A s \in Services : RequestAt(s)
  BY <1>1, Records DEF Init, RequestAt, Idle, Batch, KeysOf
<1> QED
  BY <1>2 DEF Init, BatchInv
------------------------------------------------------------------------------
(* A name stays with its completion.                                       *)

\* What a step does to the names: a run ends or begins, or a rank goes on with
\* its batch or begins the next one.
Ages ==
    \/ ~ running' /\ life' = life
    \/ life' = life + 1
    \/ /\ running' = running /\ life' = life
       /\ \A r \in Ranks :
            \/ /\ client'[r].batch = client[r].batch
               /\ client'[r].pc = "batch" =>
                    client[r].pc = "batch" /\ client'[r].tasks = client[r].tasks
            \/ client'[r].batch = client[r].batch + 1

LEMMA NamedStays ==
    ASSUME RunTypes, Ages, NEW k, NEW c, Named(k, c)
    PROVE  Named(k, c)'
<1>1. /\ c \in Contents /\ c[3] = k[1] /\ c[1] \in 1 .. life /\ c[2] \in Ranks
      /\ life \in Nat /\ client[c[2]] \in ClientType /\ c[3] \in Nat
  BY DEF Named, RunTypes, Contents
<1>2. CASE ~ running' /\ life' = life
  BY <1>1, <1>2 DEF Named
<1>3. CASE life' = life + 1
  <2>1. c[1] \in 1 .. life' /\ c[1] # life'
    BY <1>1, <1>3
  <2> QED
    BY <1>1, <2>1 DEF Named
<1>4. CASE running' = running /\ life' = life /\ ~ (life' = life + 1) /\ ~ (~ running' /\ life' = life)
  <2>1. \/ /\ client'[c[2]].batch = client[c[2]].batch
           /\ client'[c[2]].pc = "batch" =>
                client[c[2]].pc = "batch" /\ client'[c[2]].tasks = client[c[2]].tasks
        \/ client'[c[2]].batch = client[c[2]].batch + 1
    BY <1>1, <1>4 DEF Ages
  <2>2. CASE client'[c[2]].batch = client[c[2]].batch + 1
    <3>1. c[1] = life => c[3] <= client[c[2]].batch /\ client[c[2]].batch \in Nat
      BY <1>1, <1>4, ServiceAssumption DEF Named, ClientType
    <3>2. \A x, b \in Int : x <= b => x <= b + 1 /\ x # b + 1
      OBVIOUS
    <3>3. c[1] = life => c[3] <= client'[c[2]].batch /\ c[3] # client'[c[2]].batch
      BY <1>1, <2>2, <3>1, <3>2
    <3> QED
      BY <1>1, <1>4, <3>3 DEF Named
  <2>3. CASE client'[c[2]].batch # client[c[2]].batch + 1
    BY <1>1, <1>4, <2>1, <2>3 DEF Named
  <2> QED
    BY <2>2, <2>3
<1> QED
  BY <1>2, <1>3, <1>4 DEF Ages

\* Every step of the system is one of these.
LEMMA StepAges ==
    ASSUME TypeInv, ConnInv, [Next]_vars
    PROVE  Ages
<1>1. CASE Launch
  BY <1>1 DEF Launch, Ages
<1>2. CASE UNCHANGED vars \/ Kill
  BY <1>2 DEF vars, Kill, Killed, Ages
<1>3. ASSUME NEW r \in Ranks, ClientStep(r)
      PROVE  Ages
  <2>1. client \in [Ranks -> ClientType] /\ client[r] \in ClientType /\ life' = life
    BY <1>3 DEF TypeInv, RunTypes, ClientStep, Snapshot, Started, RunBatch, Score
  <2>2. ASSUME NEW c, SetClient(r, c), running' = running,
               \/ c.batch = client[r].batch /\ c.pc # "batch"
               \/ c.batch = client[r].batch + 1
        PROVE  Ages
    BY <2>1, <2>2 DEF SetClient, Ages
  <2>3. CASE Snapshot(r)
    <3> DEFINE c == [client[r] EXCEPT !.pc = "snapshot", !.waiting = OwnServices(r)]
    <3>1. (running' => SetClient(r, c)) /\ (~ running' \/ running' = running)
      BY <2>3 DEF Snapshot, Connect, Killed
    <3>2. c.batch = client[r].batch /\ c.pc # "batch"
      BY <2>1 DEF ClientType
    <3> HIDE DEF c
    <3>3. running
      BY <2>3 DEF Snapshot
    <3> QED
      BY <2>1, <2>2, <3>1, <3>2, <3>3 DEF Ages
  <2>4. CASE Started(r)
    <3> DEFINE c == [client[r] EXCEPT !.pc = "started"]
    <3>1. SetClient(r, c) /\ running' = running
      BY <2>4 DEF Started
    <3>2. c.batch = client[r].batch /\ c.pc # "batch"
      BY <2>1 DEF ClientType
    <3> QED
      BY <2>2, <3>1, <3>2
  <2>5. CASE Score(r)
    <3> DEFINE c == [client[r] EXCEPT !.pc = "started", !.tasks = {}, !.verdicts = {}]
    <3>1. SetClient(r, c) /\ running' = running
      BY <2>5 DEF Score
    <3>2. c.batch = client[r].batch /\ c.pc # "batch"
      BY <2>1 DEF ClientType
    <3> QED
      BY <2>2, <3>1, <3>2
  <2>6. CASE RunBatch(r)
    <3>1. PICK good \in SUBSET Positions :
            LET tasks == Tasks(r, good)
                targets == {ServiceOf(r, t.key[2]) : t \in tasks}
            IN  /\ Connect(r, [s \in targets |->
                                 Request(r, "run_batch", TasksFor(r, s, tasks))])
                /\ running' => SetClient(r,
                      [client[r] EXCEPT !.pc = "batch", !.batch = @ + 1,
                          !.index = @ + Cardinality(good), !.tasks = tasks,
                          !.waiting = targets, !.verdicts = {}])
      BY <2>6 DEF RunBatch
    <3> DEFINE tasks == Tasks(r, good)
               targets == {ServiceOf(r, t.key[2]) : t \in tasks}
               c == [client[r] EXCEPT !.pc = "batch", !.batch = @ + 1,
                         !.index = @ + Cardinality(good), !.tasks = tasks,
                         !.waiting = targets, !.verdicts = {}]
    <3>2. (running' => SetClient(r, c)) /\ (~ running' \/ running' = running)
      BY <3>1 DEF Connect, Killed
    <3>3. c.batch = client[r].batch + 1
      BY <2>1 DEF ClientType
    <3> HIDE DEF c
    <3>4. running
      BY <2>6 DEF RunBatch
    <3> QED
      BY <2>1, <2>2, <3>2, <3>3, <3>4 DEF Ages
  <2> QED
    BY <1>3, <2>3, <2>4, <2>5, <2>6 DEF ClientStep
<1>4. ASSUME NEW s \in Services, ServiceStep(s)
      PROVE  Ages
  <2>1. life' = life
    BY <1>4 DEF ServiceStep, Boot, Accept, ReplySnapshot, Submit, ReplyBatch, Exit, clientVars
  <2>2. CASE Boot(s) \/ Submit(s)
    BY <2>2 DEF Boot, Submit, clientVars, Ages
  <2>3. CASE Accept(s) \/ Exit(s)
    BY <2>1, <2>3 DEF Accept, Exit, Close, Killed, Ages
  <2>4. ASSUME NEW verdicts, Reply(s, verdicts), svc[s].conn \in RequestType
        PROVE  Ages
    <3> DEFINE q == svc[s].conn
    <3>1. CASE UNCHANGED <<running, client>> \/ Killed
      BY <2>1, <3>1 DEF Killed, Ages
    <3>2. CASE SetClient(q.rank, [client[q.rank] EXCEPT
                    !.waiting = @ \ {s}, !.verdicts = @ \cup verdicts]) /\ UNCHANGED running
      <4>1. q.rank \in Ranks /\ client[q.rank] \in ClientType /\ client \in [Ranks -> ClientType]
        BY <2>4 DEF RequestType, TypeInv, RunTypes
      <4>2. \A r \in Ranks : /\ client'[r].batch = client[r].batch
                             /\ client'[r].pc = client[r].pc
                             /\ client'[r].tasks = client[r].tasks
        BY <3>2, <4>1 DEF SetClient, ClientType
      <4> QED
        BY <2>1, <3>2, <4>2 DEF Ages
    <3> QED
      BY <2>4, <3>1, <3>2 DEF Reply
  <2>5. CASE ReplySnapshot(s) \/ ReplyBatch(s)
    <3>1. svc[s].conn \in RequestType
      BY <2>5, Records DEF ReplySnapshot, ReplyBatch, TypeInv, ServiceTypes, ServiceType,
                           ConnInv, Serving, ServingAt
    <3> QED
      BY <2>4, <2>5, <3>1 DEF ReplySnapshot, ReplyBatch
  <2> QED
    BY <1>4, <2>2, <2>3, <2>5 DEF ServiceStep
<1>5. ASSUME NEW s \in Services, PoolStep(s) \/ Stop(s) \/ Dies(s) \/ StaleHeartbeat(s)
      PROVE  Ages
  BY <1>5
  DEF PoolStep, Take, Check, Drain, Stop, Dies, DeadReplaced, StaleHeartbeat, clientVars,
      Ages
<1> QED
  BY <1>1, <1>2, <1>3, <1>4, <1>5 DEF Next

LEMMA NamedFrames ==
    ASSUME RunTypes, Ages, NEW s \in Services, NamedAt(s)
    PROVE  /\ (\A q \in Requests(s)' : \A t \in q.tasks : \E x \in Requests(s) : t \in x.tasks)
                => RequestsNamed(s)'
           /\ svc'[s].completed \subseteq svc[s].completed => CompletedNamed(s)'
           /\ spool'[s] = spool[s] => SpoolNamed(s)'
           /\ worker'[s] = worker[s] \/ worker'[s].state # "busy" => WorkerNamed(s)'
           /\ results'[s] = results[s] => ResultsNamed(s)'
<1>1. \A k, c : Named(k, c) => Named(k, c)'
  BY NamedStays
<1>2. (\A q \in Requests(s)' : \A t \in q.tasks : \E x \in Requests(s) : t \in x.tasks)
        => RequestsNamed(s)'
  BY <1>1 DEF NamedAt, RequestsNamed
<1>3. svc'[s].completed \subseteq svc[s].completed => CompletedNamed(s)'
  BY <1>1 DEF NamedAt, CompletedNamed
<1>4. spool'[s] = spool[s] => SpoolNamed(s)'
  BY <1>1 DEF NamedAt, SpoolNamed
<1>5. worker'[s] = worker[s] \/ worker'[s].state # "busy" => WorkerNamed(s)'
  BY <1>1 DEF NamedAt, WorkerNamed
<1>6. results'[s] = results[s] => ResultsNamed(s)'
  BY <1>1 DEF NamedAt, ResultsNamed
<1> QED
  BY <1>2, <1>3, <1>4, <1>5, <1>6

\* A message more
LEMMA AppendNamed ==
    ASSUME PoolTypes, NEW s \in Services, NEW m \in MessageType, RunTypes, Ages, NamedAt(s),
           results' = [results EXCEPT ![s] = Append(@, m)],
           m.type # "fatal" => Named(m.key, m.content)
    PROVE  ResultsNamed(s)'
<1>1. results'[s] = Append(results[s], m) /\ results[s] \in Seq(MessageType)
  BY DEF PoolTypes
<1>2. PICK n \in Nat : n = Len(results[s])
  BY <1>1
<1>3. /\ DOMAIN results'[s] = 1 .. n + 1 /\ DOMAIN results[s] = 1 .. n
      /\ results'[s][n + 1] = m /\ \A i \in 1 .. n : results'[s][i] = results[s][i]
  BY <1>1, <1>2
<1>4. \A i \in 1 .. n + 1 : i \in 1 .. n \/ i = n + 1
  OBVIOUS
<1>5. \A i \in 1 .. n + 1 : results'[s][i].type # "fatal" =>
        Named(results'[s][i].key, results'[s][i].content)
  BY <1>3, <1>4 DEF NamedAt, ResultsNamed
<1>6. \A k, c : Named(k, c) => Named(k, c)'
  BY NamedStays
<1> QED
  BY <1>3, <1>5, <1>6 DEF ResultsNamed

\* A message less
LEMMA TailNamed ==
    ASSUME PoolTypes, NEW s \in Services, RunTypes, Ages, NamedAt(s), results[s] # <<>>,
           results' = [results EXCEPT ![s] = Tail(@)]
    PROVE  /\ ResultsNamed(s)'
           /\ LET m == Head(results[s]) IN
              m \in MessageType /\ (m.type # "fatal" => Named(m.key, m.content))
<1>1. results'[s] = Tail(results[s]) /\ results[s] \in Seq(MessageType)
  BY DEF PoolTypes
<1>2. PICK n \in Nat : Shorter(results[s], results'[s], n)
  BY <1>1, TailIs
<1>3. /\ DOMAIN results'[s] = 1 .. n /\ DOMAIN results[s] = 1 .. n + 1
      /\ \A i \in 1 .. n : results'[s][i] = results[s][i + 1] /\ i + 1 \in 1 .. n + 1
      /\ Head(results[s]) = results[s][1] /\ Head(results[s]) \in MessageType
      /\ 1 \in 1 .. n + 1
  BY <1>1, <1>2, TailIs DEF Shorter
<1>5. /\ \A i \in 1 .. n : results'[s][i].type # "fatal" =>
             Named(results'[s][i].key, results'[s][i].content)
      /\ Head(results[s]).type # "fatal" =>
             Named(Head(results[s]).key, Head(results[s]).content)
  BY <1>3 DEF NamedAt, ResultsNamed
<1>6. \A k, c : Named(k, c) => Named(k, c)'
  BY NamedStays
<1> QED
  BY <1>3, <1>5, <1>6 DEF ResultsNamed
\* A step that keeps the pools and the requests
LEMMA QuietNames ==
    ASSUME RunTypes, Ages, NameInv, UNCHANGED poolVars,
           \A s \in Services : svc'[s].completed \subseteq svc[s].completed,
           \A s \in Services : \A q \in Requests(s)' : \A t \in q.tasks :
               (\E x \in Requests(s) : t \in x.tasks) \/ Named(t.key, t.content)',
           \A r \in Ranks : \A v \in client'[r].verdicts :
               v \in client[r].verdicts
                 \/ \E s \in Services : v \in svc[s].completed
    PROVE  NameInv'
<1>1. \A k, c : Named(k, c) => Named(k, c)'
  BY NamedStays
<1>2. ASSUME NEW s \in Services
      PROVE  NamedAt(s)'
  <2>1. NamedAt(s)
    BY DEF NameInv
  <2>2. RequestsNamed(s)'
    BY <1>1, <2>1 DEF NamedAt, RequestsNamed
  <2> QED
    BY <2>1, <2>2, NamedFrames DEF NamedAt, poolVars
<1>3. \A r \in Ranks : \A v \in client'[r].verdicts : Named(v.key, v.content)'
  BY <1>1 DEF NameInv, NamedAt, CompletedNamed
<1> QED
  BY <1>2, <1>3 DEF NameInv

\* A step of a rank gives it no verdict.
LEMMA ClientStepVerdicts ==
    ASSUME TypeInv, NEW r \in Ranks, ClientStep(r)
    PROVE  \A u \in Ranks : client'[u].verdicts \subseteq client[u].verdicts
<1>1. client \in [Ranks -> ClientType] /\ client[r] \in ClientType /\ running
  BY DEF TypeInv, RunTypes, ClientStep, Snapshot, Started, RunBatch, Score
<1>2. \/ client' = [q \in Ranks |-> NewClient]
      \/ \E c : SetClient(r, c) /\ c.verdicts \in {{}, client[r].verdicts}
  <2>1. CASE Snapshot(r)
    <3> DEFINE c == [client[r] EXCEPT !.pc = "snapshot", !.waiting = OwnServices(r)]
    <3>1. c.verdicts = client[r].verdicts
      BY <1>1 DEF ClientType
    <3>2. SetClient(r, c) \/ client' = [q \in Ranks |-> NewClient]
      BY <1>1, <2>1 DEF Snapshot, Connect, Killed
    <3> HIDE DEF c
    <3> QED
      BY <3>1, <3>2
  <2>2. CASE Started(r)
    <3> DEFINE c == [client[r] EXCEPT !.pc = "started"]
    <3>1. c.verdicts = client[r].verdicts /\ SetClient(r, c)
      BY <1>1, <2>2 DEF ClientType, Started
    <3> HIDE DEF c
    <3> QED
      BY <3>1
  <2>3. CASE Score(r)
    <3> DEFINE c == [client[r] EXCEPT !.pc = "started", !.tasks = {}, !.verdicts = {}]
    <3>1. c.verdicts = {} /\ SetClient(r, c)
      BY <1>1, <2>3 DEF ClientType, Score
    <3> HIDE DEF c
    <3> QED
      BY <3>1
  <2>4. CASE RunBatch(r)
    <3>1. PICK good \in SUBSET Positions :
            LET tasks == Tasks(r, good)
                targets == {ServiceOf(r, t.key[2]) : t \in tasks}
            IN  /\ Connect(r, [s \in targets |->
                                 Request(r, "run_batch", TasksFor(r, s, tasks))])
                /\ running' => SetClient(r,
                      [client[r] EXCEPT !.pc = "batch", !.batch = @ + 1,
                          !.index = @ + Cardinality(good), !.tasks = tasks,
                          !.waiting = targets, !.verdicts = {}])
      BY <2>4 DEF RunBatch
    <3> DEFINE tasks == Tasks(r, good)
               targets == {ServiceOf(r, t.key[2]) : t \in tasks}
               c == [client[r] EXCEPT !.pc = "batch", !.batch = @ + 1,
                         !.index = @ + Cardinality(good), !.tasks = tasks,
                         !.waiting = targets, !.verdicts = {}]
    <3>2. c.verdicts = {}
      BY <1>1 DEF ClientType
    <3>3. SetClient(r, c) \/ client' = [q \in Ranks |-> NewClient]
      BY <1>1, <3>1 DEF Connect, Killed
    <3> HIDE DEF c
    <3> QED
      BY <3>2, <3>3
  <2> QED
    BY <2>1, <2>2, <2>3, <2>4 DEF ClientStep
<1> QED
  BY <1>1, <1>2 DEF SetClient, NewClient

LEMMA ClientStepNames ==
    ASSUME TypeInv, ConnInv, NameInv, Ages, NEW r \in Ranks, ClientStep(r)
    PROVE  NameInv'
<1>1. client \in [Ranks -> ClientType] /\ client[r] \in ClientType /\ running /\ life \in Nat
  BY DEF TypeInv, RunTypes, ClientStep, Snapshot, RunBatch, Started, Score
<1>2. UNCHANGED <<poolVars, svc, life>>
  BY DEF ClientStep, Snapshot, RunBatch, Started, Score
<1>3. \A u \in Ranks : client'[u].verdicts \subseteq client[u].verdicts
  BY ClientStepVerdicts
<1>4. ASSUME \A s \in Services : \A q \in Requests(s)' : \A t \in q.tasks :
                 (\E x \in Requests(s) : t \in x.tasks) \/ Named(t.key, t.content)'
      PROVE  NameInv'
  BY <1>2, <1>3, <1>4, QuietNames DEF TypeInv
<1>5. ASSUME UNCHANGED backlog
      PROVE  NameInv'
  BY <1>2, <1>4, <1>5 DEF Requests
<1>6. ASSUME NEW D \in SUBSET Services, NEW requests \in [D -> RequestType],
             backlog' = [s \in Services |->
                 IF s \in DOMAIN requests THEN Append(backlog[s], requests[s])
                 ELSE backlog[s]],
             \A s \in D : \A t \in requests[s].tasks : Named(t.key, t.content)'
      PROVE  NameInv'
  <2>1. ASSUME NEW s \in D
        PROVE  Requests(s)' = Requests(s) \cup {requests[s]}
    <3> DEFINE q == requests[s]
    <3>1. q \in RequestType /\ backlog'[s] = Append(backlog[s], q) /\ svc'[s] = svc[s]
      BY <1>2, <1>6
    <3> HIDE DEF q
    <3>2. Requests(s)' = Requests(s) \cup {q}
      BY <3>1, Appended DEF TypeInv
    <3> QED
      BY <3>2 DEF q
  <2>2. \A s \in Services \ D : Requests(s)' = Requests(s)
    BY <1>2, <1>6 DEF Requests
  <2> QED
    BY <1>4, <1>6, <2>1, <2>2
<1>7. CASE Started(r) \/ Score(r)
  BY <1>5, <1>7 DEF Started, Score
<1>8. CASE Snapshot(r)
  <2> DEFINE requests == [s \in OwnServices(r) |-> Request(r, "snapshot", {})]
  <2>1. Connect(r, requests)
    BY <1>8 DEF Snapshot
  <2>2. /\ requests \in [OwnServices(r) -> RequestType]
        /\ \A s \in OwnServices(r) : requests[s].tasks = {}
    BY <1>1 DEF Request, RequestType, TypeInv, RunTypes
  <2> HIDE DEF requests
  <2> QED
    BY <1>5, <1>6, <2>1, <2>2, Targets DEF Connect
<1>9. CASE RunBatch(r)
  <2>1. PICK good \in SUBSET Positions :
          LET tasks == Tasks(r, good)
              targets == {ServiceOf(r, t.key[2]) : t \in tasks}
          IN  /\ Connect(r, [s \in targets |->
                               Request(r, "run_batch", TasksFor(r, s, tasks))])
              /\ running' => SetClient(r,
                    [client[r] EXCEPT !.pc = "batch", !.batch = @ + 1,
                        !.index = @ + Cardinality(good), !.tasks = tasks,
                        !.waiting = targets, !.verdicts = {}])
    BY <1>9 DEF RunBatch
  <2> DEFINE tasks == Tasks(r, good)
             targets == {ServiceOf(r, t.key[2]) : t \in tasks}
             requests == [s \in targets |-> Request(r, "run_batch", TasksFor(r, s, tasks))]
             c == [client[r] EXCEPT !.pc = "batch", !.batch = @ + 1,
                       !.index = @ + Cardinality(good), !.tasks = tasks,
                       !.waiting = targets, !.verdicts = {}]
  <2>2. client[r].batch < MaxBatch /\ life > 0
    BY <1>1, <1>9 DEF RunBatch, TypeInv, RunTypes
  <2>3. /\ tasks \in SUBSET TaskType /\ Batch(tasks)
        /\ \A t \in tasks : /\ t.key[2] \in Nat /\ t.key[1] = client[r].batch + 1
                            /\ t.content[1] = life /\ t.content[2] = r
    BY <2>2, NewTasks DEF TypeInv
  <2>4. /\ Connect(r, requests) /\ (running' => SetClient(r, c))
    BY <2>1
  <2> HIDE DEF tasks
  <2>5. /\ targets \in SUBSET Services /\ requests \in [targets -> RequestType]
        /\ \A s \in targets : requests[s].tasks \subseteq tasks
    BY <1>1, <2>2, <2>3, Targets DEF Request, RequestType, TasksFor
  <2>6. /\ c.tasks = tasks /\ c.pc = "batch" /\ c.batch = client[r].batch + 1
        /\ client[r].batch + 1 \in Nat
    BY <1>1, ServiceAssumption DEF ClientType
  <2> HIDE DEF targets, requests, c
  <2>7. ASSUME ~ (UNCHANGED backlog), NEW t \in tasks
        PROVE  Named(t.key, t.content)'
    <3>1. running' = running /\ client'[r] = c
      BY <1>1, <2>4, <2>7 DEF Connect, SetClient
    <3>2. t \in TaskType
      BY <2>3
    <3>3. t = [key |-> t.key, content |-> t.content] /\ t.content \in Contents
      BY <3>2 DEF TaskType
    <3>4. life \in 1 .. life
      BY <1>1, <2>2
    <3>5. t.content[1] = life /\ t.content[2] = r /\ t.content[3] = t.key[1]
          /\ t.key[1] = c.batch
      BY <2>3, <2>6 DEF Batch
    <3>6. c.batch \in Nat /\ c.batch <= c.batch
      BY <2>6
    <3> QED
      BY <1>2, <2>6, <3>1, <3>3, <3>4, <3>5, <3>6 DEF Named
  <2>8. CASE UNCHANGED backlog
    BY <1>5, <2>8
  <2>9. CASE ~ (UNCHANGED backlog)
    BY <1>6, <2>4, <2>5, <2>7, <2>9 DEF Connect
  <2> QED
    BY <2>8, <2>9
<1> QED
  BY <1>7, <1>8, <1>9 DEF ClientStep

LEMMA CloseKeepsNames ==
    ASSUME TypeInv, NameInv, Ages, NEW s \in Services, Close(s), UNCHANGED poolVars
    PROVE  NameInv'
<1>1. /\ svc'[s].conn = NoRequest /\ backlog'[s] = <<>> /\ svc'[s].completed = {}
      /\ \A u \in Services \ {s} : svc'[u] = svc[u] /\ backlog'[u] = backlog[u]
  BY DEF Close, Idle, TypeInv, ServiceTypes
<1>2. Requests(s)' = {NoRequest} /\ \A u \in Services \ {s} : Requests(u)' = Requests(u)
  BY <1>1 DEF Requests
<1>3. \A r \in Ranks : client'[r].verdicts \subseteq client[r].verdicts
  BY DEF Close, Killed, NewClient
<1> QED
  BY <1>1, <1>2, <1>3, QuietNames, Records DEF TypeInv

LEMMA ReplyKeepsNames ==
    ASSUME TypeInv, ConnInv, NameInv, Ages, NEW s \in Services,
           NEW verdicts \in SUBSET svc[s].completed, Reply(s, verdicts),
           svc[s].pc \in {"snapshot", "run_batch"}, UNCHANGED <<poolVars, backlog>>
    PROVE  NameInv'
<1> DEFINE q == svc[s].conn
<1>1. /\ svc'[s].conn = NoRequest /\ svc'[s].completed = {}
      /\ \A u \in Services \ {s} : svc'[u] = svc[u]
  BY DEF Reply, Idle, TypeInv, ServiceTypes
<1>2. /\ \A x \in Requests(s)' : x = NoRequest \/ x \in Requests(s)
      /\ \A u \in Services \ {s} : Requests(u)' = Requests(u)
  BY <1>1 DEF Requests
<1>3. q \in RequestType
  BY Records DEF TypeInv, ServiceTypes, ServiceType, ConnInv, Serving, ServingAt
<1>4. \A r \in Ranks : client'[r].verdicts \subseteq client[r].verdicts \cup svc[s].completed
  <2>1. CASE UNCHANGED client \/ Killed
    BY <2>1 DEF Killed, NewClient
  <2>2. CASE SetClient(q.rank, [client[q.rank] EXCEPT
                  !.waiting = @ \ {s}, !.verdicts = @ \cup verdicts])
    <3>1. q.rank \in Ranks /\ client[q.rank] \in ClientType /\ client \in [Ranks -> ClientType]
      BY <1>3 DEF RequestType, TypeInv, RunTypes
    <3>2. /\ client'[q.rank].verdicts = client[q.rank].verdicts \cup verdicts
          /\ \A r \in Ranks \ {q.rank} : client'[r] = client[r]
      BY <2>2, <3>1 DEF SetClient, ClientType
    <3> QED
      BY <3>2
  <2> QED
    BY <2>1, <2>2 DEF Reply
<1> QED
  BY <1>1, <1>2, <1>4, QuietNames, Records DEF TypeInv
LEMMA SubmitKeepsNames ==
    ASSUME TypeInv, ConnInv, NameInv, Ages, NEW s \in Services, Submit(s)
    PROVE  NameInv'
<1>1. PICK t \in svc[s].conn.tasks :
        /\ spool' = [spool EXCEPT ![s][t.key] = t.content]
        /\ svc' = [svc EXCEPT ![s].conn.tasks = @ \ {t}, ![s].expected = @ \cup {t.key}]
  BY DEF Submit
<1>2. svc[s].pc = "run_batch" /\ UNCHANGED <<life, running, client, backlog, worker, results>>
  BY DEF Submit, clientVars
<1>3. svc[s] \in ServiceType /\ svc[s].conn \in RequestType
  BY <1>2, Records DEF TypeInv, ServiceTypes, ServiceType, ConnInv, Serving, ServingAt
<1> DEFINE v == [svc[s] EXCEPT !.conn.tasks = @ \ {t}, !.expected = @ \cup {t.key}]
<1>4. v.conn = [svc[s].conn EXCEPT !.tasks = @ \ {t}] /\ v.completed = svc[s].completed
  BY <1>3 DEF ServiceType
<1>5. svc'[s] = v /\ \A u \in Services \ {s} : svc'[u] = svc[u]
  BY <1>1 DEF TypeInv, ServiceTypes
<1> HIDE DEF v
<1>6. svc'[s].conn.tasks = svc[s].conn.tasks \ {t}
  BY <1>3, <1>4, <1>5 DEF RequestType
<1>7. t.key \in Keys
  BY <1>3 DEF RequestType, TaskType
<1>8. \A u \in Services : NamedAt(u)
  BY DEF NameInv
<1>9. \A k, c : Named(k, c) => Named(k, c)'
  BY NamedStays DEF TypeInv
<1>10. NamedAt(s)'
  <2>1. RequestsNamed(s)'
    <3>1. \A q \in Requests(s)' : q = svc'[s].conn \/ q \in Requests(s)
      BY <1>2 DEF Requests
    <3>2. svc[s].conn \in Requests(s)
      BY DEF Requests
    <3> QED
      BY <1>6, <1>8, <3>1, <3>2, NamedFrames DEF TypeInv
  <2>2. SpoolNamed(s)'
    <3>1. Named(t.key, t.content)
      BY <1>1, <1>8 DEF NamedAt, RequestsNamed, Requests
    <3>2. \A k \in Keys : spool'[s][k] = IF k = t.key THEN t.content ELSE spool[s][k]
      BY <1>1, <1>7 DEF TypeInv, PoolTypes
    <3> QED
      BY <1>8, <1>9, <3>1, <3>2 DEF NamedAt, SpoolNamed
  <2> QED
    BY <1>2, <1>4, <1>5, <1>8, <2>1, <2>2, NamedFrames DEF NamedAt, TypeInv
<1>11. ASSUME NEW u \in Services \ {s}
       PROVE  NamedAt(u)'
  <2>1. Requests(u)' = Requests(u)
    BY <1>2, <1>5 DEF Requests
  <2>2. spool'[u] = spool[u]
    BY <1>1 DEF TypeInv, PoolTypes
  <2> QED
    BY <1>2, <1>5, <1>8, <2>1, <2>2, NamedFrames DEF NamedAt, TypeInv
<1>12. \A r \in Ranks : \A x \in client'[r].verdicts : Named(x.key, x.content)'
  BY <1>2, <1>9 DEF NameInv
<1> QED
  BY <1>10, <1>11, <1>12 DEF NameInv

\* A step of the pool of one service
LEMMA PoolKeepsNames ==
    ASSUME TypeInv, NameInv, Ages, NEW s \in Services,
           UNCHANGED <<clientVars, backlog>>, svc'[s].conn = svc[s].conn,
           CompletedNamed(s)', SpoolNamed(s)', WorkerNamed(s)', ResultsNamed(s)',
           \A u \in Services \ {s} : /\ svc'[u] = svc[u] /\ spool'[u] = spool[u]
                                     /\ worker'[u] = worker[u] /\ results'[u] = results[u]
    PROVE  NameInv'
<1>1. \A u \in Services : NamedAt(u) /\ Requests(u)' = Requests(u)
  BY DEF NameInv, Requests
<1>2. \A u \in Services : RequestsNamed(u)'
  BY <1>1, NamedFrames DEF TypeInv
<1>3. \A u \in Services : NamedAt(u)'
  BY <1>1, <1>2, NamedFrames DEF NamedAt, TypeInv
<1>4. \A r \in Ranks : \A x \in client'[r].verdicts : Named(x.key, x.content)'
  BY NamedStays DEF clientVars, NameInv, TypeInv
<1> QED
  BY <1>3, <1>4 DEF NameInv

LEMMA TakeKeepsNames ==
    ASSUME TypeInv, NameInv, Ages, NEW s \in Services, Take(s)
    PROVE  NameInv'
<1> DEFINE key == Head(queue[s])
           content == spool[s][key]
           type == IF content = Gone THEN "fatal" ELSE "started"
           m == Message(type, s, key, content, FALSE)
<1>1. /\ worker' = [worker EXCEPT ![s] =
             [@ EXCEPT !.state = IF content = Gone THEN "dead" ELSE "busy",
                       !.key = key, !.content = content]]
      /\ results' = [results EXCEPT ![s] = Append(@, m)]
      /\ UNCHANGED <<clientVars, svc, backlog, pool, spool>>
  BY DEF Take
<1>2. /\ worker \in [Services -> WorkerType] /\ worker[s] \in WorkerType
      /\ spool[s] \in [Keys -> Contents] /\ queue[s] \in Seq(Keys)
  BY DEF TypeInv, PoolTypes
<1>3. key \in Keys /\ content \in Contents
  BY <1>2 DEF Take
<1>4. NamedAt(s)
  BY DEF NameInv
<1>5. content # Gone => Named(key, content)
  BY <1>3, <1>4 DEF NamedAt, SpoolNamed
<1> HIDE DEF key, content
<1>6. m \in MessageType /\ m.type = type /\ m.key = key /\ m.content = content
  BY <1>2, <1>3 DEF Message, MessageType, WorkerType
<1>7. WorkerNamed(s)'
  <2>1. /\ worker'[s].state = IF content = Gone THEN "dead" ELSE "busy"
        /\ worker'[s].key = key /\ worker'[s].content = content
    BY <1>1, <1>2 DEF WorkerType
  <2> QED
    BY <1>5, <2>1, NamedStays DEF WorkerNamed, TypeInv
<1> HIDE DEF m
<1>8. ResultsNamed(s)'
  <2>1. m.type # "fatal" => Named(m.key, m.content)
    BY <1>5, <1>6
  <2> QED
    BY <1>1, <1>4, <1>6, <2>1, AppendNamed DEF TypeInv
<1>9. CompletedNamed(s)' /\ SpoolNamed(s)'
  BY <1>1, <1>4, NamedFrames DEF TypeInv
<1>10. \A u \in Services \ {s} : /\ svc'[u] = svc[u] /\ spool'[u] = spool[u]
                                 /\ worker'[u] = worker[u] /\ results'[u] = results[u]
  BY <1>1 DEF TypeInv, PoolTypes
<1> QED
  BY <1>1, <1>7, <1>8, <1>9, <1>10, PoolKeepsNames

LEMMA CheckKeepsNames ==
    ASSUME TypeInv, NameInv, Ages, NEW s \in Services, Check(s)
    PROVE  NameInv'
<1>1. PICK success \in BOOLEAN : results' = [results EXCEPT ![s] = Append(@,
          Message("result", s, worker[s].key, worker[s].content, success))]
  BY DEF Check
<1> DEFINE m == Message("result", s, worker[s].key, worker[s].content, success)
<1>2. /\ worker' = [worker EXCEPT ![s].state = "idle"] /\ worker[s].state = "busy"
      /\ UNCHANGED <<clientVars, svc, backlog, pool, queue, spool>>
  BY DEF Check
<1>3. /\ worker \in [Services -> WorkerType] /\ worker[s] \in WorkerType
      /\ worker[s].key \in Keys /\ NamedAt(s)
  BY <1>2 DEF TypeInv, PoolTypes, NameInv
<1>4. m \in MessageType /\ m.key = worker[s].key /\ m.content = worker[s].content
  BY <1>3 DEF Message, MessageType, WorkerType
<1>5. Named(worker[s].key, worker[s].content)
  BY <1>2, <1>3 DEF NamedAt, WorkerNamed
<1>6. results' = [results EXCEPT ![s] = Append(@, m)]
  BY <1>1
<1> HIDE DEF m
<1>7. ResultsNamed(s)'
  BY <1>3, <1>4, <1>5, <1>6, AppendNamed DEF TypeInv
<1>8. WorkerNamed(s)'
  BY <1>2, <1>3 DEF WorkerNamed, WorkerType
<1>9. CompletedNamed(s)' /\ SpoolNamed(s)'
  BY <1>2, <1>3, NamedFrames DEF TypeInv
<1>10. \A u \in Services \ {s} : /\ svc'[u] = svc[u] /\ spool'[u] = spool[u]
                                 /\ worker'[u] = worker[u] /\ results'[u] = results[u]
  BY <1>2, <1>6 DEF TypeInv, PoolTypes
<1> QED
  BY <1>2, <1>7, <1>8, <1>9, <1>10, PoolKeepsNames

\* A replaced worker is not at work.
LEMMA RestartedWorker ==
    ASSUME PoolTypes, NEW s \in Services, Restart(s, pool[s])
    PROVE  /\ worker'[s].state # "busy"
           /\ \A u \in Services \ {s} : /\ worker'[u] = worker[u] /\ pool'[u] = pool[u]
                                        /\ queue'[u] = queue[u]
           /\ pool'[s] = Restarted(s, pool[s]).pool
<1> DEFINE R == Restarted(s, pool[s])
<1>1. /\ pool' = [pool EXCEPT ![s] = R.pool]
      /\ queue' = IF R.again THEN [queue EXCEPT ![s] = Append(@, pool[s].inflight)] ELSE queue
      /\ worker' = [worker EXCEPT ![s] =
            [@ EXCEPT !.state = IF R.up THEN "idle" ELSE "dead", !.gen = R.pool.gen]]
  BY DEF Restart
<1> HIDE DEF R
<1>2. worker[s] \in WorkerType
  BY DEF PoolTypes
<1> QED
  BY <1>1, <1>2 DEF PoolTypes, WorkerType, R

LEMMA ReplacedKeepsNames ==
    ASSUME TypeInv, NameInv, Ages, NEW s \in Services, DeadReplaced(s) \/ StaleHeartbeat(s)
    PROVE  NameInv'
<1>1. Restart(s, pool[s]) /\ UNCHANGED <<clientVars, svc, backlog, results, spool>>
  BY DEF DeadReplaced, StaleHeartbeat
<1>2. NamedAt(s)
  BY DEF NameInv
<1>3. worker'[s].state # "busy" /\ \A u \in Services \ {s} : worker'[u] = worker[u]
  BY <1>1, RestartedWorker DEF TypeInv
<1>4. CompletedNamed(s)' /\ SpoolNamed(s)' /\ WorkerNamed(s)' /\ ResultsNamed(s)'
  BY <1>1, <1>2, <1>3, NamedFrames DEF TypeInv
<1> QED
  BY <1>1, <1>3, <1>4, PoolKeepsNames

\* The process of a worker that ends takes nothing with it that has a name.
LEMMA DiesKeepsNames ==
    ASSUME TypeInv, NameInv, Ages, NEW s \in Services, Dies(s)
    PROVE  NameInv'
<1>1. /\ UNCHANGED <<clientVars, svc, backlog, results, spool>>
      /\ worker'[s].state # "busy" /\ \A u \in Services \ {s} : worker'[u] = worker[u]
  BY DEF Dies, TypeInv, PoolTypes, WorkerType
<1>2. NamedAt(s)
  BY DEF NameInv
<1>3. CompletedNamed(s)' /\ SpoolNamed(s)' /\ WorkerNamed(s)' /\ ResultsNamed(s)'
  BY <1>1, <1>2, NamedFrames DEF TypeInv
<1> QED
  BY <1>1, <1>3, PoolKeepsNames

LEMMA DrainKeepsNames ==
    ASSUME TypeInv, NameInv, Ages, NEW s \in Services, Drain(s)
    PROVE  NameInv'
<1> DEFINE m == Head(results[s])
<1>1. /\ results[s] # <<>> /\ results' = [results EXCEPT ![s] = Tail(@)]
      /\ Restart(s, pool[s]) \/ UNCHANGED worker
      /\ \/ spool' = spool
         \/ pool[s].inflight # NoKey /\ spool' = [spool EXCEPT ![s][pool[s].inflight] = Gone]
  BY DEF Drain
<1>2. NamedAt(s)
  BY DEF NameInv
<1>3. ResultsNamed(s)' /\ m \in MessageType /\ (m.type # "fatal" => Named(m.key, m.content))
  BY <1>1, <1>2, TailNamed DEF TypeInv
<1>4. WorkerNamed(s)' /\ \A u \in Services \ {s} : worker'[u] = worker[u]
  BY <1>1, <1>2, NamedFrames, RestartedWorker DEF TypeInv
<1>5. SpoolNamed(s)' /\ \A u \in Services \ {s} : spool'[u] = spool[u]
  <2>1. pool[s].inflight # NoKey => pool[s].inflight \in Keys
    BY DEF TypeInv, PoolTypes, PoolType
  <2>2. spool \in [Services -> [Keys -> Contents]]
    BY DEF TypeInv, PoolTypes
  <2>3. \A k \in Keys : spool'[s][k] \in {spool[s][k], Gone}
    BY <1>1, <2>1, <2>2
  <2>4. \A k, c : Named(k, c) => Named(k, c)'
    BY NamedStays DEF TypeInv
  <2> QED
    BY <1>1, <1>2, <2>2, <2>3, <2>4 DEF SpoolNamed, NamedAt
<1>6. CompletedNamed(s)'
  <2> DEFINE accepted == m.type = "result" /\ m.key \in svc[s].expected
                           /\ \A v \in svc[s].completed : v.key # m.key
  <2>1. svc'[s].completed = svc[s].completed \cup
          IF accepted THEN {[key |-> m.key, content |-> m.content]} ELSE {}
    BY DrainedService
  <2> HIDE DEF m
  <2>2. \A v \in svc'[s].completed : Named(v.key, v.content)
    BY <1>2, <1>3, <2>1 DEF NamedAt, CompletedNamed
  <2> QED
    BY <2>2, NamedStays DEF CompletedNamed, TypeInv
<1>7. /\ UNCHANGED <<clientVars, backlog>> /\ svc'[s].conn = svc[s].conn
      /\ \A u \in Services \ {s} : svc'[u] = svc[u]
  BY DrainedService
<1>8. \A u \in Services \ {s} : results'[u] = results[u]
  BY <1>1 DEF TypeInv, PoolTypes
<1> QED
  BY <1>3, <1>4, <1>5, <1>6, <1>7, <1>8, PoolKeepsNames

LEMMA NextKeepsNames ==
    ASSUME TypeInv, ConnInv, NameInv, [Next]_vars
    PROVE  NameInv'
<1>1. Ages
  BY StepAges
<1>2. CASE Launch \/ Kill \/ UNCHANGED vars
  <2>1. UNCHANGED <<poolVars, svc, backlog>>
    BY <1>2 DEF Launch, Kill, vars, poolVars
  <2>2. \A r \in Ranks : client'[r].verdicts \subseteq client[r].verdicts
    BY <1>2 DEF Launch, Kill, Killed, vars, NewClient
  <2>3. \A s \in Services : Requests(s)' = Requests(s)
    BY <2>1 DEF Requests
  <2> QED
    BY <1>1, <2>1, <2>2, <2>3, QuietNames DEF TypeInv
<1>3. ASSUME NEW s \in Services, Boot(s) \/ Stop(s)
      PROVE  NameInv'
  <2>1. UNCHANGED <<poolVars, clientVars, backlog>>
    BY <1>3 DEF Boot, Stop
  <2>2. svc \in [Services -> ServiceType] /\ svc[s] \in ServiceType
    BY DEF TypeInv, ServiceTypes
  <2>3. /\ svc'[s].completed \subseteq svc[s].completed
        /\ svc'[s].conn.tasks \subseteq svc[s].conn.tasks
        /\ \A u \in Services \ {s} : svc'[u] = svc[u]
    <3>1. CASE Boot(s)
      BY <2>2, <3>1, Records DEF Boot, Idle
    <3>2. CASE Stop(s)
      BY <2>2, <3>2 DEF Stop, ServiceType
    <3> QED
      BY <1>3, <3>1, <3>2
  <2>4. \A u \in Services : \A q \in Requests(u)' : \A t \in q.tasks :
          \E x \in Requests(u) : t \in x.tasks
    BY <2>1, <2>3 DEF Requests
  <2>5. \A u \in Services : svc'[u].completed \subseteq svc[u].completed
    BY <2>3
  <2> QED
    BY <1>1, <2>1, <2>4, <2>5, QuietNames DEF TypeInv, clientVars
<1>4. ASSUME NEW s \in Services, ServiceStep(s)
      PROVE  NameInv'
  <2>1. CASE Accept(s)
    <3>1. CASE Current(Head(backlog[s]))
      <4>1. /\ Requests(s)' \cup {NoRequest} = Requests(s) /\ UNCHANGED <<client, poolVars>>
            /\ svc'[s].completed = svc[s].completed
            /\ \A u \in Services \ {s} : svc'[u] = svc[u] /\ backlog'[u] = backlog[u]
        BY <2>1, <3>1, AcceptFacts DEF Accept
      <4>2. \A u \in Services \ {s} : Requests(u)' = Requests(u)
        BY <4>1 DEF Requests
      <4> QED
        BY <1>1, <4>1, <4>2, QuietNames DEF TypeInv
    <3>2. CASE ~ Current(Head(backlog[s]))
      BY <1>1, <2>1, <3>2, CloseKeepsNames DEF Accept
    <3> QED
      BY <3>1, <3>2
  <2>2. CASE ReplySnapshot(s)
    BY <1>1, <2>2, ReplyKeepsNames DEF ReplySnapshot
  <2>3. CASE ReplyBatch(s)
    BY <1>1, <2>3, ReplyKeepsNames DEF ReplyBatch
  <2>4. CASE Exit(s)
    BY <1>1, <2>4, CloseKeepsNames DEF Exit
  <2> QED
    BY <1>1, <1>3, <1>4, <2>1, <2>2, <2>3, <2>4, SubmitKeepsNames DEF ServiceStep
<1>5. ASSUME NEW s \in Services, PoolStep(s) \/ Dies(s) \/ StaleHeartbeat(s)
      PROVE  NameInv'
  BY <1>1, <1>5, TakeKeepsNames, CheckKeepsNames, DrainKeepsNames, ReplacedKeepsNames,
     DiesKeepsNames
  DEF PoolStep
<1> QED
  BY <1>1, <1>2, <1>3, <1>4, <1>5, ClientStepNames DEF Next

LEMMA InitNames == Init => NameInv
<1> SUFFICES ASSUME Init PROVE NameInv
  OBVIOUS
<1>1. \A s \in Services : Requests(s) = {NoRequest}
  BY DEF Init, Requests, Idle
<1>2. \A s \in Services : NamedAt(s)
  BY <1>1, Records
  DEF Init, Idle, NamedAt, RequestsNamed, CompletedNamed, SpoolNamed, WorkerNamed,
      ResultsNamed
<1> QED
  BY <1>2 DEF Init, NameInv, NewClient
------------------------------------------------------------------------------
(* A pool that has replaced no worker serves one batch after the other.    *)

\* Nothing is left of a batch that is answered, so the next one may begin.
LEMMA BetweenBatches ==
    ASSUME NEW v, NEW u, NEW q, NEW w, NEW res, NEW sp, NEW p,
           Clean(v, q, w, res, sp, p), Pending(v) = {}, u.completed = {}, u.expected = {}
    PROVE  Clean(u, q, w, res, sp, p)
BY DEF Clean, QueueClean, BusyClean, ResultsClean

\* Clean depends on the run and rank of the batch and on what is expected.
LEMMA SameBatchClean ==
    ASSUME NEW v, NEW u, NEW q, NEW w, NEW res, NEW sp, NEW p,
           Clean(v, q, w, res, sp, p), u.completed = v.completed,
           u.expected = v.expected, u.conn = v.conn
    PROVE  Clean(u, q, w, res, sp, p)
BY DEF Clean, QueueClean, BusyClean, ResultsClean, Pending

LEMMA SubmitClean ==
    ASSUME NEW v, NEW u, NEW q \in Seq(Keys), NEW w, NEW res, NEW sp, NEW sq, NEW p, NEW t,
           Clean(v, q, w, res, sp, p), KeysOf(v.completed) \subseteq v.expected,
           t.key \in Keys, t.key \notin v.expected, Of(v.conn, t.content),
           u.completed = v.completed, u.expected = v.expected \cup {t.key},
           u.conn.life = v.conn.life, u.conn.rank = v.conn.rank,
           \A k \in Keys : sq[k] = IF k = t.key THEN t.content ELSE sp[k]
    PROVE  Clean(u, Append(q, t.key), w, res, sq, p)
<1> DEFINE r == Append(q, t.key)
<1>1. PICK n \in Nat : Longer(q, r, n, t.key)
  BY AppendIs
<1> HIDE DEF r
<1>2. Pending(u) = Pending(v) \cup {t.key} /\ t.key \notin Pending(v)
  BY DEF Pending
<1>3. \A c : Of(u.conn, c) <=> Of(v.conn, c)
  BY DEF Of
<1>4. \A i \in 1 .. n : /\ q[i] \in Pending(v) /\ Of(v.conn, sp[q[i]]) /\ q[i] \in Keys
                        /\ q[i] # t.key /\ \A j \in 1 .. n : q[j] = q[i] => j = i
  BY <1>1, <1>2 DEF Clean, QueueClean, Longer
<1>5. QueueClean(u, r, sq)
  <2>1. ASSUME NEW i \in 1 .. n + 1
        PROVE  /\ r[i] \in Pending(u) /\ Of(u.conn, sq[r[i]])
               /\ \A j \in 1 .. n + 1 : r[j] = r[i] => j = i
    BY <1>1, <1>2, <1>3, <1>4 DEF Longer
  <2> QED
    BY <1>1, <2>1 DEF QueueClean, Longer
<1>6. \A k \in Pending(v) : (\A i \in DOMAIN q : q[i] # k) => \A i \in DOMAIN r : r[i] # k
  BY <1>1, <1>2 DEF Longer
<1>7. BusyClean(u, r, w)
  BY <1>2, <1>3, <1>6 DEF Clean, BusyClean
<1>8. ResultsClean(u, r, w, res)
  BY <1>2, <1>3, <1>6 DEF Clean, ResultsClean
<1> QED
  BY <1>3, <1>5, <1>7, <1>8 DEF Clean, r

\* The worker takes the first task of the queue.
LEMMA TakeClean ==
    ASSUME NEW v, NEW q \in Seq(Keys), NEW w, NEW x, NEW res \in Seq(MessageType),
           NEW sp, NEW p, NEW m \in MessageType,
           Clean(v, q, w, res, sp, p), q # <<>>, ~ Holds(w),
           Holds(x), x.key = Head(q), x.content = sp[Head(q)], x.gen = w.gen,
           m.type = "started", m.key = Head(q), m.gen = w.gen
    PROVE  Clean(v, Tail(q), x, Append(res, m), sp, p)
<1> DEFINE r == Tail(q)
           rs == Append(res, m)
<1>1. PICK n \in Nat : Shorter(q, r, n)
  BY TailIs
<1>2. PICK l \in Nat : Longer(res, rs, l, m)
  BY AppendIs
<1>3. Head(q) = q[1]
  BY TailIs
<1> HIDE DEF r, rs
<1>4. \A i \in 1 .. n + 1 : /\ q[i] \in Pending(v) /\ Of(v.conn, sp[q[i]])
                            /\ \A j \in 1 .. n + 1 : q[j] = q[i] => j = i
  BY <1>1 DEF Clean, QueueClean, Shorter
<1>5. \A i \in 1 .. n : r[i] = q[i + 1] /\ i + 1 \in 1 .. n + 1 /\ r[i] # q[1]
  <2>1. \A i \in 1 .. n : i + 1 # 1
    OBVIOUS
  <2> QED
    BY <1>1, <1>4, <2>1 DEF Shorter
<1>6. QueueClean(v, r, sp)
  <2>1. ASSUME NEW i \in 1 .. n, NEW j \in 1 .. n, r[j] = r[i]
        PROVE  j = i
    <3>1. j + 1 = i + 1
      BY <1>4, <1>5, <2>1
    <3> QED
      BY <3>1
  <2> QED
    BY <1>1, <1>4, <1>5, <2>1 DEF QueueClean, Shorter
<1>7. BusyClean(v, r, x)
  BY <1>1, <1>3, <1>4, <1>5 DEF BusyClean, Shorter
<1>8. ASSUME NEW i \in 1 .. l, res[i].type = "result"
      PROVE  /\ res[i].key \in Pending(v) /\ Of(v.conn, res[i].content)
             /\ \A j \in 1 .. n + 1 : q[j] # res[i].key
             /\ \A j \in 1 .. l : res[j].type = "result" /\ res[j].key = res[i].key => j = i
  BY <1>1, <1>2, <1>8 DEF Clean, ResultsClean, Longer, Shorter
<1>9. ResultsClean(v, r, x, rs)
  <2>1. ASSUME NEW i \in 1 .. l + 1, rs[i].type = "result"
        PROVE  /\ rs[i].key \in Pending(v) /\ Of(v.conn, rs[i].content)
               /\ \A j \in 1 .. n : r[j] # rs[i].key
               /\ ~ (Holds(x) /\ x.key = rs[i].key)
               /\ \A j \in 1 .. l + 1 : rs[j].type = "result" /\ rs[j].key = rs[i].key => j = i
    <3>1. i \in 1 .. l /\ rs[i] = res[i]
      BY <1>2, <2>1 DEF Longer
    <3>2. \A j \in 1 .. l + 1 : rs[j].type = "result" => j \in 1 .. l /\ rs[j] = res[j]
      BY <1>2 DEF Longer
    <3>3. 1 \in 1 .. n + 1
      OBVIOUS
    <3> QED
      BY <1>3, <1>5, <1>8, <2>1, <3>1, <3>2, <3>3
  <2> QED
    BY <1>1, <1>2, <2>1 DEF ResultsClean, Longer, Shorter
<1>10. \A k, i : Ending(w, res, k, i) => Ending(x, rs, k, i)
  BY <1>2 DEF Ending, Longer
<1>11. StartsClean(x, rs)
  <2>1. ASSUME NEW i \in 1 .. l + 1
        PROVE  /\ rs[i].type # "fatal" /\ rs[i].gen = 0
               /\ rs[i].type = "started" => Ending(x, rs, rs[i].key, i)
    <3>1. CASE i = l + 1
      BY <1>2, <3>1 DEF Longer, Ending, Clean
    <3>2. CASE i # l + 1
      BY <1>2, <1>10, <3>2 DEF Longer, StartsClean, Clean
    <3> QED
      BY <3>1, <3>2
  <2> QED
    BY <1>2, <2>1 DEF StartsClean, Longer
<1> QED
  BY <1>6, <1>7, <1>9, <1>10, <1>11 DEF Clean, FlightClean, r, rs

\* The worker ends the task at work.
LEMMA CheckClean ==
    ASSUME NEW v, NEW q, NEW w, NEW x, NEW res \in Seq(MessageType),
           NEW sp, NEW p, NEW m \in MessageType,
           Clean(v, q, w, res, sp, p), Holds(w), ~ Holds(x), x.gen = w.gen,
           m.type = "result", m.key = w.key, m.content = w.content, m.gen = w.gen
    PROVE  Clean(v, q, x, Append(res, m), sp, p)
<1> DEFINE rs == Append(res, m)
<1>1. PICK l \in Nat : Longer(res, rs, l, m)
  BY AppendIs
<1> HIDE DEF rs
<1>2. /\ w.key \in Pending(v) /\ Of(v.conn, w.content) /\ \A i \in DOMAIN q : q[i] # w.key
  BY DEF Clean, BusyClean
<1>3. ASSUME NEW i \in 1 .. l, res[i].type = "result"
      PROVE  /\ res[i].key \in Pending(v) /\ Of(v.conn, res[i].content)
             /\ \A j \in DOMAIN q : q[j] # res[i].key
             /\ res[i].key # w.key
             /\ \A j \in 1 .. l : res[j].type = "result" /\ res[j].key = res[i].key => j = i
  BY <1>1, <1>3 DEF Clean, ResultsClean, Longer
<1>4. ResultsClean(v, q, x, rs)
  <2>1. ASSUME NEW i \in 1 .. l + 1, rs[i].type = "result"
        PROVE  /\ rs[i].key \in Pending(v) /\ Of(v.conn, rs[i].content)
               /\ \A j \in DOMAIN q : q[j] # rs[i].key
               /\ \A j \in 1 .. l + 1 : rs[j].type = "result" /\ rs[j].key = rs[i].key => j = i
    <3>1. \A j \in 1 .. l + 1 : \/ j \in 1 .. l /\ rs[j] = res[j]
                                \/ j = l + 1 /\ rs[j] = m
      BY <1>1 DEF Longer
    <3>2. CASE i = l + 1 /\ rs[i] = m
      <4>1. \A j \in 1 .. l + 1 : rs[j].type = "result" /\ rs[j].key = m.key => j = l + 1
        BY <1>3, <3>1
      <4> QED
        BY <1>2, <3>2, <4>1
    <3>3. CASE i \in 1 .. l /\ rs[i] = res[i]
      <4>1. \A j \in 1 .. l + 1 : rs[j].type = "result" /\ rs[j].key = res[i].key
              => j \in 1 .. l /\ rs[j] = res[j]
        BY <1>3, <2>1, <3>1, <3>3
      <4> QED
        BY <1>3, <2>1, <3>3, <4>1
    <3> QED
      BY <3>1, <3>2, <3>3
  <2> QED
    BY <1>1, <2>1 DEF ResultsClean, Longer
<1>5. ASSUME NEW k, NEW i, i \in 0 .. l, Ending(w, res, k, i)
      PROVE  Ending(x, rs, k, i)
  <2>1. CASE w.key = k
    <3>1. l + 1 > i /\ l + 1 \in DOMAIN rs /\ rs[l + 1] = m
      BY <1>1, <1>5 DEF Longer
    <3> QED
      BY <2>1, <3>1 DEF Ending
  <2>2. CASE w.key # k
    BY <1>1, <1>5, <2>2 DEF Ending, Longer
  <2> QED
    BY <2>1, <2>2
<1>6. StartsClean(x, rs)
  <2>1. ASSUME NEW i \in 1 .. l + 1
        PROVE  /\ rs[i].type # "fatal" /\ rs[i].gen = 0
               /\ rs[i].type = "started" => Ending(x, rs, rs[i].key, i)
    <3>1. CASE i = l + 1
      BY <1>1, <3>1 DEF Longer, Clean
    <3>2. CASE i # l + 1
      <4>1. i \in 1 .. l /\ i \in 0 .. l /\ rs[i] = res[i] /\ i \in DOMAIN res
        BY <1>1, <3>2 DEF Longer
      <4> QED
        BY <1>5, <4>1 DEF StartsClean, Clean
    <3> QED
      BY <3>1, <3>2
  <2> QED
    BY <1>1, <2>1 DEF StartsClean, Longer
<1>7. FlightClean(x, rs, p)
  <2>1. 0 \in 0 .. l
    OBVIOUS
  <2> QED
    BY <1>5, <2>1 DEF Clean, FlightClean
<1> QED
  BY <1>4, <1>6, <1>7 DEF Clean, BusyClean, rs
\* The coordinator reads the next message.  Nothing of a task is left in the
\* queue or at work when its result is read.
LEMMA DrainClean ==
    ASSUME NEW v, NEW u, NEW q, NEW w, NEW res \in Seq(MessageType),
           NEW sp, NEW sq, NEW p, NEW y, res # <<>>,
           Clean(v, q, w, res, sp, p), Head(res).key # NoKey,
           \A i \in DOMAIN q : q[i] \in Keys,
           u.conn = v.conn, u.expected = v.expected,
           u.completed = v.completed \cup
               IF Head(res).type = "result"
                 THEN {[key |-> Head(res).key, content |-> Head(res).content]} ELSE {},
           y.gen = p.gen,
           Head(res).type = "started" => y.inflight = Head(res).key,
           Head(res).type = "result" =>
               y.inflight = IF p.inflight = Head(res).key THEN NoKey ELSE p.inflight,
           \/ sq = sp
           \/ p.inflight # NoKey /\ \A k \in Keys : k # p.inflight => sq[k] = sp[k]
    PROVE  Clean(u, q, w, Tail(res), sq, y)
<1> DEFINE m == Head(res)
           rs == Tail(res)
<1>1. PICK n \in Nat : Shorter(res, rs, n)
  BY TailIs
<1>2. m = res[1] /\ m \in MessageType
  BY TailIs
<1> HIDE DEF rs, m
<1>3. /\ DOMAIN res = 1 .. n + 1 /\ DOMAIN rs = 1 .. n /\ 1 \in 1 .. n + 1
      /\ \A i \in 1 .. n : rs[i] = res[i + 1] /\ i + 1 \in 1 .. n + 1
  BY <1>1 DEF Shorter
<1>4. m.type \in {"started", "result"} /\ m.gen = 0
  BY <1>2, <1>3 DEF Clean, StartsClean, MessageType
<1>5. ASSUME NEW i \in 1 .. n + 1, res[i].type = "result"
      PROVE  /\ res[i].key \in Pending(v) /\ Of(v.conn, res[i].content)
             /\ \A j \in DOMAIN q : q[j] # res[i].key
             /\ ~ (Holds(w) /\ w.key = res[i].key)
             /\ \A j \in 1 .. n + 1 : res[j].type = "result" /\ res[j].key = res[i].key => j = i
  BY <1>3, <1>5 DEF Clean, ResultsClean
<1>6. Pending(u) = Pending(v) \ IF m.type = "result" THEN {m.key} ELSE {}
  <2>1. CASE m.type = "result"
    <3> DEFINE x == [key |-> m.key, content |-> m.content]
    <3>1. u.completed = v.completed \cup {x} /\ x.key = m.key
      BY <2>1 DEF m
    <3> HIDE DEF x
    <3>2. KeysOf(u.completed) = KeysOf(v.completed) \cup {m.key}
      BY <3>1 DEF KeysOf
    <3> QED
      BY <2>1, <3>2 DEF Pending
  <2>2. CASE m.type # "result"
    BY <2>2 DEF m, Pending
  <2> QED
    BY <2>1, <2>2
<1>7. \A i \in 1 .. n : i + 1 # 1
  OBVIOUS
<1>8. \A i \in 1 .. n : m.type = "result" /\ rs[i].type = "result" => rs[i].key # m.key
  BY <1>2, <1>3, <1>5, <1>7
<1>9. ResultsClean(u, q, w, rs)
  <2>1. ASSUME NEW i \in 1 .. n, rs[i].type = "result"
        PROVE  /\ rs[i].key \in Pending(u) /\ Of(u.conn, rs[i].content)
               /\ \A j \in DOMAIN q : q[j] # rs[i].key
               /\ ~ (Holds(w) /\ w.key = rs[i].key)
               /\ \A j \in 1 .. n : rs[j].type = "result" /\ rs[j].key = rs[i].key => j = i
    <3>1. rs[i] = res[i + 1] /\ i + 1 \in 1 .. n + 1
      BY <1>3
    <3>2. ASSUME NEW j \in 1 .. n, rs[j].type = "result", rs[j].key = rs[i].key
          PROVE  j = i
      <4>1. j + 1 = i + 1
        BY <1>3, <1>5, <2>1, <3>1, <3>2
      <4> QED
        BY <4>1
    <3>3. rs[i].key \in Pending(u)
      BY <1>5, <1>6, <1>8, <2>1, <3>1
    <3> QED
      BY <1>5, <2>1, <3>1, <3>2, <3>3
  <2> QED
    BY <1>3, <2>1 DEF ResultsClean
<1>10. BusyClean(u, q, w)
  <2>1. Holds(w) /\ m.type = "result" => w.key # m.key
    BY <1>2, <1>3, <1>5
  <2> QED
    BY <1>6, <2>1 DEF Clean, BusyClean
<1>11. \A k, i : Ending(w, res, k, i) /\ i \in 0 .. n + 1 /\ i # 0
         => Ending(w, rs, k, i - 1)
  <2>1. ASSUME NEW k, NEW i \in 1 .. n + 1, NEW j \in 1 .. n + 1, j > i,
               res[j].type = "result", res[j].key = k
        PROVE  Ending(w, rs, k, i - 1)
    <3>1. j - 1 \in 1 .. n /\ j - 1 > i - 1 /\ (j - 1) + 1 = j
      BY <2>1
    <3>2. rs[j - 1] = res[j]
      BY <1>3, <3>1
    <3> QED
      BY <1>3, <2>1, <3>1, <3>2 DEF Ending
  <2>2. SUFFICES ASSUME NEW k, NEW i, Ending(w, res, k, i), i \in 0 .. n + 1, i # 0
                 PROVE  Ending(w, rs, k, i - 1)
    OBVIOUS
  <2>3. i \in 1 .. n + 1
    BY <2>2
  <2>4. CASE Holds(w) /\ w.key = k
    BY <2>4 DEF Ending
  <2>5. CASE ~ (Holds(w) /\ w.key = k)
    <3>1. PICK j \in 1 .. n + 1 : j > i /\ res[j].type = "result" /\ res[j].key = k
      BY <1>3, <2>2, <2>5 DEF Ending
    <3> QED
      BY <2>1, <2>3, <3>1
  <2> QED
    BY <2>4, <2>5
<1>12. StartsClean(w, rs)
  <2>1. ASSUME NEW i \in 1 .. n
        PROVE  /\ rs[i].type # "fatal" /\ rs[i].gen = 0
               /\ rs[i].type = "started" => Ending(w, rs, rs[i].key, i)
    <3>1. rs[i] = res[i + 1] /\ i + 1 \in 1 .. n + 1 /\ (i + 1) - 1 = i
          /\ i + 1 \in 0 .. n + 1 /\ i + 1 # 0
      BY <1>3
    <3>2. /\ rs[i].type # "fatal" /\ rs[i].gen = 0
          /\ rs[i].type = "started" => Ending(w, res, rs[i].key, i + 1)
      BY <1>3, <3>1 DEF Clean, StartsClean
    <3>3. Ending(w, res, rs[i].key, i + 1) => Ending(w, rs, rs[i].key, (i + 1) - 1)
      BY <1>11, <3>1
    <3> QED
      BY <3>1, <3>2, <3>3
  <2> QED
    BY <1>3, <2>1 DEF StartsClean
<1>13. FlightClean(w, rs, y)
  <2>1. CASE m.type = "started"
    <3>1. Ending(w, res, m.key, 1)
      BY <1>2, <1>3, <2>1 DEF Clean, StartsClean
    <3>2. 1 \in 0 .. n + 1 /\ 1 # 0 /\ 1 - 1 = 0
      OBVIOUS
    <3>3. Ending(w, rs, m.key, 1 - 1)
      BY <1>11, <3>1, <3>2
    <3>4. y.inflight = m.key
      BY <2>1 DEF m
    <3> QED
      BY <3>2, <3>3, <3>4 DEF FlightClean
  <2>2. CASE m.type = "result"
    <3>1. y.inflight = IF p.inflight = m.key THEN NoKey ELSE p.inflight
      BY <2>2 DEF m
    <3>2. ASSUME p.inflight # NoKey, p.inflight # m.key
          PROVE  Ending(w, rs, p.inflight, 0)
      <4>1. Ending(w, res, p.inflight, 0)
        BY <3>2 DEF Clean, FlightClean
      <4>2. CASE Holds(w) /\ w.key = p.inflight
        BY <4>2 DEF Ending
      <4>3. ASSUME NEW j \in 1 .. n + 1, res[j].type = "result", res[j].key = p.inflight
            PROVE  Ending(w, rs, p.inflight, 0)
        <5>1. j # 1
          BY <1>2, <3>2, <4>3
        <5>2. j - 1 \in 1 .. n /\ j - 1 > 0 /\ (j - 1) + 1 = j
          BY <5>1
        <5>3. rs[j - 1] = res[j]
          BY <1>3, <5>2
        <5> QED
          BY <1>3, <4>3, <5>2, <5>3 DEF Ending
      <4> QED
        BY <1>3, <4>1, <4>2, <4>3 DEF Ending
    <3> QED
      BY <3>1, <3>2 DEF FlightClean
  <2> QED
    BY <1>4, <2>1, <2>2
<1>14. p.inflight # NoKey => \A i \in DOMAIN q : q[i] # p.inflight
  <2>1. ASSUME p.inflight # NoKey, NEW i \in DOMAIN q, q[i] = p.inflight
        PROVE  FALSE
    <3>1. Ending(w, res, p.inflight, 0)
      BY <2>1 DEF Clean, FlightClean
    <3>2. ~ (Holds(w) /\ w.key = p.inflight)
      BY <2>1 DEF Clean, BusyClean
    <3>3. \A j \in 1 .. n + 1 : ~ (res[j].type = "result" /\ res[j].key = p.inflight)
      BY <1>5, <2>1
    <3> QED
      BY <1>3, <3>1, <3>2, <3>3 DEF Ending
  <2> QED
    BY <2>1
<1>15. QueueClean(u, q, sq)
  <2>1. \A i \in DOMAIN q : sq[q[i]] = sp[q[i]]
    BY <1>14
  <2>2. \A i \in DOMAIN q : m.type = "result" => q[i] # m.key
    BY <1>2, <1>3, <1>5
  <2> QED
    BY <1>6, <2>1, <2>2 DEF Clean, QueueClean
<1>16. \A c \in u.completed : Of(u.conn, c.content)
  <2>1. m.type = "result" => Of(v.conn, m.content)
    BY <1>2, <1>3, <1>5
  <2> QED
    BY <2>1 DEF Clean, m
<1> QED
  BY <1>9, <1>10, <1>12, <1>13, <1>15, <1>16 DEF Clean, rs
\* Only a replaced worker, or the fatal error that spares it, ends Untouched.
LEMMA CleanFrame ==
    ASSUME NEW s \in Services, CleanAt(s), pool'[s] = pool[s], queue'[s] = queue[s],
           worker'[s] = worker[s], results'[s] = results[s], spool'[s] = spool[s],
           \/ /\ svc'[s].completed = svc[s].completed /\ svc'[s].expected = svc[s].expected
              /\ svc'[s].conn = svc[s].conn
           \/ /\ Untouched(pool[s]) => Pending(svc[s]) = {}
              /\ svc'[s].completed = {} /\ svc'[s].expected = {}
    PROVE  CleanAt(s)'
<1> SUFFICES ASSUME Untouched(pool[s])
             PROVE  Clean(svc'[s], queue[s], worker[s], results[s], spool[s], pool[s])
  BY DEF CleanAt
<1>1. Clean(svc[s], queue[s], worker[s], results[s], spool[s], pool[s])
  BY DEF CleanAt
<1> QED
  BY <1>1, SameBatchClean, BetweenBatches

\* A step of one service
LEMMA OthersClean ==
    ASSUME CleanInv, NEW s \in Services, CleanAt(s)',
           \A u \in Services \ {s} :
               /\ svc'[u] = svc[u] /\ pool'[u] = pool[u] /\ queue'[u] = queue[u]
               /\ worker'[u] = worker[u] /\ results'[u] = results[u] /\ spool'[u] = spool[u]
    PROVE  CleanInv'
BY CleanFrame DEF CleanInv

LEMMA QuietKeepsClean ==
    ASSUME CleanInv, NEW s \in Services, UNCHANGED poolVars,
           \A u \in Services \ {s} : svc'[u] = svc[u],
           \/ /\ svc'[s].completed = svc[s].completed /\ svc'[s].expected = svc[s].expected
              /\ svc'[s].conn = svc[s].conn
           \/ /\ Untouched(pool[s]) => Pending(svc[s]) = {}
              /\ svc'[s].completed = {} /\ svc'[s].expected = {}
    PROVE  CleanInv'
<1>1. CleanAt(s)'
  BY CleanFrame DEF CleanInv, poolVars
<1> QED
  BY <1>1, OthersClean DEF poolVars

LEMMA ServiceStepClean ==
    ASSUME TypeInv, ConnInv, BatchInv, CleanInv, NEW s \in Services,
           ServiceStep(s) \/ Stop(s)
    PROVE  CleanInv'
<1>1. svc \in [Services -> ServiceType] /\ svc[s] \in ServiceType /\ RequestAt(s)
  BY DEF TypeInv, ServiceTypes, BatchInv
<1>2. svc[s].pc # "run_batch" =>
        Pending(svc[s]) = {} /\ svc[s].completed = {} /\ svc[s].expected = {}
  BY <1>1 DEF RequestAt, Pending
<1>3. CASE Boot(s)
  BY <1>1, <1>2, <1>3, QuietKeepsClean DEF Boot, Idle
<1>4. ASSUME Close(s), UNCHANGED poolVars, svc[s].pc = "listening"
      PROVE  CleanInv'
  <2>1. /\ svc'[s].completed = {} /\ svc'[s].expected = {}
        /\ \A u \in Services \ {s} : svc'[u] = svc[u]
    BY <1>1, <1>4 DEF Close, Idle
  <2> QED
    BY <1>2, <1>4, <2>1, QuietKeepsClean
<1>5. CASE Accept(s)
  <2>1. UNCHANGED poolVars /\ svc[s].pc = "listening"
    BY <1>5 DEF Accept
  <2>2. CASE Current(Head(backlog[s]))
    <3>1. /\ svc'[s].expected = svc[s].expected /\ svc'[s].completed = svc[s].completed
          /\ \A u \in Services \ {s} : svc'[u] = svc[u]
      BY <1>5, <2>2, AcceptFacts
    <3> QED
      BY <1>2, <2>1, <3>1, QuietKeepsClean
  <2>3. CASE ~ Current(Head(backlog[s]))
    BY <1>4, <1>5, <2>1, <2>3 DEF Accept
  <2> QED
    BY <2>2, <2>3
<1>6. ASSUME NEW verdicts, Reply(s, verdicts), UNCHANGED poolVars,
             Untouched(pool[s]) => Pending(svc[s]) = {}
      PROVE  CleanInv'
  <2>1. /\ svc'[s].completed = {} /\ svc'[s].expected = {}
        /\ \A u \in Services \ {s} : svc'[u] = svc[u]
    BY <1>1, <1>6 DEF Reply, Idle
  <2> QED
    BY <1>6, <2>1, QuietKeepsClean
<1>7. CASE ReplySnapshot(s)
  BY <1>2, <1>6, <1>7 DEF ReplySnapshot
<1>8. CASE ReplyBatch(s)
  <2>1. Untouched(pool[s]) => Pending(svc[s]) = {}
    BY <1>8 DEF ReplyBatch, BatchComplete, Pending, KeysOf, Untouched
  <2> QED
    BY <1>6, <1>8, <2>1 DEF ReplyBatch
<1>9. CASE Exit(s)
  BY <1>4, <1>9 DEF Exit
<1>10. CASE Stop(s)
  <2>1. /\ svc'[s].completed = svc[s].completed /\ svc'[s].expected = svc[s].expected
        /\ svc'[s].conn = svc[s].conn /\ \A u \in Services \ {s} : svc'[u] = svc[u]
    BY <1>1, <1>10 DEF Stop, ServiceType
  <2> QED
    BY <1>10, <2>1, QuietKeepsClean DEF Stop
<1>11. CASE Submit(s)
  <2>1. PICK t \in svc[s].conn.tasks :
          /\ spool' = [spool EXCEPT ![s][t.key] = t.content]
          /\ queue' = [queue EXCEPT ![s] = Append(@, t.key)]
          /\ svc' = [svc EXCEPT ![s].conn.tasks = @ \ {t}, ![s].expected = @ \cup {t.key}]
    BY <1>11 DEF Submit
  <2>2. UNCHANGED <<pool, worker, results>> /\ svc[s].pc = "run_batch"
    BY <1>11 DEF Submit
  <2>3. svc[s].conn \in RequestType
    BY <1>1, <2>2, Records DEF ConnInv, Serving, ServingAt, ServiceType
  <2> DEFINE v == [svc[s] EXCEPT !.conn.tasks = @ \ {t}, !.expected = @ \cup {t.key}]
  <2>4. /\ v.conn = [svc[s].conn EXCEPT !.tasks = @ \ {t}] /\ v.completed = svc[s].completed
        /\ v.expected = svc[s].expected \cup {t.key}
    BY <1>1 DEF ServiceType
  <2>5. svc'[s] = v /\ \A u \in Services \ {s} : svc'[u] = svc[u]
    BY <1>1, <2>1
  <2> HIDE DEF v
  <2>6. v.conn.life = svc[s].conn.life /\ v.conn.rank = svc[s].conn.rank
    BY <2>3, <2>4 DEF RequestType
  <2>7. t.key \in Keys /\ t.key \notin svc[s].expected /\ Of(svc[s].conn, t.content)
    <3>1. t.key \in Keys
      BY <2>3 DEF RequestType, TaskType
    <3>2. t.key \in KeysOf(svc[s].conn.tasks) /\ svc[s].conn \in Requests(s)
      BY DEF KeysOf, Requests
    <3> QED
      BY <1>1, <3>1, <3>2 DEF RequestAt
  <2>8. /\ queue[s] \in Seq(Keys) /\ queue'[s] = Append(queue[s], t.key)
        /\ \A k \in Keys : spool'[s][k] = IF k = t.key THEN t.content ELSE spool[s][k]
        /\ \A u \in Services \ {s} : queue'[u] = queue[u] /\ spool'[u] = spool[u]
    BY <2>1, <2>7 DEF TypeInv, PoolTypes
  <2>9. CleanAt(s)'
    <3> SUFFICES ASSUME Untouched(pool[s])
                 PROVE  Clean(v, Append(queue[s], t.key), worker[s], results[s], spool'[s], pool[s])
      BY <2>2, <2>5, <2>8 DEF CleanAt
    <3>1. Clean(svc[s], queue[s], worker[s], results[s], spool[s], pool[s])
      BY DEF CleanInv, CleanAt
    <3>2. KeysOf(svc[s].completed) \subseteq svc[s].expected
      BY <1>1 DEF RequestAt
    <3> QED
      BY <2>4, <2>6, <2>7, <2>8, <3>1, <3>2, SubmitClean
  <2> QED
    BY <2>2, <2>5, <2>8, <2>9, OthersClean
<1> QED
  BY <1>3, <1>5, <1>7, <1>8, <1>9, <1>10, <1>11 DEF ServiceStep

LEMMA PoolStepClean ==
    ASSUME TypeInv, ConnInv, BatchInv, CleanInv, NEW s \in Services,
           PoolStep(s) \/ Dies(s) \/ StaleHeartbeat(s)
    PROVE  CleanInv'
<1>1. /\ queue[s] \in Seq(Keys) /\ results[s] \in Seq(MessageType)
      /\ worker[s] \in WorkerType /\ pool[s] \in PoolType /\ spool[s] \in [Keys -> Contents]
      /\ \A i \in DOMAIN queue[s] : queue[s][i] \in Keys
  BY DEF TypeInv, PoolTypes
<1>2. Untouched(pool[s]) => Clean(svc[s], queue[s], worker[s], results[s], spool[s], pool[s])
  BY DEF CleanInv, CleanAt
<1>3. CASE Take(s)
  <2> DEFINE key == Head(queue[s])
             content == spool[s][key]
             type == IF content = Gone THEN "fatal" ELSE "started"
             m == Message(type, s, key, content, FALSE)
  <2>1. /\ worker' = [worker EXCEPT ![s] =
               [@ EXCEPT !.state = IF content = Gone THEN "dead" ELSE "busy",
                         !.key = key, !.content = content]]
        /\ results' = [results EXCEPT ![s] = Append(@, m)]
        /\ queue' = [queue EXCEPT ![s] = Tail(@)]
        /\ queue[s] # <<>> /\ worker[s].state = "idle"
        /\ UNCHANGED <<clientVars, svc, backlog, pool, spool>>
    BY <1>3 DEF Take
  <2>2. key \in Keys /\ content \in Contents /\ key = queue[s][1] /\ 1 \in DOMAIN queue[s]
    BY <1>1, <2>1
  <2>3. Untouched(pool[s]) => content # Gone
    <3>1. SUFFICES ASSUME Untouched(pool[s]) PROVE content # Gone
      OBVIOUS
    <3>2. key \in Pending(svc[s]) /\ Of(svc[s].conn, content)
      BY <1>2, <2>2, <3>1 DEF Clean, QueueClean
    <3>3. svc[s].pc = "run_batch"
      BY <3>2 DEF Pending, BatchInv, RequestAt
    <3>4. svc[s].conn \in RequestType
      BY <3>3, Records DEF TypeInv, ServiceTypes, ConnInv, Serving, ServingAt, ServiceType
    <3>5. content[1] # 0
      BY <3>2, <3>4 DEF Of, RequestType
    <3> QED
      BY <3>5 DEF Gone
  <2> HIDE DEF content
  <2>4. /\ m \in MessageType /\ m.type = type /\ m.key = key /\ m.gen = worker[s].gen
    BY <1>1, <2>2 DEF Message, MessageType, WorkerType
  <2>5. /\ worker'[s].state = IF content = Gone THEN "dead" ELSE "busy"
        /\ worker'[s].key = key /\ worker'[s].content = content
        /\ worker'[s].gen = worker[s].gen
    BY <1>1, <2>1 DEF TypeInv, PoolTypes, WorkerType
  <2>6. /\ queue'[s] = Tail(queue[s]) /\ results'[s] = Append(results[s], m)
        /\ \A u \in Services \ {s} : /\ svc'[u] = svc[u] /\ pool'[u] = pool[u]
                                     /\ queue'[u] = queue[u] /\ worker'[u] = worker[u]
                                     /\ results'[u] = results[u] /\ spool'[u] = spool[u]
    BY <2>1 DEF TypeInv, PoolTypes
  <2> HIDE DEF m
  <2>7. CleanAt(s)'
    <3> SUFFICES ASSUME Untouched(pool[s])
                 PROVE  Clean(svc[s], Tail(queue[s]), worker'[s], Append(results[s], m),
                              spool[s], pool[s])
      BY <2>1, <2>6 DEF CleanAt
    <3> QED
      <4>1. ~ Holds(worker[s]) /\ Holds(worker'[s])
        BY <2>1, <2>3, <2>5 DEF Holds
      <4> QED
        BY <1>1, <1>2, <2>1, <2>3, <2>4, <2>5, <4>1, TakeClean DEF content
  <2> QED
    BY <2>6, <2>7, OthersClean
<1>4. CASE Check(s)
  <2>1. PICK success \in BOOLEAN : results' = [results EXCEPT ![s] = Append(@,
            Message("result", s, worker[s].key, worker[s].content, success))]
    BY <1>4 DEF Check
  <2> DEFINE m == Message("result", s, worker[s].key, worker[s].content, success)
  <2>2. /\ worker' = [worker EXCEPT ![s].state = "idle"] /\ worker[s].state = "busy"
        /\ UNCHANGED <<clientVars, svc, backlog, pool, queue, spool>>
    BY <1>4 DEF Check
  <2>3. worker[s].key \in Keys
    BY <2>2 DEF TypeInv, PoolTypes
  <2>4. /\ m \in MessageType /\ m.type = "result" /\ m.key = worker[s].key
        /\ m.content = worker[s].content /\ m.gen = worker[s].gen
    BY <1>1, <2>3 DEF Message, MessageType, WorkerType
  <2>5. worker'[s].state = "idle" /\ worker'[s].gen = worker[s].gen
    BY <1>1, <2>2 DEF TypeInv, PoolTypes, WorkerType
  <2>6. /\ results'[s] = Append(results[s], m)
        /\ \A u \in Services \ {s} : /\ svc'[u] = svc[u] /\ pool'[u] = pool[u]
                                     /\ queue'[u] = queue[u] /\ worker'[u] = worker[u]
                                     /\ results'[u] = results[u] /\ spool'[u] = spool[u]
    BY <2>1, <2>2 DEF TypeInv, PoolTypes
  <2> HIDE DEF m
  <2>7. CleanAt(s)'
    <3> SUFFICES ASSUME Untouched(pool[s])
                 PROVE  Clean(svc[s], queue[s], worker'[s], Append(results[s], m),
                              spool[s], pool[s])
      BY <2>2, <2>6 DEF CleanAt
    <3> QED
      <4>1. Holds(worker[s]) /\ ~ Holds(worker'[s])
        BY <2>2, <2>5 DEF Holds
      <4> QED
        BY <1>1, <1>2, <2>4, <2>5, <4>1, CheckClean
  <2> QED
    BY <2>6, <2>7, OthersClean
<1>5. ASSUME Restart(s, pool[s])
      PROVE  ~ Untouched(pool'[s])
  <2>1. pool'[s] = Restarted(s, pool[s]).pool
    BY <1>5, RestartedWorker DEF TypeInv
  <2> DEFINE p == Restarted(s, pool[s]).pool
  <2>2. p.restarts > 0 \/ p.fatal
    BY <1>1, RestartedTypes
  <2> HIDE DEF p
  <2> QED
    BY <2>1, <2>2 DEF Untouched, p
<1>6. CASE DeadReplaced(s) \/ StaleHeartbeat(s)
  <2>1. Restart(s, pool[s]) /\ UNCHANGED <<svc, results, spool>>
    BY <1>6 DEF DeadReplaced, StaleHeartbeat
  <2>2. CleanAt(s)'
    BY <1>5, <2>1 DEF CleanAt
  <2> QED
    BY <2>1, <2>2, RestartedWorker, OthersClean DEF TypeInv
<1>7. CASE Drain(s)
  <2> DEFINE m == Head(results[s])
             p == pool[s]
             accepted == m.type = "result" /\ m.key \in svc[s].expected
                           /\ \A v \in svc[s].completed : v.key # m.key
  <2>1. /\ results[s] # <<>> /\ results' = [results EXCEPT ![s] = Tail(@)]
        /\ \/ spool' = spool
           \/ p.inflight # NoKey /\ spool' = [spool EXCEPT ![s][p.inflight] = Gone]
        /\ CASE m.type = "fatal" /\ m.gen = p.gen -> Restart(s, p)
             [] m.type = "started" /\ m.gen = p.gen ->
                  pool' = [pool EXCEPT ![s].inflight = m.key] /\ UNCHANGED <<queue, worker>>
             [] m.type = "result" /\ m.gen = p.gen /\ p.inflight = m.key ->
                  pool' = [pool EXCEPT ![s].inflight = NoKey] /\ UNCHANGED <<queue, worker>>
             [] OTHER -> UNCHANGED <<pool, queue, worker>>
    BY <1>7 DEF Drain
  <2>2. /\ svc'[s].conn = svc[s].conn /\ svc'[s].expected = svc[s].expected
        /\ \A u \in Services \ {s} : svc'[u] = svc[u]
        /\ svc'[s].completed = svc[s].completed \cup
             IF accepted THEN {[key |-> m.key, content |-> m.content]} ELSE {}
    BY <1>7, DrainedService
  <2>3. m \in MessageType /\ m = results[s][1] /\ 1 \in DOMAIN results[s]
    BY <1>1, <2>1
  <2> HIDE DEF m, p
  <2>4. /\ m.key \in Keys /\ m.key # NoKey /\ m.gen \in Nat
        /\ m.type \in {"started", "result", "fatal"}
    BY <2>3 DEF MessageType, Keys, NoKey
  <2>5. /\ pool \in [Services -> PoolType] /\ p = pool[s] /\ p \in PoolType
        /\ p.inflight # NoKey => p.inflight \in Keys
    BY DEF TypeInv, PoolTypes, PoolType, p
  <2>6. /\ results'[s] = Tail(results[s])
        /\ \A u \in Services \ {s} : results'[u] = results[u] /\ spool'[u] = spool[u]
        /\ \/ spool'[s] = spool[s]
           \/ /\ p.inflight # NoKey
              /\ \A k \in Keys : k # p.inflight => spool'[s][k] = spool[s][k]
    BY <2>1, <2>5 DEF TypeInv, PoolTypes
  <2>7. \A u \in Services \ {s} :
            pool'[u] = pool[u] /\ queue'[u] = queue[u] /\ worker'[u] = worker[u]
    <3>1. CASE m.type = "fatal" /\ m.gen = p.gen
      BY <2>1, <2>5, <3>1, RestartedWorker DEF TypeInv
    <3>2. CASE ~ (m.type = "fatal" /\ m.gen = p.gen)
      BY <2>1, <2>5, <3>2
    <3> QED
      BY <3>1, <3>2
  <2>8. CleanAt(s)'
    <3>1. SUFFICES ASSUME Untouched(pool'[s])
                   PROVE  Clean(svc'[s], queue'[s], worker'[s], results'[s], spool'[s], pool'[s])
      BY DEF CleanAt
    <3>2. /\ ~ (m.type = "fatal" /\ m.gen = p.gen)
          /\ UNCHANGED <<queue, worker>>
          /\ \/ pool' = pool
             \/ pool' = [pool EXCEPT ![s].inflight = m.key]
             \/ pool' = [pool EXCEPT ![s].inflight = NoKey]
      BY <1>5, <2>1, <2>4, <2>5, <3>1
    <3>3. /\ pool'[s].restarts = p.restarts /\ pool'[s].fatal = p.fatal
          /\ pool'[s].gen = p.gen
      BY <2>5, <3>2 DEF PoolType
    <3>4. Clean(svc[s], queue[s], worker[s], results[s], spool[s], p)
      BY <1>2, <2>5, <3>1, <3>3 DEF Untouched
    <3>5. m.gen = p.gen /\ m.type \in {"started", "result"}
      BY <2>3, <2>4, <3>4 DEF Clean, StartsClean
    <3>6. /\ m.type = "started" => pool'[s].inflight = m.key
          /\ m.type = "result" =>
               pool'[s].inflight = IF p.inflight = m.key THEN NoKey ELSE p.inflight
      <4>1. CASE m.type = "started"
        BY <2>1, <2>5, <3>5, <4>1 DEF PoolType
      <4>2. CASE m.type = "result" /\ p.inflight = m.key
        BY <2>1, <2>5, <3>5, <4>2 DEF PoolType
      <4>3. CASE m.type = "result" /\ p.inflight # m.key
        BY <2>1, <2>5, <3>5, <4>3
      <4> QED
        BY <3>5, <4>1, <4>2, <4>3
    <3>7. m.type = "result" => accepted
      <4>1. m.type = "result" => m.key \in Pending(svc[s])
        BY <2>3, <3>4 DEF Clean, ResultsClean
      <4> QED
        BY <4>1 DEF Pending, KeysOf
    <3>8. svc'[s].completed = svc[s].completed \cup
            IF m.type = "result" THEN {[key |-> m.key, content |-> m.content]} ELSE {}
      BY <2>2, <3>7
    <3>9. queue'[s] = queue[s] /\ worker'[s] = worker[s] /\ Head(results[s]) = m
      BY <3>2 DEF m
    <3>10. Clean(svc'[s], queue[s], worker[s], Tail(results[s]), spool'[s], pool'[s])
      <4> DEFINE v == svc'[s]
                 sq == spool'[s]
                 y == pool'[s]
      <4>1. /\ v.conn = svc[s].conn /\ v.expected = svc[s].expected
            /\ v.completed = svc[s].completed \cup
                 IF Head(results[s]).type = "result"
                   THEN {[key |-> Head(results[s]).key, content |-> Head(results[s]).content]}
                   ELSE {}
        BY <2>2, <3>8, <3>9
      <4>2. /\ y.gen = p.gen
            /\ Head(results[s]).type = "started" => y.inflight = Head(results[s]).key
            /\ Head(results[s]).type = "result" => y.inflight =
                 IF p.inflight = Head(results[s]).key THEN NoKey ELSE p.inflight
        BY <3>3, <3>6, <3>9
      <4>3. /\ results[s] \in Seq(MessageType) /\ results[s] # <<>>
            /\ Head(results[s]).key # NoKey /\ \A i \in DOMAIN queue[s] : queue[s][i] \in Keys
        BY <1>1, <2>1, <2>4, <3>9
      <4>4. \/ sq = spool[s]
            \/ p.inflight # NoKey /\ \A k \in Keys : k # p.inflight => sq[k] = spool[s][k]
        BY <2>6
      <4> HIDE DEF v, sq, y
      <4>5. Clean(v, queue[s], worker[s], Tail(results[s]), sq, y)
        BY <3>4, <4>1, <4>2, <4>3, <4>4, DrainClean
      <4> QED
        BY <4>5 DEF v, sq, y
    <3> QED
      BY <2>6, <3>9, <3>10
  <2> QED
    BY <2>2, <2>6, <2>7, <2>8, OthersClean
<1>8. CASE Dies(s)
  <2>1. /\ worker'[s].gen = worker[s].gen /\ (Holds(worker'[s]) <=> Holds(worker[s]))
        /\ worker'[s].content = worker[s].content
        /\ Holds(worker[s]) => worker'[s].key = worker[s].key
        /\ \A u \in Services \ {s} : worker'[u] = worker[u]
        /\ UNCHANGED <<svc, pool, queue, results, spool>>
    <3> DEFINE w == [worker[s] EXCEPT !.state = "dead",
                        !.key = IF worker[s].state = "busy" THEN worker[s].key ELSE NoKey]
    <3>1. /\ w.gen = worker[s].gen /\ w.content = worker[s].content /\ w.state = "dead"
          /\ w.key = IF worker[s].state = "busy" THEN worker[s].key ELSE NoKey
      BY <1>1 DEF WorkerType
    <3>2. /\ worker' = [worker EXCEPT ![s] = w] /\ worker[s].state # "dead"
          /\ UNCHANGED <<svc, pool, queue, results, spool>>
      BY <1>8 DEF Dies
    <3>3. worker[s].state = "busy" => worker[s].key # NoKey
      BY DEF TypeInv, PoolTypes, Keys, NoKey
    <3> HIDE DEF w
    <3>4. worker'[s] = w /\ \A u \in Services \ {s} : worker'[u] = worker[u]
      BY <3>2 DEF TypeInv, PoolTypes
    <3> QED
      BY <3>1, <3>2, <3>3, <3>4 DEF Holds
  <2>2. CleanAt(s)'
    <3> SUFFICES ASSUME Untouched(pool[s])
                 PROVE  Clean(svc[s], queue[s], worker'[s], results[s], spool[s], pool[s])
      BY <2>1 DEF CleanAt
    <3>1. Clean(svc[s], queue[s], worker[s], results[s], spool[s], pool[s])
      BY <1>2
    <3>2. \A k, i : Ending(worker[s], results[s], k, i) => Ending(worker'[s], results[s], k, i)
      BY <2>1 DEF Ending
    <3> QED
      BY <2>1, <3>1, <3>2 DEF Clean, BusyClean, ResultsClean, StartsClean, FlightClean
  <2> QED
    BY <2>1, <2>2, OthersClean
<1> QED
  BY <1>3, <1>4, <1>6, <1>7, <1>8 DEF PoolStep

LEMMA NextKeepsClean ==
    ASSUME TypeInv, ConnInv, BatchInv, CleanInv, [Next]_vars
    PROVE  CleanInv'
<1>1. CASE Launch \/ Kill \/ UNCHANGED vars \/ \E r \in Ranks : ClientStep(r)
  <2>1. UNCHANGED poolVars /\ UNCHANGED svc
    BY <1>1
    DEF Launch, Kill, vars, poolVars, ClientStep, Snapshot, Started, RunBatch, Score
  <2> QED
    BY <2>1, CleanFrame DEF CleanInv, poolVars
<1>2. ASSUME NEW s \in Services, ServiceStep(s) \/ Stop(s)
      PROVE  CleanInv'
  BY <1>2, ServiceStepClean
<1>3. ASSUME NEW s \in Services, PoolStep(s) \/ Dies(s) \/ StaleHeartbeat(s)
      PROVE  CleanInv'
  BY <1>3, PoolStepClean
<1> QED
  BY <1>1, <1>2, <1>3 DEF Next

LEMMA InitClean == Init => CleanInv
BY DEF Init, CleanInv, CleanAt, Clean, Holds, QueueClean, BusyClean, ResultsClean, StartsClean,
       FlightClean, Idle, NewPool
------------------------------------------------------------------------------
(* The verdict of a completion is its own.                                 *)

Replaced == \E s \in Services : pool[s].restarts > 0

\* A replaced worker stays replaced.
LEMMA ReplacedStays ==
    ASSUME TypeInv, [Next]_vars, Replaced
    PROVE  Replaced'
<1>1. PICK s \in Services : pool[s].restarts > 0
  BY DEF Replaced
<1>2. pool \in [Services -> PoolType] /\ pool[s].restarts \in Nat /\ worker[s] \in WorkerType
  BY DEF TypeInv, PoolTypes, PoolType
<1>3. SUFFICES pool'[s].restarts > 0
  BY DEF Replaced
<1>4. CASE UNCHANGED pool
  BY <1>1, <1>4
<1>5. ASSUME NEW u \in Services, Restart(u, pool[u])
      PROVE  pool'[s].restarts > 0
  <2>1. CASE u = s
    <3> DEFINE p == Restarted(s, pool[s]).pool
    <3>1. pool'[s] = p
      BY <1>5, <2>1, RestartedWorker DEF TypeInv
    <3>2. p \in PoolType /\ p.restarts >= pool[s].restarts
      BY <1>2, RestartedTypes
    <3> HIDE DEF p
    <3>3. p.restarts \in Nat
      BY <3>2 DEF PoolType
    <3> QED
      BY <1>1, <1>2, <3>1, <3>2, <3>3
  <2>2. CASE u # s
    BY <1>1, <1>5, <2>2, RestartedWorker DEF TypeInv
  <2> QED
    BY <2>1, <2>2
<1>6. ASSUME NEW u \in Services, NEW k, pool' = [pool EXCEPT ![u].inflight = k]
      PROVE  pool'[s].restarts > 0
  BY <1>1, <1>2, <1>6 DEF PoolType
<1>7. ASSUME NEW u \in Services, Drain(u)
      PROVE  pool'[s].restarts > 0
  <2>1. \/ UNCHANGED pool \/ Restart(u, pool[u])
        \/ \E k : pool' = [pool EXCEPT ![u].inflight = k]
    BY <1>7 DEF Drain
  <2> QED
    BY <1>4, <1>5, <1>6, <2>1
<1>8. ASSUME NEW u \in Services, DeadReplaced(u) \/ StaleHeartbeat(u)
      PROVE  pool'[s].restarts > 0
  BY <1>5, <1>8 DEF DeadReplaced, StaleHeartbeat
<1>9. CASE Launch \/ Kill \/ UNCHANGED vars \/ \E r \in Ranks : ClientStep(r)
  BY <1>4, <1>9
  DEF Launch, Kill, vars, poolVars, ClientStep, Snapshot, Started, RunBatch, Score
<1>10. ASSUME NEW u \in Services,
              ServiceStep(u) \/ Stop(u) \/ Take(u) \/ Check(u) \/ Dies(u)
       PROVE  pool'[s].restarts > 0
  BY <1>4, <1>10
  DEF poolVars, ServiceStep, Boot, Accept, ReplySnapshot, Submit, ReplyBatch, Exit, Stop,
      Take, Check, Dies
<1> QED
  BY <1>7, <1>8, <1>9, <1>10 DEF Next, PoolStep

\* A service whose pool is untouched answers the batch of the request it serves.
LEMMA ReplyVerdicts ==
    ASSUME TypeInv, ConnInv, CleanInv, VerdictInv, ~ Replaced, NEW s \in Services,
           svc[s].pc \in {"snapshot", "run_batch"},
           NEW verdicts \in SUBSET svc[s].completed, Reply(s, verdicts), life' = life
    PROVE  running' => \A r \in Ranks : \A v \in client'[r].verdicts :
               v.content[1] = life' /\ v.content[2] = r
<1> DEFINE q == svc[s].conn
<1>1. SUFFICES ASSUME running'
               PROVE  \A r \in Ranks : \A v \in client'[r].verdicts :
                          v.content[1] = life /\ v.content[2] = r
  OBVIOUS
<1>2. running
  BY <1>1 DEF Reply, Killed
<1>3. \A r \in Ranks : \A v \in client[r].verdicts :
          v.content[1] = life /\ v.content[2] = r
  BY <1>2 DEF VerdictInv, Replaced
<1>4. CASE UNCHANGED client
  BY <1>3, <1>4
<1>5. CASE ~ UNCHANGED client
  <2>1. /\ Current(q) /\ ~ pool[s].fatal
        /\ SetClient(q.rank, [client[q.rank] EXCEPT
               !.waiting = @ \ {s}, !.verdicts = @ \cup verdicts])
    BY <1>1, <1>5 DEF Reply, Killed
  <2>2. q.rank \in Ranks /\ client[q.rank] \in ClientType /\ client \in [Ranks -> ClientType]
    BY Records
    DEF TypeInv, RunTypes, ServiceTypes, ServiceType, RequestType, ConnInv, Serving, ServingAt
  <2>3. pool[s].restarts \in Nat
    BY DEF TypeInv, PoolTypes, PoolType
  <2>4. Untouched(pool[s])
    BY <2>1, <2>3 DEF Replaced, Untouched
  <2>5. \A v \in verdicts : v.content[1] = life /\ v.content[2] = q.rank
    BY <2>1, <2>4 DEF CleanInv, CleanAt, Clean, Of, Current
  <2> HIDE DEF q
  <2>6. /\ client'[q.rank].verdicts = client[q.rank].verdicts \cup verdicts
        /\ \A r \in Ranks \ {q.rank} : client'[r] = client[r]
    BY <2>1, <2>2 DEF SetClient, ClientType
  <2> QED
    BY <1>3, <2>2, <2>5, <2>6
<1> QED
  BY <1>4, <1>5

LEMMA NextKeepsVerdicts ==
    ASSUME TypeInv, ConnInv, CleanInv, VerdictInv, [Next]_vars
    PROVE  VerdictInv'
<1>1. CASE Replaced'
  BY <1>1 DEF VerdictInv, Replaced
<1>2. CASE ~ Replaced'
  <2>1. ~ Replaced
    BY <1>2, ReplacedStays
  <2>2. SUFFICES running' => \A r \in Ranks : \A v \in client'[r].verdicts :
                     v.content[1] = life' /\ v.content[2] = r
    BY DEF VerdictInv
  <2>3. running => \A r \in Ranks : \A v \in client[r].verdicts :
                     v.content[1] = life /\ v.content[2] = r
    BY <2>1 DEF VerdictInv, Replaced
  <2>4. CASE Launch
    BY <2>4 DEF Launch, NewClient
  <2>5. ASSUME \/ Killed
               \/ /\ running' = running /\ life' = life
                  /\ \A r \in Ranks : client'[r].verdicts \subseteq client[r].verdicts
        PROVE  running' => \A r \in Ranks : \A v \in client'[r].verdicts :
                     v.content[1] = life' /\ v.content[2] = r
    BY <2>3, <2>5 DEF Killed
  <2>6. CASE Kill \/ UNCHANGED vars
    BY <2>5, <2>6 DEF Kill, vars
  <2>7. ASSUME NEW r \in Ranks, ClientStep(r)
        PROVE  \/ Killed
               \/ /\ running' = running /\ life' = life
                  /\ \A u \in Ranks : client'[u].verdicts \subseteq client[u].verdicts
    <3>1. \A u \in Ranks : client'[u].verdicts \subseteq client[u].verdicts
      BY <2>7, ClientStepVerdicts
    <3>2. Killed \/ running' = running
      BY <2>7 DEF ClientStep, Snapshot, Started, RunBatch, Score, Connect
    <3>3. life' = life
      BY <2>7 DEF ClientStep, Snapshot, Started, RunBatch, Score
    <3> QED
      BY <3>1, <3>2, <3>3
  <2>8. ASSUME NEW s \in Services, ReplySnapshot(s) \/ ReplyBatch(s)
        PROVE  running' => \A r \in Ranks : \A v \in client'[r].verdicts :
                     v.content[1] = life' /\ v.content[2] = r
    <3>1. CASE ReplySnapshot(s)
      BY <2>1, <3>1, ReplyVerdicts DEF ReplySnapshot
    <3>2. CASE ReplyBatch(s)
      BY <2>1, <3>2, ReplyVerdicts DEF ReplyBatch
    <3> QED
      BY <2>8, <3>1, <3>2
  <2>9. ASSUME NEW s \in Services,
               \/ Boot(s) \/ Accept(s) \/ Submit(s) \/ Exit(s) \/ Stop(s)
               \/ PoolStep(s) \/ Dies(s) \/ StaleHeartbeat(s)
        PROVE  Killed \/ UNCHANGED <<running, life, client>>
    BY <2>9
    DEF Boot, Accept, Close, Submit, Exit, Stop, PoolStep, Take, Check, Drain,
        Dies, DeadReplaced, StaleHeartbeat, clientVars
  <2> QED
    BY <2>4, <2>5, <2>6, <2>7, <2>8, <2>9 DEF Next, ServiceStep
<1> QED
  BY <1>1, <1>2

\* The verdict that Score finds for a task
LEMMA ScoredBy ==
    ASSUME TypeInv, BatchInv, NEW r \in Ranks, running, client[r].waiting = {},
           NEW t \in client[r].tasks
    PROVE  \E v \in client[r].verdicts : v.key = t.key /\ VerdictFor(r, t) = v.content
<1>1. ClientAt(r) /\ client[r].tasks \subseteq TaskType
  BY DEF BatchInv, TypeInv, RunTypes, ClientType
<1> DEFINE own == {v \in client[r].verdicts : v.key[2] = t.key[2]}
<1>2. own # {}
  BY <1>1 DEF ClientAt
<1>3. ASSUME NEW v \in own
      PROVE  v.key = t.key
  <2>1. v.key \in KeysOf(client[r].tasks)
    BY <1>1 DEF ClientAt, KeysOf
  <2>2. PICK u \in client[r].tasks : u.key = v.key
    BY <2>1 DEF KeysOf
  <2>3. u.key[1] = client[r].batch /\ t.key[1] = client[r].batch /\ u.key[2] = t.key[2]
    BY <1>1, <2>2 DEF ClientAt
  <2>4. u.key \in Keys /\ t.key \in Keys
    BY <1>1 DEF TaskType
  <2> QED
    BY <2>2, <2>3, <2>4 DEF Keys
<1>4. VerdictFor(r, t) = (CHOOSE v \in own : TRUE).content
  BY <1>2 DEF VerdictFor
<1> HIDE DEF own
<1>5. (CHOOSE v \in own : TRUE) \in own
  BY <1>2
<1>6. own \subseteq client[r].verdicts
  BY DEF own
<1> QED
  BY <1>3, <1>4, <1>5, <1>6

LEMMA ScoreKeepsVerdict ==
    ASSUME TypeInv, BatchInv, NameInv, VerdictInv, OwnVerdict,
           NEW r \in Ranks, Score(r)
    PROVE  OwnVerdict'
<1>1. /\ running /\ client[r].pc = "batch" /\ client[r].waiting = {} /\ pool' = pool
      /\ rewards' = rewards \cup {<<t.content, VerdictFor(r, t)>> : t \in client[r].tasks}
  BY DEF Score, poolVars
<1>2. ClientAt(r)
  BY <1>1 DEF BatchInv
<1>3. ASSUME NEW t \in client[r].tasks
      PROVE  \/ VerdictFor(r, t) = t.content
             \/ /\ Replaced /\ VerdictFor(r, t) # Gone
                /\ VerdictFor(r, t)[3] = t.content[3]
                /\ <<VerdictFor(r, t)[1], VerdictFor(r, t)[2]>>
                     # <<t.content[1], t.content[2]>>
  <2>1. PICK v \in client[r].verdicts : v.key = t.key /\ VerdictFor(r, t) = v.content
    BY <1>1, ScoredBy
  <2> DEFINE c == v.content
  <2>2. Named(t.key, c)
    BY <2>1 DEF NameInv
  <2>3. /\ t.key[1] = client[r].batch /\ t.content[3] = t.key[1]
        /\ t.content[1] = life /\ t.content[2] = r
    BY <1>2 DEF ClientAt, Batch
  <2>4. c[3] = t.content[3] /\ c # Gone
    BY <2>2, <2>3 DEF Named, Gone
  <2>5. CASE c[1] = life /\ c[2] = r
    <3> DEFINE u == [key |-> t.key, content |-> c]
    <3>1. u \in client[r].tasks
      BY <1>1, <2>2, <2>3, <2>5 DEF Named
    <3>2. u.key = t.key /\ u.content = c
      OBVIOUS
    <3>3. u = t
      BY <1>2, <3>1, <3>2 DEF ClientAt, Batch
    <3> QED
      BY <2>1, <3>2, <3>3
  <2>6. CASE ~ (c[1] = life /\ c[2] = r)
    <3>1. Replaced
      BY <1>1, <2>6 DEF VerdictInv, Replaced
    <3> QED
      BY <2>1, <2>3, <2>4, <2>6, <3>1
  <2> QED
    BY <2>5, <2>6
<1>4. ASSUME NEW w \in rewards'
      PROVE  \/ w[2] = w[1]
             \/ /\ Replaced' /\ w[2] # Gone /\ w[2][3] = w[1][3]
                /\ <<w[2][1], w[2][2]>> # <<w[1][1], w[1][2]>>
  <2>1. Replaced' <=> Replaced
    BY <1>1 DEF Replaced
  <2>2. CASE w \in rewards
    BY <2>1, <2>2 DEF OwnVerdict, Replaced
  <2>3. CASE w \notin rewards
    <3>1. PICK t \in client[r].tasks : w = <<t.content, VerdictFor(r, t)>>
      BY <1>1, <2>3
    <3> QED
      BY <1>3, <2>1, <3>1
  <2> QED
    BY <2>2, <2>3
<1> QED
  BY <1>4 DEF OwnVerdict, Replaced

LEMMA NextKeepsOwn ==
    ASSUME TypeInv, BatchInv, NameInv, VerdictInv, OwnVerdict, [Next]_vars
    PROVE  OwnVerdict'
<1>1. CASE \E r \in Ranks : Score(r)
  BY <1>1, ScoreKeepsVerdict
<1>2. CASE ~ \E r \in Ranks : Score(r)
  <2>1. rewards' = rewards
    BY <1>2
    DEF Next, vars, Launch, Kill, ClientStep, Snapshot, Started, RunBatch, ServiceStep, Boot,
        Accept, ReplySnapshot, Submit, ReplyBatch, Exit, Stop, PoolStep, Take, Check, Drain,
        Dies, DeadReplaced, StaleHeartbeat, clientVars
  <2>2. Replaced => Replaced'
    BY ReplacedStays
  <2> QED
    BY <2>1, <2>2 DEF OwnVerdict, Replaced
<1> QED
  BY <1>1, <1>2

\* What holds of a service and the runs it serves
Inv ==
    /\ TypeInv /\ ConnInv /\ BatchInv /\ NameInv /\ CleanInv /\ VerdictInv
    /\ OwnVerdict

LEMMA InitInv == Init => Inv
BY InitConn, InitBatch, InitNames, InitClean
DEF Init, Inv, VerdictInv, OwnVerdict

LEMMA NextKeepsInv == Inv /\ [Next]_vars => Inv'
<1> SUFFICES ASSUME Inv, [Next]_vars PROVE Inv'
  OBVIOUS
<1>1. TypeInv /\ ConnInv /\ BatchInv /\ NameInv /\ CleanInv /\ VerdictInv /\ OwnVerdict
  BY DEF Inv
<1>2. TypeInv' /\ ConnInv'
  BY <1>1, NextTypes, NextKeepsConn DEF ConnInv
<1>3. BatchInv' /\ NameInv' /\ CleanInv'
  BY <1>1, NextKeepsBatch, NextKeepsNames, NextKeepsClean
<1>4. VerdictInv' /\ OwnVerdict'
  BY <1>1, NextKeepsVerdicts, NextKeepsOwn
<1> QED
  BY <1>2, <1>3, <1>4 DEF Inv

\* Whatever the number of ranks and services, the mode, the kills and the
\* restarts: Score rewards a completion by the verdict of its own proof, and if
\* not, then some worker was replaced and the verdict was reached for the same
\* key by another run or rank, the one mix-up that by_attempt and accept allow.
THEOREM VerdictIsOwn == Spec => []OwnVerdict
<1>1. Inv => OwnVerdict
  BY DEF Inv
<1> QED
  BY InitInv, NextKeepsInv, <1>1, PTL DEF Spec
===============================================================================

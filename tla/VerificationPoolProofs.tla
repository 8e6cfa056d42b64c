------------------------ MODULE VerificationPoolProofs ------------------------
(***************************************************************************)
(* Proofs about VerificationPool, and at the end about HardTimeoutPool,    *)
(* for every number of workers, every queue bound, every batch and any     *)
(* number of faults: type correctness, stale messages never meet a         *)
(* successor's task, run_batch does what BatchVerification promises, the   *)
(* in-flight table can be trusted, a task is in one place only, and its    *)
(* spool file is there for as long as it can be dequeued.                  *)
(***************************************************************************)
EXTENDS HardTimeoutPool, SequenceTheorems, FiniteSetTheorems, TLAPS

-----------------------------------------------------------------------------
(* Type correctness of what the steps are built from.                      *)

\* A message emitted by a worker keeps the result queue well typed.
LEMMA EmitType ==
    ASSUME WorkerTypeOK,
           NEW w \in Workers, NEW type \in MessageTypes,
           NEW task \in Tasks \cup {NoTask}, NEW status \in Statuses,
           Emit(w, type, task, status)
    PROVE  resultQueue' \in Seq(Messages)
  BY DEF Emit, WorkerTypeOK, Messages

\* Moving a process to another place of its loop.
LEMMA GotoType ==
    ASSUME WorkerTypeOK, NEW w \in Workers, NEW st \in States,
           NEW task \in Tasks \cup {NoTask}, Goto(w, st, task)
    PROVE  /\ state' \in [Workers -> States]
           /\ held' \in [Workers -> Tasks \cup {NoTask}]
           /\ state'[w] = st /\ held'[w] = task
           /\ \A v \in Workers \ {w} : state'[v] = state[v] /\ held'[v] = held[v]
  BY DEF Goto, WorkerTypeOK

\* Counting a fault.
LEMMA FaultType ==
    ASSUME WorkerTypeOK, Fault PROVE faults' \in Nat
  BY MaxFaultsAssumption DEF Fault, WorkerTypeOK

\* No step of a worker, and no fault of one, breaks the type invariant.
LEMMA WorkerKeepsTypes ==
    ASSUME TypeInv, NEW w \in Workers, Worker(w)
    PROVE  TypeInv'
<1>1. WorkerTypeOK /\ HoldsTask
  BY DEF TypeInv, TypeOK
<1>2. PoolTypeOK' /\ ControlTypeOK' /\ BatchTypeOK' /\ RequeueReturns'
  BY DEF TypeInv, TypeOK, Worker, poolVars, PoolTypeOK, ControlTypeOK,
         BatchTypeOK, RequeueReturns
<1>3. WorkerTypeOK' /\ HoldsTask'
  <2>1. CASE WarmUp(w)
    BY <1>1, <2>1, EmitType, GotoType
    DEF WarmUp, WorkerTypeOK, HoldsTask, States, LiveStates, MessageTypes, Statuses
  <2>2. CASE WarmUpFails(w)
    BY <1>1, <2>2, EmitType, GotoType, FaultType
    DEF WarmUpFails, WorkerTypeOK, HoldsTask, States, LiveStates,
        MessageTypes, Statuses
  <2>3. CASE Dequeue(w)
    <3> DEFINE item == Head(taskQueue[w])
    <3>1. item \in Tasks \cup {NoTask} /\ Tail(taskQueue[w]) \in Seq(Tasks \cup {NoTask})
      BY <1>1, <2>3 DEF Dequeue, WorkerTypeOK
    <3>2. taskQueue' \in [Workers -> Seq(Tasks \cup {NoTask})]
      BY <1>1, <2>3, <3>1 DEF Dequeue, WorkerTypeOK
    <3>3. PICK st \in {"stopping", "loaded", "failing"},
               task \in Tasks \cup {NoTask} :
            Goto(w, st, task) /\ (st = "loaded" => task \in Tasks)
      BY <1>1, <2>3, <3>1 DEF Dequeue, WorkerTypeOK
    <3> QED
      BY <1>1, <2>3, <3>2, <3>3, GotoType
      DEF Dequeue, WorkerTypeOK, HoldsTask, States, LiveStates
  <2>4. CASE EmitStarted(w)
    <3>1. held[w] \in Tasks
      BY <1>1, <2>4 DEF EmitStarted, HoldsTask
    <3> QED
      BY <1>1, <2>4, <3>1, EmitType, GotoType
      DEF EmitStarted, WorkerTypeOK, HoldsTask, States, LiveStates, MessageTypes,
          Statuses
  <2>5. CASE Finish(w)
    <3>1. held[w] \in Tasks
      BY <1>1, <2>5 DEF Finish, HoldsTask
    <3>2. held[w][1] \in Nat
      BY <3>1, TasksAssumption
    <3>3. canceled' \in [Workers -> SUBSET Nat]
      BY <1>1, <2>5, <3>2 DEF Finish, WorkerTypeOK
    <3>4. resultQueue' \in Seq(Messages)
      BY <1>1, <2>5, <3>1, EmitType DEF Finish, MessageTypes, Statuses
    <3> QED
      BY <1>1, <2>5, <3>3, <3>4, GotoType
      DEF Finish, WorkerTypeOK, HoldsTask, States, LiveStates
  <2>6. CASE EmitFatal(w)
    BY <1>1, <2>6, EmitType, GotoType
    DEF EmitFatal, WorkerTypeOK, HoldsTask, States, LiveStates, MessageTypes, Statuses
  <2>7. CASE EmitDone(w)
    BY <1>1, <2>7, EmitType, GotoType
    DEF EmitDone, WorkerTypeOK, HoldsTask, States, LiveStates, MessageTypes, Statuses
  <2>8. CASE Raise(w)
    BY <1>1, <2>8, GotoType, FaultType
    DEF Raise, WorkerTypeOK, HoldsTask, States, LiveStates
  <2>9. CASE Hang(w)
    <3>1. held[w] \in Tasks
      BY <1>1, <2>9 DEF Hang, HoldsTask
    <3> QED
      BY <1>1, <2>9, <3>1, GotoType, FaultType
      DEF Hang, WorkerTypeOK, HoldsTask, States, LiveStates
  <2>10. CASE Crash(w)
    BY <1>1, <2>10, GotoType, FaultType
    DEF Crash, WorkerTypeOK, HoldsTask, States, LiveStates
  <2> QED
    BY <2>1, <2>2, <2>3, <2>4, <2>5, <2>6, <2>7, <2>8, <2>9, <2>10
    DEF Worker, WorkerProgress, WorkerFault
<1> QED
  BY <1>2, <1>3 DEF TypeInv, TypeOK
-----------------------------------------------------------------------------
(* _restart_worker.                                                        *)

\* Ending a worker's process leaves it without a task, in and out of the books.
LEMMA KillType ==
    ASSUME TypeOK, NEW w \in Workers, Kill(w)
    PROVE  /\ held' \in [Workers -> Tasks \cup {NoTask}]
           /\ inFlight' \in [Workers -> Tasks \cup {NoTask}]
           /\ inFlight'[w] = NoTask
           /\ \A v \in Workers \ {w} :
                held'[v] = held[v] /\ inFlight'[v] = inFlight[v]
  BY DEF Kill, TypeOK, WorkerTypeOK, PoolTypeOK

\* Spawning the replacement, or giving the worker up.
LEMMA RespawnType ==
    ASSUME TypeOK, NEW w \in Workers, Respawn(w)
    PROVE  /\ restarts' \in [Workers -> Nat]
           /\ fatal' \in BOOLEAN
           /\ state' \in [Workers -> States]
           /\ canceled' \in [Workers -> SUBSET Nat]
           /\ generation' \in [Workers -> Nat]
           /\ ready' \in [Workers -> {"no"} \cup Statuses]
           /\ state'[w] \in {"exited", "booting"}
           /\ \A v \in Workers \ {w} : state'[v] = state[v]
<1> DEFINE worn == restarts[w] + 1 > MaxRestarts
<1>1. restarts' \in [Workers -> Nat]
  BY DEF Respawn, TypeOK, PoolTypeOK
<1>2. CASE worn
  <2>1. /\ fatal' = TRUE
        /\ state' = [state EXCEPT ![w] = "exited"]
        /\ UNCHANGED <<canceled, generation, ready>>
    BY <1>2 DEF Respawn
  <2> QED
    BY <1>1, <2>1 DEF TypeOK, WorkerTypeOK, PoolTypeOK, States
<1>3. CASE ~worn
  <2>1. /\ generation' = [generation EXCEPT ![w] = @ + 1]
        /\ state' = [state EXCEPT ![w] = "booting"]
        /\ canceled' = [canceled EXCEPT ![w] = {}]
        /\ ready' = [ready EXCEPT ![w] = "no"]
        /\ UNCHANGED fatal
    BY <1>3 DEF Respawn
  <2>2. generation' \in [Workers -> Nat]
    BY <2>1 DEF TypeOK, WorkerTypeOK
  <2>3. canceled' \in [Workers -> SUBSET Nat]
    BY <2>1 DEF TypeOK, WorkerTypeOK
  <2>4. ready' \in [Workers -> {"no"} \cup Statuses]
    BY <2>1 DEF TypeOK, PoolTypeOK
  <2> QED
    BY <1>1, <2>1, <2>2, <2>3, <2>4
    DEF TypeOK, WorkerTypeOK, PoolTypeOK, States, LiveStates
<1> QED
  BY <1>2, <1>3

\* Returning to drain, or to the next worker of the monitor pass.
LEMMA ContinueType ==
    ASSUME TypeOK, NEW from \in {"drain", "monitor"},
           from = "monitor" => scan < NumWorkers, Continue(from)
    PROVE  /\ pc' \in PCs /\ pc' # "requeue"
           /\ site' \in {"none", "drain", "monitor"}
           /\ scan' \in 0 .. NumWorkers
  BY NumWorkersAssumption DEF Continue, TypeOK, ControlTypeOK, PCs

\* _restart_worker keeps every type, whether it returns at once or goes on to
\* put the task back.
LEMMA RestartKeepsTypes ==
    ASSUME TypeInv, NEW w \in Workers, NEW from \in {"drain", "monitor"},
           from = "monitor" => scan < NumWorkers,
           RestartWorker(w, from),
           resultQueue' \in Seq(Messages), faults' \in Nat,
           UNCHANGED <<drained, batchVars>>
    PROVE  TypeInv'
<1>1. TypeOK /\ HoldsTask
  BY DEF TypeInv
<1>2. Kill(w) /\ UNCHANGED <<taskQueue, spool, buffered, caller>>
  BY DEF RestartWorker
<1>3. BatchTypeOK'
  BY <1>1 DEF TypeOK, BatchTypeOK, batchVars
<1> DEFINE t == inFlight[w]
<1>4. t \in Tasks \cup {NoTask}
  BY <1>1 DEF TypeOK, PoolTypeOK
<1>5. CASE t = NoTask
  <2>1. Respawn(w) /\ Continue(from) /\ UNCHANGED <<retries, target, requeued>>
    BY <1>5 DEF RestartWorker
  <2>2. WorkerTypeOK' /\ HoldsTask'
    BY <1>1, <1>2, <2>1, KillType, RespawnType
    DEF TypeOK, WorkerTypeOK, HoldsTask
  <2>3. PoolTypeOK'
    BY <1>1, <1>2, <2>1, KillType, RespawnType DEF TypeOK, PoolTypeOK
  <2>4. ControlTypeOK' /\ RequeueReturns'
    BY <1>1, <1>2, <2>1, ContinueType
    DEF TypeOK, ControlTypeOK, RequeueReturns
  <2> QED
    BY <1>3, <2>2, <2>3, <2>4 DEF TypeInv, TypeOK
<1>6. CASE t # NoTask /\ retries[t] + 1 > MaxRetries
  <2>1. /\ retries' = [retries EXCEPT ![t] = @ + 1]
        /\ fatal' = TRUE
        /\ state' = [state EXCEPT ![w] = "exited"]
        /\ Continue(from)
        /\ UNCHANGED <<canceled, generation, ready, restarts, target, requeued>>
    BY <1>1, <1>4, <1>6, LimitsAssumption
    DEF RestartWorker, TypeOK, PoolTypeOK
  <2>2. WorkerTypeOK' /\ HoldsTask'
    BY <1>1, <1>2, <2>1, KillType
    DEF TypeOK, WorkerTypeOK, HoldsTask, States
  <2>3. PoolTypeOK'
    BY <1>1, <1>2, <1>4, <1>6, <2>1, KillType DEF TypeOK, PoolTypeOK
  <2>4. ControlTypeOK' /\ RequeueReturns'
    BY <1>1, <1>2, <2>1, ContinueType
    DEF TypeOK, ControlTypeOK, RequeueReturns
  <2> QED
    BY <1>3, <2>2, <2>3, <2>4 DEF TypeInv, TypeOK
<1>7. CASE t # NoTask /\ ~(retries[t] + 1 > MaxRetries)
  <2>1. /\ retries' = [retries EXCEPT ![t] = @ + 1]
        /\ state' = [state EXCEPT ![w] = "exited"]
        /\ pc' = "requeue" /\ site' = from
        /\ target' = w /\ requeued' = t
        /\ UNCHANGED <<canceled, generation, ready, restarts, fatal, scan>>
    BY <1>1, <1>4, <1>7, LimitsAssumption
    DEF RestartWorker, TypeOK, PoolTypeOK
  <2>2. WorkerTypeOK' /\ HoldsTask'
    BY <1>1, <1>2, <2>1, KillType
    DEF TypeOK, WorkerTypeOK, HoldsTask, States
  <2>3. PoolTypeOK'
    BY <1>1, <1>2, <1>4, <1>7, <2>1, KillType DEF TypeOK, PoolTypeOK
  <2>4. ControlTypeOK' /\ RequeueReturns'
    BY <1>1, <1>2, <1>4, <2>1
    DEF TypeOK, ControlTypeOK, RequeueReturns, PCs
  <2> QED
    BY <1>3, <2>2, <2>3, <2>4 DEF TypeInv, TypeOK
<1> QED
  BY <1>5, <1>6, <1>7
-----------------------------------------------------------------------------
(* The other steps of the coordinator.                                     *)

\* Steps that only move the coordinator.
ControlStep ==
    \/ StartDrains \/ Started \/ PutFull \/ AllSubmitted \/ WaitDrains \/ Return
    \/ Accepted \/ Close \/ DrainedAll \/ MonitorHealthy \/ DrainReturns
    \/ StartMonitors

LEMMA ControlKeepsTypes ==
    ASSUME TypeInv, ControlStep PROVE TypeInv'
<1>1. CASE StartDrains
  BY <1>1
  DEF StartDrains, TypeInv, TypeOK, WorkerTypeOK, PoolTypeOK, ControlTypeOK, BatchTypeOK,
       HoldsTask, RequeueReturns, PCs, Callers, workerVars, batchVars
<1>2. CASE Started
  BY <1>2
  DEF Started, TypeInv, TypeOK, WorkerTypeOK, PoolTypeOK, ControlTypeOK, BatchTypeOK,
       HoldsTask, RequeueReturns, PCs, Callers, workerVars, batchVars
<1>3. CASE PutFull
  BY <1>3
  DEF PutFull, TypeInv, TypeOK, WorkerTypeOK, PoolTypeOK, ControlTypeOK, BatchTypeOK,
       HoldsTask, RequeueReturns, PCs, Callers, workerVars, batchVars
<1>4. CASE AllSubmitted
  BY <1>4
  DEF AllSubmitted, TypeInv, TypeOK, WorkerTypeOK, PoolTypeOK, ControlTypeOK, BatchTypeOK,
       HoldsTask, RequeueReturns, PCs, Callers, workerVars, batchVars
<1>5. CASE WaitDrains
  BY <1>5
  DEF WaitDrains, TypeInv, TypeOK, WorkerTypeOK, PoolTypeOK, ControlTypeOK, BatchTypeOK,
       HoldsTask, RequeueReturns, PCs, Callers, workerVars, batchVars
<1>6. CASE Return
  BY <1>6
  DEF Return, TypeInv, TypeOK, WorkerTypeOK, PoolTypeOK, ControlTypeOK, BatchTypeOK,
       HoldsTask, RequeueReturns, PCs, Callers, workerVars, batchVars
<1>7. CASE Accepted
  BY <1>7
  DEF Accepted, TypeInv, TypeOK, WorkerTypeOK, PoolTypeOK, ControlTypeOK, BatchTypeOK,
       HoldsTask, RequeueReturns, PCs, Callers, workerVars, batchVars
<1>8. CASE Close
  <2>1. ControlTypeOK' /\ RequeueReturns'
    BY <1>8, NumWorkersAssumption
    DEF Close, TypeInv, TypeOK, ControlTypeOK, RequeueReturns, PCs
  <2> QED
    BY <1>8, <2>1
    DEF Close, TypeInv, TypeOK, WorkerTypeOK, PoolTypeOK, BatchTypeOK,
        HoldsTask, workerVars, batchVars
<1>9. CASE DrainedAll
  <2>1. ControlTypeOK' /\ RequeueReturns'
    BY <1>9, NumWorkersAssumption
    DEF DrainedAll, TypeInv, TypeOK, ControlTypeOK, RequeueReturns, PCs, Callers
  <2> QED
    BY <1>9, <2>1
    DEF DrainedAll, TypeInv, TypeOK, WorkerTypeOK, PoolTypeOK, BatchTypeOK,
        HoldsTask, workerVars, batchVars
<1>10. CASE DrainReturns
  BY <1>10
  DEF DrainReturns, TypeInv, TypeOK, WorkerTypeOK, PoolTypeOK, ControlTypeOK, BatchTypeOK,
       HoldsTask, RequeueReturns, PCs, Callers, workerVars, batchVars
<1>11. CASE StartMonitors
  <2>1. ControlTypeOK' /\ RequeueReturns'
    BY <1>11, NumWorkersAssumption
    DEF StartMonitors, TypeInv, TypeOK, ControlTypeOK, RequeueReturns, PCs, Callers
  <2> QED
    BY <1>11, <2>1
    DEF StartMonitors, TypeInv, TypeOK, WorkerTypeOK, PoolTypeOK, BatchTypeOK,
        HoldsTask, workerVars, batchVars
<1>12. CASE MonitorHealthy
  <2>1. ControlTypeOK' /\ RequeueReturns'
    BY <1>12, NumWorkersAssumption
    DEF MonitorHealthy, TypeInv, TypeOK, ControlTypeOK, RequeueReturns, PCs
  <2> QED
    BY <1>12, <2>1
    DEF MonitorHealthy, TypeInv, TypeOK, WorkerTypeOK, PoolTypeOK, BatchTypeOK,
        HoldsTask, workerVars, batchVars
<1> QED
  BY <1>1, <1>2, <1>3, <1>4, <1>5, <1>6, <1>7, <1>8, <1>9, <1>10, <1>11, <1>12
  DEF ControlStep

\* Calling run_batch, submitting, accepting.
LEMMA BatchKeepsTypes ==
    ASSUME TypeInv, RunBatch \/ (\E t \in todo : Submit(t)) \/ Put \/ Accept
    PROVE  TypeInv'
<1>1. CASE RunBatch
  <2>1. Batches[batch + 1] \in SUBSET Tasks /\ batch + 1 \in 0 .. Len(Batches)
    BY <1>1, BatchesAssumption DEF RunBatch, TypeInv, TypeOK, BatchTypeOK
  <2>2. BatchTypeOK'
    BY <1>1, <2>1 DEF RunBatch, TypeInv, TypeOK, BatchTypeOK, Results
  <2> QED
    BY <1>1, <2>2
    DEF RunBatch, TypeInv, TypeOK, WorkerTypeOK, PoolTypeOK, ControlTypeOK,
        HoldsTask, RequeueReturns, PCs, States, LiveStates
<1>2. CASE \E t \in todo : Submit(t)
  BY <1>2
  DEF Submit, TypeInv, TypeOK, WorkerTypeOK, PoolTypeOK, ControlTypeOK,
      BatchTypeOK, HoldsTask, RequeueReturns, PCs
<1>3. CASE Put
  <2>1. PICK v : taskQueue' = [taskQueue EXCEPT ![v] = Append(@, submitting)]
    BY <1>3 DEF Put
  <2>2. \A w \in Workers :
          Append(taskQueue[w], submitting) \in Seq(Tasks \cup {NoTask})
    BY DEF TypeInv, TypeOK, WorkerTypeOK, BatchTypeOK
  <2>3. taskQueue' \in [Workers -> Seq(Tasks \cup {NoTask})]
    BY <2>1, <2>2 DEF TypeInv, TypeOK, WorkerTypeOK
  <2>4. WorkerTypeOK' /\ HoldsTask'
    BY <1>3, <2>3 DEF Put, TypeInv, TypeOK, WorkerTypeOK, HoldsTask
  <2>5. PoolTypeOK'
    BY <1>3 DEF Put, TypeInv, TypeOK, PoolTypeOK
  <2>6. ControlTypeOK' /\ RequeueReturns'
    BY <1>3
    DEF Put, TypeInv, TypeOK, ControlTypeOK, RequeueReturns, PCs, Callers
  <2>7. BatchTypeOK'
    BY <1>3 DEF Put, TypeInv, TypeOK, BatchTypeOK
  <2> QED
    BY <2>4, <2>5, <2>6, <2>7 DEF TypeInv, TypeOK
<1>4. CASE Accept
  <2> DEFINE r == Head(drained)
  <2>1. r \in Results /\ Tail(drained) \in Seq(Results)
    BY <1>4 DEF Accept, TypeInv, TypeOK, PoolTypeOK
  <2> DEFINE goal == completed' \subseteq Tasks /\ results' \in Seq(Results)
  <2>2. ASSUME IsNew(r) PROVE goal
    <3>1. completed' = completed \cup {r.task} /\ results' = Append(results, r)
      BY <1>4, <2>2 DEF Accept
    <3>2. r.task \in Tasks
      BY <2>2 DEF IsNew, TypeInv, TypeOK, BatchTypeOK
    <3> QED
      BY <2>1, <3>1, <3>2 DEF TypeInv, TypeOK, BatchTypeOK
  <2>3. ASSUME ~IsNew(r) PROVE goal
    BY <1>4, <2>3 DEF Accept, TypeInv, TypeOK, BatchTypeOK
  <2>4. completed' \subseteq Tasks /\ results' \in Seq(Results)
    BY <2>2, <2>3
  <2> QED
    BY <1>4, <2>1, <2>4
    DEF Accept, TypeInv, TypeOK, WorkerTypeOK, PoolTypeOK, ControlTypeOK,
        BatchTypeOK, HoldsTask, RequeueReturns, workerVars, controlVars
<1> QED
  BY <1>1, <1>2, <1>3, <1>4

\* Reading one message of the result queue.
LEMMA ReceiveType ==
    ASSUME TypeOK, NEW type \in MessageTypes, Receive(type)
    PROVE  /\ Message \in Messages
           /\ Message.worker \in Workers
           /\ Message.task \in Tasks \cup {NoTask}
           /\ Message.status \in Statuses
           /\ resultQueue' \in Seq(Messages)
<1>1. resultQueue \in Seq(Messages) /\ resultQueue # <<>>
  BY DEF Receive, TypeOK, WorkerTypeOK
<1>2. Message \in Messages /\ Tail(resultQueue) \in Seq(Messages)
  BY <1>1 DEF Message
<1> QED
  BY <1>2 DEF Receive, Messages

LEMMA ReceiveKeepsTypes ==
    ASSUME TypeInv,
           \/ ReceiveStale \/ ReceiveWarmup \/ ReceiveStarted \/ ReceiveResult
           \/ ReceiveFatal \/ ReceiveDone
    PROVE  TypeInv'
<1>1. TypeOK /\ HoldsTask /\ RequeueReturns
  BY DEF TypeInv
<1>2. CASE ReceiveStale \/ ReceiveDone
  <2>1. resultQueue' \in Seq(Messages)
    BY <1>1, <1>2, ReceiveType DEF ReceiveStale, ReceiveDone, MessageTypes
  <2> QED
    BY <1>2, <2>1
    DEF ReceiveStale, ReceiveDone, poolVars, TypeInv, TypeOK, WorkerTypeOK,
        PoolTypeOK, ControlTypeOK, BatchTypeOK, HoldsTask, RequeueReturns
<1>3. CASE ReceiveWarmup
  <2>1. resultQueue' \in Seq(Messages) /\ Message.status \in Statuses
    BY <1>1, <1>3, ReceiveType DEF ReceiveWarmup, MessageTypes
  <2>2. PoolTypeOK'
    BY <1>1, <1>3, <2>1 DEF ReceiveWarmup, TypeOK, PoolTypeOK
  <2> QED
    BY <1>3, <2>1, <2>2
    DEF ReceiveWarmup, controlVars, batchVars, TypeInv, TypeOK, WorkerTypeOK,
        ControlTypeOK, BatchTypeOK, HoldsTask, RequeueReturns
<1>4. CASE ReceiveStarted
  <2>1. /\ resultQueue' \in Seq(Messages)
        /\ Message.task \in Tasks \cup {NoTask}
    BY <1>1, <1>4, ReceiveType DEF ReceiveStarted, MessageTypes
  <2>2. PoolTypeOK'
    BY <1>1, <1>4, <2>1 DEF ReceiveStarted, TypeOK, PoolTypeOK
  <2> QED
    BY <1>4, <2>1, <2>2
    DEF ReceiveStarted, controlVars, batchVars, TypeInv, TypeOK, WorkerTypeOK,
        ControlTypeOK, BatchTypeOK, HoldsTask, RequeueReturns
<1>5. CASE ReceiveResult
  <2>1. /\ resultQueue' \in Seq(Messages)
        /\ [task |-> Message.task, status |-> Message.status] \in Results
    BY <1>1, <1>5, ReceiveType DEF ReceiveResult, MessageTypes, Results
  <2>2. /\ drained' = Append(drained,
                        [task |-> Message.task, status |-> Message.status])
        /\ spool' \subseteq spool
    BY <1>5 DEF ReceiveResult
  <2>3. inFlight' \in [Workers -> Tasks \cup {NoTask}]
    BY <1>1, <1>5 DEF ReceiveResult, TypeOK, PoolTypeOK
  <2>4. drained' \in Seq(Results)
    BY <1>1, <2>1, <2>2 DEF TypeOK, PoolTypeOK
  <2>5. PoolTypeOK'
    BY <1>1, <1>5, <2>3, <2>4 DEF ReceiveResult, TypeOK, PoolTypeOK
  <2> QED
    BY <1>5, <2>1, <2>2, <2>5
    DEF ReceiveResult, controlVars, batchVars, TypeInv, TypeOK, WorkerTypeOK,
        ControlTypeOK, BatchTypeOK, HoldsTask, RequeueReturns
<1>6. CASE ReceiveFatal
  <2>1. resultQueue' \in Seq(Messages) /\ Message.worker \in Workers
    BY <1>1, <1>6, ReceiveType DEF ReceiveFatal, MessageTypes
  <2>2. faults' \in Nat
    BY <1>1, <1>6 DEF ReceiveFatal, TypeOK, WorkerTypeOK
  <2> QED
    BY <1>6, <2>1, <2>2, RestartKeepsTypes DEF ReceiveFatal
<1> QED
  BY <1>2, <1>3, <1>4, <1>5, <1>6

LEMMA RequeueKeepsTypes ==
    ASSUME TypeInv, Requeue PROVE TypeInv'
<1>1. /\ TypeOK /\ HoldsTask /\ target \in Workers
      /\ site \in {"drain", "monitor"} /\ (site = "monitor" => scan < NumWorkers)
      /\ Respawn(target) /\ Continue(site)
  BY DEF Requeue, TypeInv, TypeOK, ControlTypeOK, RequeueReturns
<1>2. taskQueue' \in [Workers -> Seq(Tasks \cup {NoTask})]
  BY <1>1 DEF Requeue, TypeOK, WorkerTypeOK, ControlTypeOK
<1>3. WorkerTypeOK' /\ HoldsTask'
  BY <1>1, <1>2, RespawnType DEF Requeue, TypeOK, WorkerTypeOK, HoldsTask
<1>4. PoolTypeOK'
  BY <1>1, RespawnType DEF Requeue, TypeOK, PoolTypeOK
<1>5. ControlTypeOK' /\ RequeueReturns'
  BY <1>1, ContinueType DEF Requeue, TypeOK, ControlTypeOK, RequeueReturns
<1>6. BatchTypeOK'
  BY <1>1 DEF Requeue, TypeOK, BatchTypeOK, batchVars
<1> QED
  BY <1>3, <1>4, <1>5, <1>6 DEF TypeInv, TypeOK

LEMMA MonitorKeepsTypes ==
    ASSUME TypeInv, MonitorDead \/ MonitorStale PROVE TypeInv'
<1>1. scan \in Workers /\ scan < NumWorkers
  BY NumWorkersAssumption
  DEF MonitorDead, MonitorStale, TypeInv, TypeOK, ControlTypeOK, Workers
<1>2. resultQueue' \in Seq(Messages) /\ faults' \in Nat
  BY FaultType DEF MonitorDead, MonitorStale, TypeInv, TypeOK, WorkerTypeOK
<1>3. RestartWorker(scan, "monitor") /\ UNCHANGED <<drained, batchVars>>
  BY DEF MonitorDead, MonitorStale
<1> QED
  BY <1>1, <1>2, <1>3, RestartKeepsTypes

\* Leaving drain() in submit's queue.Full handler, and the second monitor pass
\* of start(): both may raise.
LEMMA ReturnsKeepTypes ==
    ASSUME TypeInv, FullReturns \/ StartContinues PROVE TypeInv'
<1>1. ControlTypeOK' /\ BatchTypeOK' /\ RequeueReturns'
  BY NumWorkersAssumption
  DEF FullReturns, StartContinues, RaiseError, batchVars, TypeInv, TypeOK,
      ControlTypeOK, BatchTypeOK, RequeueReturns, PCs, Callers
<1>2. PoolTypeOK'
  <2>1. Extended \in Seq(Results) /\ <<>> \in Seq(Results)
    BY DEF Extended, TypeInv, TypeOK, PoolTypeOK
  <2>2. CASE FullReturns
    BY <2>1, <2>2 DEF FullReturns, workerVars, TypeInv, TypeOK, PoolTypeOK
  <2>3. CASE StartContinues
    BY <2>3 DEF StartContinues, TypeInv, TypeOK, PoolTypeOK
  <2> QED
    BY <2>2, <2>3
<1>3. faults' \in Nat
  BY FaultType
  DEF FullReturns, StartContinues, workerVars, TypeInv, TypeOK, WorkerTypeOK
<1>4. WorkerTypeOK' /\ HoldsTask'
  BY <1>3
  DEF FullReturns, StartContinues, workerVars, TypeInv, TypeOK, WorkerTypeOK,
      HoldsTask
<1> QED
  BY <1>1, <1>2, <1>4 DEF TypeInv, TypeOK

LEMMA CloseKeepsTypes ==
    ASSUME TypeInv, CloseSignals \/ CloseJoins \/ Closed PROVE TypeInv'
<1>1. TypeOK /\ HoldsTask /\ RequeueReturns
  BY DEF TypeInv
<1>2. CASE CloseSignals
  <2>1. \A w \in Workers :
          Append(taskQueue[w], NoTask) \in Seq(Tasks \cup {NoTask})
    BY <1>1 DEF TypeOK, WorkerTypeOK
  <2>2. taskQueue' \in [Workers -> Seq(Tasks \cup {NoTask})]
    BY <1>1, <1>2, <2>1 DEF CloseSignals, TypeOK, WorkerTypeOK
  <2> QED
    BY <1>2, <2>2
    DEF CloseSignals, TypeInv, TypeOK, WorkerTypeOK, PoolTypeOK, ControlTypeOK,
        BatchTypeOK, HoldsTask, RequeueReturns, PCs, batchVars
<1>3. CASE CloseJoins
  <2>1. scan \in Workers /\ scan + 1 \in 0 .. NumWorkers
    BY <1>1, <1>3, NumWorkersAssumption
    DEF CloseJoins, TypeOK, ControlTypeOK, Workers
  <2>2. /\ state' \in [Workers -> States]
        /\ held' \in [Workers -> Tasks \cup {NoTask}]
        /\ HoldsTask'
    BY <1>1, <1>3, <2>1, GotoType
    DEF CloseJoins, TypeOK, WorkerTypeOK, HoldsTask, States
  <2> QED
    BY <1>3, <2>1, <2>2
    DEF CloseJoins, TypeInv, TypeOK, WorkerTypeOK, PoolTypeOK, ControlTypeOK,
        BatchTypeOK, RequeueReturns, batchVars
<1>4. CASE Closed
  <2>1. WorkerTypeOK' /\ HoldsTask'
    BY <1>1, <1>4 DEF Closed, TypeOK, WorkerTypeOK, HoldsTask, States
  <2>2. PoolTypeOK'
    BY <1>1, <1>4 DEF Closed, TypeOK, PoolTypeOK
  <2> QED
    BY <1>4, <2>1, <2>2
    DEF Closed, TypeInv, TypeOK, ControlTypeOK, BatchTypeOK, RequeueReturns,
        PCs, batchVars
<1> QED
  BY <1>2, <1>3, <1>4

-----------------------------------------------------------------------------
\* The initial state is well typed.
LEMMA InitTypes == Init => TypeInv
<1> SUFFICES ASSUME Init PROVE TypeInv
  OBVIOUS
<1>1. WorkerTypeOK /\ HoldsTask
  BY DEF Init, WorkerInit, WorkerTypeOK, HoldsTask, States
<1>2. PoolTypeOK
  <2>1. <<>> \in Seq(Results)
    OBVIOUS
  <2>2. buffered \in Seq(Results) /\ drained \in Seq(Results)
    BY <2>1 DEF Init
  <2>3. /\ ready \in [Workers -> {"no"} \cup Statuses]
        /\ restarts \in [Workers -> Nat]
        /\ inFlight \in [Workers -> Tasks \cup {NoTask}]
        /\ retries \in [Tasks -> Nat]
    BY DEF Init
  <2> QED
    BY <2>2, <2>3 DEF Init, PoolTypeOK
<1>3. ControlTypeOK /\ RequeueReturns
  BY NumWorkersAssumption
  DEF Init, ControlTypeOK, RequeueReturns, PCs, Callers, Workers
<1>4. BatchTypeOK
  BY BatchesAssumption DEF Init, BatchTypeOK
<1> QED
  BY <1>1, <1>2, <1>3, <1>4 DEF TypeInv, TypeOK

\* So is every next state: a process at work has a task, and _restart_worker knows
\* where to return to.
LEMMA NextKeepsTypes == TypeInv /\ [Next]_vars => TypeInv'
<1> SUFFICES ASSUME TypeInv, [Next]_vars PROVE TypeInv'
  OBVIOUS
<1>1. CASE \E w \in Workers : Worker(w)
  BY <1>1, WorkerKeepsTypes
<1>2. CASE ControlStep
  BY <1>2, ControlKeepsTypes
<1>3. CASE RunBatch \/ (\E t \in todo : Submit(t)) \/ Put \/ Accept
  BY <1>3, BatchKeepsTypes
<1>4. CASE \/ ReceiveStale \/ ReceiveWarmup \/ ReceiveStarted \/ ReceiveResult
           \/ ReceiveFatal \/ ReceiveDone
  BY <1>4, ReceiveKeepsTypes
<1>5. CASE Requeue
  BY <1>5, RequeueKeepsTypes
<1>6. CASE MonitorDead \/ MonitorStale
  BY <1>6, MonitorKeepsTypes
<1>7. CASE FullReturns \/ StartContinues
  BY <1>7, ReturnsKeepTypes
<1>8. CASE CloseSignals \/ CloseJoins \/ Closed
  BY <1>8, CloseKeepsTypes
<1>9. CASE UNCHANGED vars
  BY <1>9
  DEF vars, workerVars, poolVars, TypeInv, TypeOK, WorkerTypeOK, PoolTypeOK,
      ControlTypeOK, BatchTypeOK, HoldsTask, RequeueReturns
<1> QED
  BY <1>1, <1>2, <1>3, <1>4, <1>5, <1>6, <1>7, <1>8, <1>9
  DEF Next, Coordinator, ControlStep, Terminated

\* Every state of the pool is well typed: queues hold tasks and messages only,
\* the books of the coordinator speak of its own workers, the monitor pass
\* stays in range.
THEOREM TypeCorrect == Spec => []TypeOK
<1>1. TypeInv => TypeOK
  BY DEF TypeInv
<1> QED
  BY InitTypes, NextKeepsTypes, <1>1, PTL DEF Spec

-----------------------------------------------------------------------------
(* What _restart_worker does, as the invariants see it.                    *)

\* The old process is gone; a replacement has a generation of its own.
Replaced(w) ==
    /\ state'[w] \in {"booting", "exited"}
    /\ generation'[w] \in {generation[w], generation[w] + 1}
    /\ state'[w] = "booting" => generation'[w] = generation[w] + 1
    /\ generation' \in [Workers -> Nat]
    /\ \A v \in Workers \ {w} :
         state'[v] = state[v] /\ generation'[v] = generation[v]

\* What it had in flight is forgotten, or is now in the coordinator's hands.
Restarts(w, from) ==
    /\ Replaced(w)
    /\ held'[w] = NoTask /\ inFlight'[w] = NoTask
    /\ \A v \in Workers \ {w} : held'[v] = held[v] /\ inFlight'[v] = inFlight[v]
    /\ UNCHANGED <<taskQueue, spool, caller>>
    /\ \/ pc' = from /\ UNCHANGED <<target, requeued>>
       \/ /\ pc' = "requeue" /\ target' = w
          /\ inFlight[w] # NoTask /\ requeued' = inFlight[w]

\* It is called for a "fatal" that was just read, and by the monitor.
FatalRestarts ==
    Receive("fatal") /\ Restarts(Message.worker, "drain") /\ UNCHANGED batchVars
MonitorRestarts ==
    /\ pc = "monitor" /\ scan \in Workers
    /\ Restarts(scan, "monitor") /\ UNCHANGED <<resultQueue, batchVars>>

LEMMA RespawnReplaces ==
    ASSUME TypeOK, NEW w \in Workers, Respawn(w) PROVE Replaced(w)
<1>1. /\ \/ /\ generation' = [generation EXCEPT ![w] = @ + 1]
            /\ state' = [state EXCEPT ![w] = "booting"]
         \/ /\ UNCHANGED generation
            /\ state' = [state EXCEPT ![w] = "exited"]
  BY DEF Respawn
<1>2. generation \in [Workers -> Nat] /\ state \in [Workers -> States]
  BY DEF TypeOK, WorkerTypeOK
<1> QED
  BY <1>1, <1>2 DEF Replaced

LEMMA RestartReplaces ==
    ASSUME TypeOK, NEW w \in Workers, NEW from, RestartWorker(w, from)
    PROVE  Restarts(w, from)
<1>1. Kill(w) /\ UNCHANGED <<taskQueue, spool, caller>>
  BY DEF RestartWorker
<1>2. \/ pc' = from /\ UNCHANGED <<target, requeued>>
      \/ /\ pc' = "requeue" /\ target' = w
         /\ inFlight[w] # NoTask /\ requeued' = inFlight[w]
  BY DEF RestartWorker, Continue
<1>3. \/ Respawn(w)
      \/ state' = [state EXCEPT ![w] = "exited"] /\ UNCHANGED generation
  BY DEF RestartWorker
<1>4. Replaced(w)
  <2>1. CASE Respawn(w)
    BY <2>1, RespawnReplaces
  <2>2. CASE state' = [state EXCEPT ![w] = "exited"] /\ UNCHANGED generation
    BY <2>2 DEF Replaced, TypeOK, WorkerTypeOK
  <2> QED
    BY <1>3, <2>1, <2>2
<1>5. held'[w] = NoTask
  BY <1>1 DEF Kill, TypeOK, WorkerTypeOK
<1> QED
  BY <1>1, <1>2, <1>4, <1>5, KillType DEF Restarts

LEMMA RestartCalls ==
    ASSUME TypeOK
    PROVE  /\ ReceiveFatal => FatalRestarts
           /\ MonitorDead \/ MonitorStale => MonitorRestarts
<1>1. ASSUME ReceiveFatal PROVE FatalRestarts
  <2>1. Message.worker \in Workers
    BY <1>1, ReceiveType DEF ReceiveFatal, MessageTypes
  <2> QED
    BY <1>1, <2>1, RestartReplaces DEF ReceiveFatal, FatalRestarts
<1>2. ASSUME MonitorDead \/ MonitorStale PROVE MonitorRestarts
  <2>1. /\ pc = "monitor" /\ scan < NumWorkers
        /\ RestartWorker(scan, "monitor") /\ UNCHANGED <<resultQueue, batchVars>>
    BY <1>2 DEF MonitorDead, MonitorStale, Fault
  <2>2. scan \in Workers
    BY <2>1, NumWorkersAssumption DEF TypeOK, ControlTypeOK, Workers
  <2> QED
    BY <2>1, <2>2, RestartReplaces DEF MonitorRestarts
<1> QED
  BY <1>1, <1>2

-----------------------------------------------------------------------------
(* Stale results never meet a successor's task.                            *)

\* A new message carries its worker's current generation, the largest there is.
LEMMA EmitKeepsOrder ==
    ASSUME TypeOK, StaleInv,
           NEW w \in Workers, NEW type \in MessageTypes,
           NEW task \in Tasks \cup {NoTask}, NEW status \in Statuses,
           Emit(w, type, task, status), UNCHANGED <<generation, poolVars>>
    PROVE  StaleInv'
<1> DEFINE msg == [type |-> type, worker |-> w, gen |-> generation[w],
                   task |-> task, status |-> status]
           n == Len(resultQueue)
<1>1. /\ resultQueue \in Seq(Messages) /\ msg \in Messages
      /\ resultQueue' = Append(resultQueue, msg)
  BY DEF Emit, TypeOK, WorkerTypeOK, Messages
<1>2. /\ Len(resultQueue') = n + 1 /\ n \in Nat
      /\ resultQueue'[n + 1] = msg
      /\ \A i \in 1 .. n : resultQueue'[i] = resultQueue[i]
  BY <1>1
<1>3. \A i \in 1 .. n : resultQueue[i] \in Messages
  BY <1>1
<1>4. GenerationsSorted'
  <2> SUFFICES ASSUME NEW i \in 1 .. n + 1, NEW j \in 1 .. n + 1, i < j,
                      resultQueue'[i].worker = resultQueue'[j].worker
               PROVE  resultQueue'[i].gen <= resultQueue'[j].gen
    BY <1>2 DEF GenerationsSorted
  <2>1. CASE j = n + 1
    <3>1. i \in 1 .. n /\ resultQueue'[j] = msg /\ resultQueue'[i] = resultQueue[i]
      BY <1>2, <2>1
    <3>2. resultQueue[i].gen <= generation[resultQueue[i].worker]
      BY <3>1 DEF StaleInv, NoFutureGeneration
    <3> QED
      BY <3>1, <3>2
  <2>2. CASE j # n + 1
    <3>1. i \in 1 .. n /\ j \in 1 .. n
      BY <1>2, <2>2
    <3> QED
      BY <1>2, <3>1 DEF StaleInv, GenerationsSorted
  <2> QED
    BY <2>1, <2>2
<1>5. NoFutureGeneration'
  <2> SUFFICES ASSUME NEW i \in 1 .. n + 1
               PROVE  resultQueue'[i].gen <= generation[resultQueue'[i].worker]
    BY <1>2 DEF NoFutureGeneration
  <2>1. CASE i = n + 1
    BY <1>2, <2>1 DEF TypeOK, WorkerTypeOK
  <2>2. CASE i # n + 1
    BY <1>2, <2>2 DEF StaleInv, NoFutureGeneration
  <2> QED
    BY <2>1, <2>2
<1>6. StaleBeforeInFlight'
  <2> SUFFICES ASSUME NEW i \in 1 .. n + 1,
                      inFlight[resultQueue'[i].worker] # NoTask
               PROVE  resultQueue'[i].gen = generation[resultQueue'[i].worker]
    BY <1>2 DEF StaleBeforeInFlight, poolVars
  <2>1. CASE i = n + 1
    BY <1>2, <2>1
  <2>2. CASE i # n + 1
    BY <1>2, <2>2 DEF StaleInv, StaleBeforeInFlight
  <2> QED
    BY <2>1, <2>2
<1>7. RequeuePopped'
  BY DEF StaleInv, RequeuePopped, poolVars
<1> QED
  BY <1>4, <1>5, <1>6, <1>7 DEF StaleInv

\* Reading the head leaves the rest in order.
LEMMA TailKeepsOrder ==
    ASSUME TypeOK, StaleInv, resultQueue # <<>>,
           resultQueue' = Tail(resultQueue)
    PROVE  /\ Len(resultQueue') = Len(resultQueue) - 1
           /\ \A i \in 1 .. Len(resultQueue') :
                /\ i + 1 \in 1 .. Len(resultQueue)
                /\ resultQueue'[i] = resultQueue[i + 1]
                /\ resultQueue'[i] \in Messages
           /\ GenerationsSorted'
<1>1. /\ resultQueue \in Seq(Messages)
      /\ Len(resultQueue') = Len(resultQueue) - 1 /\ Len(resultQueue) \in Nat
      /\ \A i \in 1 .. Len(resultQueue') : resultQueue'[i] = resultQueue[i + 1]
  BY HeadTailProperties DEF TypeOK, WorkerTypeOK
<1>2. \A i \in 1 .. Len(resultQueue') :
          i + 1 \in 1 .. Len(resultQueue) /\ resultQueue'[i] \in Messages
  BY <1>1
<1>3. GenerationsSorted'
  <2> SUFFICES ASSUME NEW i \in 1 .. Len(resultQueue'),
                      NEW j \in 1 .. Len(resultQueue'), i < j,
                      resultQueue'[i].worker = resultQueue'[j].worker
               PROVE  resultQueue'[i].gen <= resultQueue'[j].gen
    BY DEF GenerationsSorted
  <2>1. /\ i + 1 \in 1 .. Len(resultQueue) /\ j + 1 \in 1 .. Len(resultQueue)
        /\ i + 1 < j + 1
    BY <1>1, <1>2
  <2> QED
    BY <1>1, <2>1 DEF StaleInv, GenerationsSorted
<1> QED
  BY <1>1, <1>2, <1>3

\* Reading a message without touching in_flight, except perhaps to pop it.
LEMMA ReadKeepsOrder ==
    ASSUME TypeOK, StaleInv, resultQueue # <<>>,
           resultQueue' = Tail(resultQueue), UNCHANGED <<generation, pc>>,
           pc = "drain",
           \A w \in Workers : inFlight'[w] \in {inFlight[w], NoTask}
    PROVE  StaleInv'
<1>1. GenerationsSorted'
  BY TailKeepsOrder
<1>2. NoFutureGeneration'
  BY TailKeepsOrder DEF StaleInv, NoFutureGeneration
<1>3. StaleBeforeInFlight'
  <2> SUFFICES ASSUME NEW i \in 1 .. Len(resultQueue'),
                      inFlight'[resultQueue'[i].worker] # NoTask
               PROVE  resultQueue'[i].gen = generation[resultQueue'[i].worker]
    BY DEF StaleBeforeInFlight
  <2>1. /\ i + 1 \in 1 .. Len(resultQueue) /\ resultQueue'[i] = resultQueue[i + 1]
        /\ resultQueue'[i].worker \in Workers
    BY TailKeepsOrder DEF Messages
  <2> QED
    BY <2>1 DEF StaleInv, StaleBeforeInFlight
<1>4. RequeuePopped'
  BY DEF RequeuePopped
<1> QED
  BY <1>1, <1>2, <1>3, <1>4 DEF StaleInv

\* "started" of the current generation: everything still queued for that worker
\* comes after it, hence from the same generation.
LEMMA StartedKeepsOrder ==
    ASSUME TypeOK, StaleInv, ReceiveStarted PROVE StaleInv'
<1> DEFINE w == Message.worker
<1>1. /\ resultQueue # <<>> /\ resultQueue' = Tail(resultQueue)
      /\ Message.gen = generation[w] /\ pc = "drain"
      /\ inFlight' = [inFlight EXCEPT ![w] = Message.task]
      /\ UNCHANGED <<generation, pc>>
  BY DEF ReceiveStarted, Receive, Stale, controlVars
<1>2. resultQueue[1] = Message /\ 1 \in 1 .. Len(resultQueue) /\ w \in Workers
  <2>1. resultQueue \in Seq(Messages)
    BY DEF TypeOK, WorkerTypeOK
  <2>2. resultQueue[1] = Message /\ 1 \in 1 .. Len(resultQueue)
    BY <1>1, <2>1 DEF Message
  <2>3. resultQueue[1] \in Messages
    BY <2>1, <2>2
  <2> QED
    BY <2>2, <2>3 DEF Messages
<1>3. GenerationsSorted'
  BY <1>1, TailKeepsOrder
<1>4. NoFutureGeneration'
  BY <1>1, TailKeepsOrder DEF StaleInv, NoFutureGeneration
<1>5. StaleBeforeInFlight'
  <2> SUFFICES ASSUME NEW i \in 1 .. Len(resultQueue'),
                      inFlight'[resultQueue'[i].worker] # NoTask
               PROVE  resultQueue'[i].gen = generation[resultQueue'[i].worker]
    BY <1>1 DEF StaleBeforeInFlight
  <2> DEFINE m == resultQueue[i + 1]
  <2>1. /\ i + 1 \in 1 .. Len(resultQueue) /\ resultQueue'[i] = m
        /\ m.worker \in Workers /\ m.gen \in Nat
    BY <1>1, TailKeepsOrder DEF Messages
  <2>2. CASE m.worker = w
    <3>1. Message.gen <= m.gen
      BY <1>2, <2>1, <2>2 DEF StaleInv, GenerationsSorted
    <3>2. m.gen <= generation[w]
      BY <2>1, <2>2 DEF StaleInv, NoFutureGeneration
    <3>3. generation[w] \in Nat
      BY <1>2 DEF TypeOK, WorkerTypeOK
    <3> QED
      BY <1>1, <2>1, <2>2, <3>1, <3>2, <3>3
  <2>3. CASE m.worker # w
    <3>1. inFlight'[m.worker] = inFlight[m.worker]
      BY <1>1, <2>1, <2>3 DEF TypeOK, PoolTypeOK
    <3> QED
      BY <2>1, <3>1 DEF StaleInv, StaleBeforeInFlight
  <2> QED
    BY <2>2, <2>3
<1>6. RequeuePopped'
  <2>1. pc' # "requeue"
    BY <1>1
  <2> QED
    BY <2>1 DEF RequeuePopped
<1> QED
  BY <1>3, <1>4, <1>5, <1>6 DEF StaleInv

\* The generation of a worker advances only when it has no task in flight.
LEMMA RespawnKeepsOrder ==
    ASSUME TypeOK, NEW w \in Workers,
           GenerationsSorted', NEW q \in Seq(Messages), resultQueue' = q,
           \A i \in 1 .. Len(q) : q[i].gen <= generation[q[i].worker],
           \A i \in 1 .. Len(q) :
              inFlight'[q[i].worker] # NoTask => q[i].gen = generation[q[i].worker],
           inFlight'[w] = NoTask,
           generation' \in [Workers -> Nat],
           generation'[w] \in {generation[w], generation[w] + 1},
           \A v \in Workers \ {w} : generation'[v] = generation[v],
           RequeuePopped'
    PROVE  StaleInv'
<1>1. \A i \in 1 .. Len(q) : q[i].worker \in Workers /\ q[i].gen \in Nat
  <2>1. \A i \in 1 .. Len(q) : q[i] \in Messages
    OBVIOUS
  <2> QED
    BY <2>1 DEF Messages
<1>2. ASSUME NEW v \in Workers
      PROVE  generation[v] \in Nat /\ generation[v] <= generation'[v]
  <2>1. generation[v] \in Nat
    BY DEF TypeOK, WorkerTypeOK
  <2>2. CASE v = w
    BY <2>1, <2>2
  <2>3. CASE v # w
    BY <2>1, <2>3
  <2> QED
    BY <2>1, <2>2, <2>3
<1>3. NoFutureGeneration'
  <2> SUFFICES ASSUME NEW i \in 1 .. Len(q)
               PROVE  q[i].gen <= generation'[q[i].worker]
    BY DEF NoFutureGeneration
  <2>1. /\ q[i].gen <= generation[q[i].worker]
        /\ generation[q[i].worker] <= generation'[q[i].worker]
    BY <1>1, <1>2
  <2>2. /\ q[i].gen \in Nat /\ generation[q[i].worker] \in Nat
        /\ generation'[q[i].worker] \in Nat
    BY <1>1, <1>2
  <2> QED
    BY <2>1, <2>2
<1>4. StaleBeforeInFlight'
  <2> SUFFICES ASSUME NEW i \in 1 .. Len(q), inFlight'[q[i].worker] # NoTask
               PROVE  q[i].gen = generation'[q[i].worker]
    BY DEF StaleBeforeInFlight
  <2>1. q[i].worker \in Workers \ {w}
    BY <1>1
  <2> QED
    BY <2>1
<1> QED
  BY <1>3, <1>4 DEF StaleInv

\* _restart_worker pops the in-flight task before the generation can advance,
\* whether it was called on a message just read or by the monitor.
LEMMA RestartKeepsOrder ==
    ASSUME TypeOK, NEW w \in Workers, NEW from \in {"drain", "monitor"},
           Restarts(w, from),
           GenerationsSorted', NEW q \in Seq(Messages), resultQueue' = q,
           \A i \in 1 .. Len(q) : q[i].gen <= generation[q[i].worker],
           \A i \in 1 .. Len(q) :
              inFlight[q[i].worker] # NoTask => q[i].gen = generation[q[i].worker]
    PROVE  StaleInv'
<1>1. /\ inFlight'[w] = NoTask
      /\ \A v \in Workers \ {w} : inFlight'[v] = inFlight[v]
  BY DEF Restarts
<1>2. \A i \in 1 .. Len(q) :
        inFlight'[q[i].worker] # NoTask => q[i].gen = generation[q[i].worker]
  <2> SUFFICES ASSUME NEW i \in 1 .. Len(q), inFlight'[q[i].worker] # NoTask
               PROVE  q[i].gen = generation[q[i].worker]
    OBVIOUS
  <2>1. q[i] \in Messages
    OBVIOUS
  <2>2. q[i].worker \in Workers \ {w}
    BY <1>1, <2>1 DEF Messages
  <2> QED
    BY <1>1, <2>2
<1>3. /\ generation' \in [Workers -> Nat]
      /\ generation'[w] \in {generation[w], generation[w] + 1}
      /\ \A v \in Workers \ {w} : generation'[v] = generation[v]
  BY DEF Restarts, Replaced
<1>4. RequeuePopped'
  BY <1>1 DEF Restarts, RequeuePopped
<1> QED
  BY <1>1, <1>2, <1>3, <1>4, RespawnKeepsOrder

\* The monitor restarts a worker without reading any message.
LEMMA MonitorKeepsOrder ==
    ASSUME TypeOK, StaleInv, MonitorRestarts PROVE StaleInv'
<1>1. scan \in Workers /\ Restarts(scan, "monitor") /\ UNCHANGED resultQueue
  BY DEF MonitorRestarts
<1>2. resultQueue \in Seq(Messages)
  BY DEF TypeOK, WorkerTypeOK
<1>3. GenerationsSorted'
  BY <1>1 DEF StaleInv, GenerationsSorted
<1>4. /\ \A i \in 1 .. Len(resultQueue) :
            resultQueue[i].gen <= generation[resultQueue[i].worker]
      /\ \A i \in 1 .. Len(resultQueue) :
            inFlight[resultQueue[i].worker] # NoTask
              => resultQueue[i].gen = generation[resultQueue[i].worker]
  BY DEF StaleInv, NoFutureGeneration, StaleBeforeInFlight
<1> QED
  BY <1>1, <1>2, <1>3, <1>4, RestartKeepsOrder

\* "fatal" restarts its worker after it was read.
LEMMA FatalKeepsOrder ==
    ASSUME TypeOK, StaleInv, FatalRestarts PROVE StaleInv'
<1>1. /\ resultQueue # <<>> /\ resultQueue' = Tail(resultQueue)
      /\ Restarts(Message.worker, "drain")
  BY DEF FatalRestarts, Receive
<1>2. Message.worker \in Workers
  <2>1. Message \in Messages
    BY <1>1 DEF Message, TypeOK, WorkerTypeOK
  <2> QED
    BY <2>1 DEF Messages
<1>3. resultQueue' \in Seq(Messages)
  BY <1>1 DEF TypeOK, WorkerTypeOK
<1>4. GenerationsSorted'
  BY <1>1, TailKeepsOrder
<1>5. \A i \in 1 .. Len(resultQueue') :
        /\ resultQueue'[i].gen <= generation[resultQueue'[i].worker]
        /\ inFlight[resultQueue'[i].worker] # NoTask
              => resultQueue'[i].gen = generation[resultQueue'[i].worker]
  BY <1>1, TailKeepsOrder DEF StaleInv, NoFutureGeneration, StaleBeforeInFlight
<1> QED
  BY <1>1, <1>2, <1>3, <1>4, <1>5, RestartKeepsOrder

\* The put of _restart_worker is followed by the respawn.
LEMMA RequeueKeepsOrder ==
    ASSUME TypeInv, StaleInv, Requeue PROVE StaleInv'
<1>1. /\ TypeOK /\ target \in Workers
      /\ site \in {"drain", "monitor"} /\ (site = "monitor" => scan < NumWorkers)
      /\ Respawn(target) /\ Continue(site)
      /\ UNCHANGED <<resultQueue, inFlight>>
  BY DEF Requeue, TypeInv, TypeOK, ControlTypeOK, RequeueReturns
<1>2. inFlight'[target] = NoTask
  BY <1>1 DEF Requeue, StaleInv, RequeuePopped
<1>3. resultQueue \in Seq(Messages)
  BY <1>1 DEF TypeOK, WorkerTypeOK
<1>4. GenerationsSorted'
  BY <1>1 DEF StaleInv, GenerationsSorted
<1>5. /\ \A i \in 1 .. Len(resultQueue) :
            resultQueue[i].gen <= generation[resultQueue[i].worker]
      /\ \A i \in 1 .. Len(resultQueue) :
            inFlight'[resultQueue[i].worker] # NoTask
              => resultQueue[i].gen = generation[resultQueue[i].worker]
  BY <1>1 DEF StaleInv, NoFutureGeneration, StaleBeforeInFlight
<1>6. RequeuePopped'
  BY <1>1, ContinueType DEF RequeuePopped
<1>7. /\ generation' \in [Workers -> Nat]
      /\ generation'[target] \in {generation[target], generation[target] + 1}
      /\ \A v \in Workers \ {target} : generation'[v] = generation[v]
  BY <1>1, RespawnReplaces DEF Replaced
<1> QED
  BY <1>1, <1>2, <1>3, <1>4, <1>5, <1>6, <1>7, RespawnKeepsOrder

\* Steps that touch neither the result queue nor a generation, put nothing in
\* flight and do not start to put a task back.
LEMMA QuietKeepsOrder ==
    ASSUME TypeOK, StaleInv, UNCHANGED <<resultQueue, generation>>,
           inFlight' = inFlight \/ inFlight' = [w \in Workers |-> NoTask],
           pc' = "requeue" => UNCHANGED <<pc, target, inFlight>>
    PROVE  StaleInv'
<1>1. GenerationsSorted' /\ NoFutureGeneration'
  BY DEF StaleInv, GenerationsSorted, NoFutureGeneration
<1>2. RequeuePopped'
  BY DEF StaleInv, RequeuePopped
<1>3. StaleBeforeInFlight'
  <2> SUFFICES ASSUME NEW i \in 1 .. Len(resultQueue),
                      inFlight'[resultQueue[i].worker] # NoTask
               PROVE  resultQueue[i].gen = generation[resultQueue[i].worker]
    BY DEF StaleBeforeInFlight
  <2>1. resultQueue[i] \in Messages
    BY DEF TypeOK, WorkerTypeOK
  <2>2. inFlight' = inFlight
    BY <2>1 DEF Messages
  <2> QED
    BY <2>2 DEF StaleInv, StaleBeforeInFlight
<1> QED
  BY <1>1, <1>2, <1>3 DEF StaleInv

\* A worker's step only ever appends a message of its own generation.
LEMMA WorkerKeepsOrder ==
    ASSUME TypeInv, StaleInv, NEW w \in Workers, Worker(w) PROVE StaleInv'
<1>1. TypeOK /\ UNCHANGED poolVars
  BY DEF TypeInv, Worker
<1>2. state[w] \in {"loaded", "verifying"} => held[w] \in Tasks
  BY DEF TypeInv, HoldsTask
<1>3. CASE UNCHANGED <<resultQueue, generation>>
  <2>1. UNCHANGED <<pc, target, inFlight>>
    BY <1>1 DEF poolVars
  <2> QED
    BY <1>1, <1>3, <2>1, QuietKeepsOrder
<1>4. CASE /\ UNCHANGED generation
           /\ \E type \in MessageTypes, task \in Tasks \cup {NoTask},
                 status \in Statuses : Emit(w, type, task, status)
  BY <1>1, <1>4, EmitKeepsOrder
<1> QED
  <2>1. CASE WarmUp(w) \/ WarmUpFails(w)
    BY <1>4, <2>1 DEF WarmUp, WarmUpFails, MessageTypes, Statuses
  <2>2. CASE Dequeue(w) \/ Raise(w) \/ Hang(w) \/ Crash(w)
    BY <1>3, <2>2 DEF Dequeue, Raise, Hang, Crash
  <2>3. CASE EmitStarted(w)
    BY <1>2, <1>4, <2>3 DEF EmitStarted, MessageTypes, Statuses
  <2>4. CASE Finish(w)
    BY <1>2, <1>4, <2>4 DEF Finish, MessageTypes, Statuses
  <2>5. CASE EmitFatal(w) \/ EmitDone(w)
    BY <1>4, <2>5 DEF EmitFatal, EmitDone, MessageTypes, Statuses
  <2> QED
    BY <2>1, <2>2, <2>3, <2>4, <2>5 DEF Worker, WorkerProgress, WorkerFault

\* The coordinator reads a message of an old generation, a warm-up report, a
\* result or "done": at most it pops what was in flight.
LEMMA ReadsKeepOrder ==
    ASSUME TypeOK, StaleInv,
           ReceiveStale \/ ReceiveWarmup \/ ReceiveResult \/ ReceiveDone
    PROVE  StaleInv'
<1>1. /\ resultQueue # <<>> /\ resultQueue' = Tail(resultQueue)
      /\ pc = "drain" /\ UNCHANGED <<generation, pc>>
  BY DEF ReceiveStale, ReceiveWarmup, ReceiveResult, ReceiveDone, Receive,
         poolVars, controlVars
<1>2. \/ inFlight' = inFlight
      \/ \E w : inFlight' = [inFlight EXCEPT ![w] = NoTask]
  BY DEF ReceiveStale, ReceiveWarmup, ReceiveResult, ReceiveDone, poolVars
<1>3. \A w \in Workers : inFlight'[w] \in {inFlight[w], NoTask}
  BY <1>2 DEF TypeOK, PoolTypeOK
<1> QED
  BY <1>1, <1>3, ReadKeepsOrder

\* Every other step of the coordinator.
LEMMA CoordinatorKeepsOrder ==
    ASSUME TypeInv, StaleInv, Coordinator \/ RunBatch \/ Close PROVE StaleInv'
<1>1. TypeOK
  BY DEF TypeInv
<1>2. CASE ReceiveStale \/ ReceiveWarmup \/ ReceiveResult \/ ReceiveDone
  BY <1>1, <1>2, ReadsKeepOrder
<1>3. CASE ReceiveStarted
  BY <1>1, <1>3, StartedKeepsOrder
<1>4. CASE ReceiveFatal
  BY <1>1, <1>4, RestartCalls, FatalKeepsOrder
<1>5. CASE Requeue
  BY <1>5, RequeueKeepsOrder
<1>6. CASE MonitorDead
  BY <1>1, <1>6, RestartCalls, MonitorKeepsOrder
<1>7. CASE ControlStep \/ RunBatch
  <2>1. UNCHANGED <<resultQueue, generation, inFlight>> /\ pc' # "requeue"
    BY <1>7
    DEF ControlStep, StartDrains, Started, PutFull, AllSubmitted, WaitDrains,
        Return, Accepted, Close, DrainedAll, MonitorHealthy, DrainReturns,
        StartMonitors, RunBatch, workerVars
  <2> QED
    BY <1>1, <2>1, QuietKeepsOrder
<1>8. CASE (\E t \in todo : Submit(t)) \/ Put \/ Accept
  <2>1. UNCHANGED <<resultQueue, generation, inFlight>> /\ pc' # "requeue"
    BY <1>8 DEF Submit, Put, Accept, workerVars, controlVars
  <2> QED
    BY <1>1, <2>1, QuietKeepsOrder
<1>9. CASE FullReturns \/ StartContinues
  <2>1. UNCHANGED <<resultQueue, generation, inFlight>> /\ pc' # "requeue"
    BY <1>9 DEF FullReturns, StartContinues, RaiseError, workerVars
  <2> QED
    BY <1>1, <2>1, QuietKeepsOrder
<1>10. CASE CloseSignals \/ CloseJoins \/ Closed
  <2>1. /\ UNCHANGED <<resultQueue, generation>> /\ pc' # "requeue"
        /\ inFlight' = inFlight \/ inFlight' = [w \in Workers |-> NoTask]
    BY <1>10 DEF CloseSignals, CloseJoins, Closed
  <2> QED
    BY <1>1, <2>1, QuietKeepsOrder
<1> QED
  BY <1>2, <1>3, <1>4, <1>5, <1>6, <1>7, <1>8, <1>9, <1>10
  DEF Coordinator, ControlStep

\* Every step keeps the messages of each worker in the order of its generations.
LEMMA NextKeepsOrder ==
    ASSUME TypeInv, StaleInv, [Next]_vars PROVE StaleInv'
<1>1. TypeOK
  BY DEF TypeInv
<1>2. CASE \E w \in Workers : Worker(w)
  BY <1>2, WorkerKeepsOrder
<1>3. CASE Coordinator \/ RunBatch \/ Close
  BY <1>3, CoordinatorKeepsOrder
<1>4. CASE MonitorStale
  BY <1>1, <1>4, RestartCalls, MonitorKeepsOrder
<1>5. CASE UNCHANGED vars
  <2>1. UNCHANGED <<resultQueue, generation, inFlight, pc, target>>
    BY <1>5 DEF vars, workerVars, poolVars
  <2> QED
    BY <1>1, <2>1, QuietKeepsOrder
<1> QED
  BY <1>2, <1>3, <1>4, <1>5 DEF Next, Terminated

\* A worker that has a task in flight has no message of an earlier generation
\* left to be read: _restart_worker pops in_flight before it respawns, the queue
\* is in order, and "started" is only believed from the live generation.  So the
\* result of a replaced process can neither pop nor unlink its successor's task.
THEOREM StaleNeverMeetsSuccessor == Spec => []StaleBeforeInFlight
<1>1. Init => TypeInv /\ StaleInv
  <2>1. Init => TypeInv
    BY InitTypes
  <2>2. Init => StaleInv
    BY DEF Init, WorkerInit, StaleInv, GenerationsSorted, NoFutureGeneration,
           RequeuePopped, StaleBeforeInFlight
  <2> QED
    BY <2>1, <2>2
<1>2. TypeInv /\ StaleInv /\ [Next]_vars => TypeInv' /\ StaleInv'
  BY NextKeepsTypes, NextKeepsOrder
<1>3. StaleInv => StaleBeforeInFlight
  BY DEF StaleInv
<1> QED
  BY <1>1, <1>2, <1>3, PTL DEF Spec

-----------------------------------------------------------------------------
(* run_batch implements BatchVerification.                                 *)

\* What run_batch delivers to its caller.
Delivered == [i \in 1 .. Len(results) |-> results[i].task]

\* What BatchVerification speaks of.
Books == <<batch, expected, results, outcome>>

\* A step that moves the coordinator without touching the books: it may go on
\* between places of a running call, or after the end of one.
LEMMA MoveKeepsDelivery ==
    ASSUME DeliveryInv, UNCHANGED <<Books, todo, completed>>,
           \/ pc \in Running /\ pc' \in Running
           \/ pc = "returned" /\ pc' = "close"
           \/ {pc, pc'} \subseteq {"close", "join", "closed"}
           \/ pc' = pc,
           pc' = "wait" \/ caller' = "wait" => todo = {},
           caller' # "none" => pc' \in {"drain", "monitor", "requeue", "accept"}
    PROVE  DeliveryInv'
<1>1. OutcomeKnown'
  BY DEF DeliveryInv, OutcomeKnown, Books, Running
<1>2. SubmitsAll'
  BY DEF SubmitsAll
<1>3. BatchSplit' /\ CompletedDelivered'
  BY DEF DeliveryInv, BatchSplit, CompletedDelivered, Books
<1> QED
  BY <1>1, <1>2, <1>3 DEF DeliveryInv

\* _restart_worker goes on in drain or in the monitor, or starts to put back.
LEMMA RestartMoves ==
    ASSUME NEW w, NEW from \in {"drain", "monitor"}, RestartWorker(w, from)
    PROVE  pc' \in {from, "requeue"} /\ caller' = caller
  BY DEF RestartWorker, Continue

\* The steps of the coordinator that leave the books alone.
LEMMA QuietKeepsDelivery ==
    ASSUME TypeInv, DeliveryInv,
           \/ StartDrains \/ Started \/ Put \/ PutFull \/ AllSubmitted
           \/ WaitDrains \/ Accepted \/ Requeue \/ ReceiveStale \/ ReceiveWarmup
           \/ ReceiveStarted \/ ReceiveResult \/ ReceiveFatal \/ ReceiveDone
           \/ DrainedAll \/ MonitorDead \/ MonitorStale \/ MonitorHealthy
           \/ DrainReturns \/ StartMonitors \/ Close \/ CloseSignals
           \/ CloseJoins \/ Closed
    PROVE  DeliveryInv'
<1>1. SubmitsAll /\ UNCHANGED <<Books, todo, completed>>
  BY DEF StartDrains, Started, Put, PutFull, AllSubmitted, WaitDrains, Accepted,
         Requeue, ReceiveStale, ReceiveWarmup, ReceiveStarted, ReceiveResult,
         ReceiveFatal, ReceiveDone, DrainedAll, MonitorDead, MonitorStale,
         MonitorHealthy, DrainReturns, StartMonitors, Close, CloseSignals,
         CloseJoins, Closed, DeliveryInv, Books, batchVars, poolVars
<1>2. CASE StartDrains \/ Started \/ Put \/ PutFull \/ AllSubmitted \/ WaitDrains
  <2>1. pc \in Running /\ pc' \in Running
    BY <1>2 DEF StartDrains, Started, Put, PutFull, AllSubmitted, WaitDrains, Running
  <2>2. /\ pc' = "wait" \/ caller' = "wait" => todo = {}
        /\ caller' # "none" => pc' \in {"drain", "monitor", "requeue", "accept"}
    BY <1>1, <1>2
    DEF StartDrains, Started, Put, PutFull, AllSubmitted, WaitDrains, SubmitsAll
  <2> QED
    BY <1>1, <2>1, <2>2, MoveKeepsDelivery
<1>3. CASE Accepted \/ DrainedAll \/ DrainReturns \/ StartMonitors \/ MonitorHealthy
  <2>1. pc \in Running /\ pc' \in Running
    BY <1>3
    DEF Accepted, DrainedAll, DrainReturns, StartMonitors, MonitorHealthy, Running
  <2>2. /\ pc' = "wait" \/ caller' = "wait" => todo = {}
        /\ caller' # "none" => pc' \in {"drain", "monitor", "requeue", "accept"}
    BY <1>1, <1>3
    DEF Accepted, DrainedAll, DrainReturns, StartMonitors, MonitorHealthy,
        SubmitsAll
  <2> QED
    BY <1>1, <2>1, <2>2, MoveKeepsDelivery
<1>4. CASE ReceiveStale \/ ReceiveWarmup \/ ReceiveStarted \/ ReceiveResult \/ ReceiveDone
  <2>1. UNCHANGED <<pc, caller>>
    BY <1>4
    DEF ReceiveStale, ReceiveWarmup, ReceiveStarted, ReceiveResult, ReceiveDone,
        poolVars, controlVars
  <2> QED
    BY <1>1, <2>1, MoveKeepsDelivery DEF SubmitsAll
<1>5. CASE ReceiveFatal \/ MonitorDead \/ MonitorStale
  <2>1. \/ pc = "drain" /\ RestartWorker(Message.worker, "drain")
        \/ pc = "monitor" /\ RestartWorker(scan, "monitor")
    BY <1>5 DEF ReceiveFatal, Receive, MonitorDead, MonitorStale
  <2>2. /\ pc \in {"drain", "monitor"} /\ pc' \in {pc, "requeue"}
        /\ caller' = caller
    BY <2>1, RestartMoves
  <2> QED
    BY <1>1, <2>2, MoveKeepsDelivery DEF SubmitsAll, Running
<1>6. CASE Requeue
  <2>1. /\ pc = "requeue" /\ pc' \in {"drain", "monitor"}
        /\ caller' = caller
    BY <1>6 DEF Requeue, Continue, TypeInv, RequeueReturns
  <2> QED
    BY <1>1, <2>1, MoveKeepsDelivery DEF SubmitsAll, Running
<1>7. CASE Close \/ CloseSignals \/ CloseJoins \/ Closed
  <2>1. /\ \/ pc = "returned" /\ pc' = "close"
           \/ {pc, pc'} \subseteq {"close", "join", "closed"}
        /\ caller' = caller
    BY <1>7 DEF Close, CloseSignals, CloseJoins, Closed
  <2> QED
    BY <1>1, <2>1, MoveKeepsDelivery DEF SubmitsAll
<1> QED
  BY <1>2, <1>3, <1>4, <1>5, <1>6, <1>7

\* The next call of run_batch, whichever workers it spawns.
Called ==
    /\ pc \in {"down", "returned"} /\ pc' \in {"start", "batch"}
    /\ batch < Len(Batches) /\ batch' = batch + 1 /\ todo' = Batches[batch + 1]
    /\ expected' = {} /\ completed' = {} /\ results' = <<>>
    /\ outcome' = "running"
    /\ UNCHANGED <<held, inFlight, generation, taskQueue, resultQueue, spool,
                   caller, target, requeued, submitting>>

LEMMA CallKeepsDelivery ==
    ASSUME TypeOK, DeliveryInv, Called PROVE DeliveryInv'
<1>1. batch \in Nat
  BY BatchesAssumption DEF TypeOK, BatchTypeOK
<1>2. /\ batch' = batch + 1 /\ todo' = Batches[batch']
      /\ expected' = {} /\ completed' = {} /\ results' = <<>>
      /\ outcome' = "running" /\ pc' \in {"start", "batch"}
      /\ caller' = caller /\ pc \in {"down", "returned"}
  BY DEF Called
<1>3. OutcomeKnown'
  BY <1>1, <1>2 DEF OutcomeKnown, Running
<1>4. SubmitsAll'
  BY <1>2 DEF DeliveryInv, SubmitsAll
<1>5. BatchSplit' /\ CompletedDelivered'
  BY <1>2 DEF BatchSplit, CompletedDelivered
<1> QED
  BY <1>3, <1>4, <1>5 DEF DeliveryInv

\* submit() moves a task from what is left to what is expected.
LEMMA SubmitKeepsDelivery ==
    ASSUME DeliveryInv, NEW t \in todo, Submit(t) PROVE DeliveryInv'
<1>1. /\ pc = "batch" /\ pc' = "put"
      /\ todo' = todo \ {t} /\ expected' = expected \cup {t}
      /\ UNCHANGED <<caller, batch, completed, results, outcome>>
  BY DEF Submit
<1>2. OutcomeKnown' /\ SubmitsAll'
  BY <1>1 DEF DeliveryInv, OutcomeKnown, SubmitsAll, Running
<1>3. BatchSplit' /\ CompletedDelivered'
  BY <1>1 DEF DeliveryInv, BatchSplit, CompletedDelivered
<1> QED
  BY <1>2, <1>3 DEF DeliveryInv

\* accept() delivers a result that is expected and new, and skips the others.
LEMMA AcceptDelivers ==
    ASSUME TypeOK, Accept
    PROVE  \/ UNCHANGED <<completed, results>>
           \/ \E r \in Results :
                /\ r.task \in expected \ completed
                /\ completed' = completed \cup {r.task}
                /\ results' = Append(results, r)
<1> DEFINE r == Head(drained)
<1>1. r \in Results
  BY DEF Accept, TypeOK, PoolTypeOK
<1>2. CASE IsNew(r)
  BY <1>1, <1>2 DEF Accept, IsNew
<1>3. CASE ~IsNew(r)
  BY <1>3 DEF Accept
<1> QED
  BY <1>2, <1>3

LEMMA AcceptKeepsDelivery ==
    ASSUME TypeOK, DeliveryInv, Accept PROVE DeliveryInv'
<1>1. UNCHANGED <<pc, caller, batch, todo, expected, outcome>>
  BY DEF Accept, controlVars
<1>2. OutcomeKnown' /\ SubmitsAll' /\ BatchSplit'
  BY <1>1 DEF DeliveryInv, OutcomeKnown, SubmitsAll, BatchSplit
<1>3. CASE UNCHANGED <<completed, results>>
  BY <1>1, <1>2, <1>3 DEF DeliveryInv, CompletedDelivered
<1>4. ASSUME NEW r \in Results, r.task \in expected \ completed,
             completed' = completed \cup {r.task}, results' = Append(results, r)
      PROVE  DeliveryInv'
  <2> DEFINE n == Len(results)
  <2>1. results \in Seq(Results)
    BY DEF TypeOK, BatchTypeOK
  <2>2. /\ n \in Nat /\ Len(results') = n + 1 /\ results'[n + 1] = r
        /\ \A i \in 1 .. n : results'[i] = results[i]
    BY <1>4, <2>1
  <2> HIDE DEF n
  <2>3. {results'[i].task : i \in 1 .. n + 1} = {results[i].task : i \in 1 .. n} \cup {r.task}
    <3>1. 1 .. n + 1 = (1 .. n) \cup {n + 1}
      BY <2>2
    <3> QED
      BY <2>2, <3>1
  <2>4. CompletedDelivered'
    BY <1>1, <1>4, <2>2, <2>3 DEF DeliveryInv, CompletedDelivered, n
  <2> QED
    BY <1>2, <2>4 DEF DeliveryInv
<1> QED
  BY <1>3, <1>4, AcceptDelivers

\* run_batch ends: it returns, or an exception leaves it.
LEMMA EndKeepsDelivery ==
    ASSUME DeliveryInv, Return \/ FullReturns \/ StartContinues PROVE DeliveryInv'
<1>1. UNCHANGED <<batch, todo, expected, completed, results>>
  BY DEF Return, FullReturns, StartContinues, RaiseError, batchVars
<1>2. BatchSplit' /\ CompletedDelivered'
  BY <1>1 DEF DeliveryInv, BatchSplit, CompletedDelivered
<1>3. OutcomeKnown'
  BY <1>1
  DEF Return, FullReturns, StartContinues, RaiseError, batchVars, DeliveryInv,
      OutcomeKnown, Running
<1>4. SubmitsAll'
  BY <1>1
  DEF Return, FullReturns, StartContinues, RaiseError, DeliveryInv, SubmitsAll
<1> QED
  BY <1>2, <1>3, <1>4 DEF DeliveryInv

\* Every step keeps the books of the current call in order.
LEMMA NextKeepsDelivery ==
    ASSUME TypeInv, DeliveryInv, [Next]_vars PROVE DeliveryInv'
<1>1. TypeOK
  BY DEF TypeInv
<1>2. CASE RunBatch
  BY <1>1, <1>2, CallKeepsDelivery DEF RunBatch, Called
<1>3. CASE \E t \in todo : Submit(t)
  BY <1>3, SubmitKeepsDelivery
<1>4. CASE Accept
  BY <1>1, <1>4, AcceptKeepsDelivery
<1>5. CASE Return \/ FullReturns \/ StartContinues
  BY <1>5, EndKeepsDelivery
<1>6. CASE (\E w \in Workers : Worker(w)) \/ UNCHANGED vars
  <2>1. UNCHANGED <<pc, caller, batch, todo, expected, completed, results, outcome>>
    BY <1>6 DEF Worker, vars, poolVars
  <2> QED
    BY <2>1
    DEF DeliveryInv, OutcomeKnown, SubmitsAll, BatchSplit, CompletedDelivered
<1> QED
  BY <1>2, <1>3, <1>4, <1>5, <1>6, QuietKeepsDelivery
  DEF Next, Coordinator, Terminated

\* A step of the pool is a step of BatchVerification, or none.
LEMMA StepKeepsPromise ==
    ASSUME TypeInv, DeliveryInv, [Next]_vars
    PROVE  [Promise!Next]_(Promise!vars)
<1>1. TypeOK /\ results \in Seq(Results)
  BY DEF TypeInv, TypeOK, BatchTypeOK
<1>2. Promise!DeliveredSet = completed
  <2>1. Len(results) \in Nat
    BY <1>1
  <2>2. Len(Delivered) = Len(results)
    BY <2>1 DEF Delivered
  <2>3. \A i \in 1 .. Len(results) : Delivered[i] = results[i].task
    BY DEF Delivered
  <2>4. Promise!DeliveredSet = {Delivered[i] : i \in 1 .. Len(Delivered)}
    BY DEF Promise!DeliveredSet, Delivered
  <2> QED
    BY <2>2, <2>3, <2>4 DEF DeliveryInv, CompletedDelivered
<1>3. CASE UNCHANGED <<batch, expected, results, outcome>>
  BY <1>3 DEF Promise!vars
<1>4. CASE RunBatch
  <2>1. Promise!Call
    BY <1>4 DEF RunBatch, Promise!Call, DeliveryInv, OutcomeKnown
  <2> QED
    BY <2>1 DEF Promise!Next
<1>5. ASSUME NEW t \in todo, Submit(t) PROVE Promise!Next
  <2>1. outcome = "running" /\ batch > 0
    BY <1>5 DEF Submit, DeliveryInv, OutcomeKnown, Running
  <2>2. t \in Batches[batch] \ expected
    BY <2>1 DEF DeliveryInv, BatchSplit
  <2>3. Promise!Submit(t)
    BY <1>5, <2>1, <2>2 DEF Submit, Promise!Submit
  <2> QED
    BY <2>1, <2>2, <2>3 DEF Promise!Next
<1>6. CASE Accept
  <2>1. /\ outcome = "running" /\ batch > 0
        /\ UNCHANGED <<batch, expected, outcome>>
    BY <1>6 DEF Accept, DeliveryInv, OutcomeKnown, Running
  <2>2. CASE UNCHANGED results
    BY <2>1, <2>2, <1>3
  <2>3. ASSUME NEW r \in Results, r.task \in expected \ completed,
               results' = Append(results, r)
        PROVE  Promise!Next
    <3> DEFINE n == Len(results)
    <3>1. /\ n \in Nat /\ Len(results') = n + 1 /\ results'[n + 1] = r
          /\ \A i \in 1 .. n : results'[i] = results[i]
      BY <1>1, <2>3
    <3>2. /\ Delivered' = [i \in 1 .. n + 1 |-> results'[i].task]
          /\ Append(Delivered, r.task)
               = [i \in 1 .. n + 1 |-> IF i = n + 1 THEN r.task ELSE results[i].task]
      <4>1. Delivered \in Seq({results[i].task : i \in 1 .. n}) /\ Len(Delivered) = n
        BY <3>1 DEF Delivered
      <4> QED
        BY <3>1, <4>1 DEF Delivered
    <3>3. Delivered' = Append(Delivered, r.task)
      BY <3>1, <3>2
    <3>4. r.task \in Batches[batch]
      BY <2>1, <2>3 DEF DeliveryInv, BatchSplit
    <3>5. Promise!Deliver(r.task)
      BY <1>2, <2>1, <2>3, <3>3 DEF Promise!Deliver, Delivered
    <3> QED
      BY <2>1, <3>4, <3>5 DEF Promise!Next
  <2> QED
    BY <1>1, <1>6, <2>2, <2>3, AcceptDelivers
<1>7. CASE Return
  <2>1. outcome = "running" /\ batch > 0 /\ todo = {}
    BY <1>7 DEF Return, DeliveryInv, OutcomeKnown, SubmitsAll, Running
  <2>2. outcome' \in {"complete", "partial"}
        /\ (outcome' = "complete" => completed = Batches[batch])
    BY <1>7, <2>1 DEF Return, DeliveryInv, BatchSplit
  <2>3. Promise!Return(outcome')
    BY <1>2, <1>7, <2>1, <2>2 DEF Return, Promise!Return
  <2> QED
    BY <2>2, <2>3 DEF Promise!Next
<1>8. CASE RaiseError /\ pc \in Running
  <2>1. Promise!Return("raised")
    BY <1>8 DEF RaiseError, Promise!Return, DeliveryInv, OutcomeKnown
  <2> QED
    BY <2>1 DEF Promise!Next
<1>9. CASE FullReturns \/ StartContinues
  <2>1. \/ RaiseError /\ pc \in Running
        \/ UNCHANGED <<batch, expected, results, outcome>>
    BY <1>9 DEF FullReturns, StartContinues, batchVars, Running
  <2> QED
    BY <1>3, <1>8, <2>1
<1>10. CASE \/ (\E w \in Workers : Worker(w)) \/ UNCHANGED vars
            \/ StartDrains \/ Started \/ Put \/ PutFull \/ AllSubmitted
            \/ WaitDrains \/ Accepted \/ Requeue \/ ReceiveStale \/ ReceiveWarmup
            \/ ReceiveStarted \/ ReceiveResult \/ ReceiveFatal \/ ReceiveDone
            \/ DrainedAll \/ MonitorDead \/ MonitorStale \/ MonitorHealthy
            \/ DrainReturns \/ StartMonitors \/ Close \/ CloseSignals
            \/ CloseJoins \/ Closed
  <2>1. UNCHANGED <<batch, expected, results, outcome>>
    BY <1>10
    DEF StartDrains, Started, Put, PutFull, AllSubmitted, WaitDrains, Accepted,
        Requeue, ReceiveStale, ReceiveWarmup, ReceiveStarted, ReceiveResult,
        ReceiveFatal, ReceiveDone, DrainedAll, MonitorDead, MonitorStale,
        MonitorHealthy, DrainReturns, StartMonitors, Close, CloseSignals,
        CloseJoins, Closed, Worker, batchVars, poolVars, vars
  <2> QED
    BY <1>3, <2>1
<1> QED
  BY <1>4, <1>5, <1>6, <1>7, <1>9, <1>10
  DEF Next, Coordinator, Terminated

LEMMA InitDelivers == Init => DeliveryInv /\ Promise!Init
<1> SUFFICES ASSUME Init PROVE DeliveryInv /\ Promise!Init
  OBVIOUS
<1>1. DeliveryInv
  BY DEF Init, DeliveryInv, OutcomeKnown, SubmitsAll, BatchSplit,
         CompletedDelivered, Running
<1>2. Promise!Init
  BY DEF Init, Promise!Init
<1> QED
  BY <1>1, <1>2

\* run_batch implements BatchVerification: whatever the workers do, on_result is
\* called at most once per task of the batch and for nothing else, results of
\* replaced processes and of retries included, and a call that says "complete"
\* delivered its whole batch.
THEOREM PoolDeliversOnce == Spec => DeliversOnce
<1>1. Init => DeliveryInv /\ Promise!Init
  BY InitDelivers
<1>2. TypeInv /\ DeliveryInv /\ [Next]_vars => DeliveryInv'
  BY NextKeepsDelivery
<1>3. TypeInv /\ DeliveryInv /\ [Next]_vars => [Promise!Next]_(Promise!vars)
  BY StepKeepsPromise
<1> QED
  BY <1>1, <1>2, <1>3, InitTypes, NextKeepsTypes, PTL
  DEF Spec, DeliversOnce, Promise!Spec
-----------------------------------------------------------------------------
(* The in-flight table can be trusted.                                     *)

\* A message more at the end of the result queue, from worker w or another.
LEMMA AppendAccounts ==
    ASSUME NEW q \in Seq(Messages), NEW m \in Messages,
           NEW w, NEW g, NEW f, NEW h, NEW s, NEW h2, NEW s2,
           Accounts(q, w, g, f, h, s),
           s \in {"verifying", "hung"} =>
              \/ h2 = h /\ s2 \in {"verifying", "hung"}
              \/ s2 \in Ended
              \/ m.type = "result" /\ m.worker = w /\ m.gen = g /\ m.task = h,
           s \in Ended => s2 \in Ended,
           m.type = "started" /\ m.worker = w /\ m.gen = g
              => h2 = m.task /\ s2 = "verifying"
    PROVE  Accounts(Append(q, m), w, g, f, h2, s2)
<1> DEFINE p == Append(q, m)
<1> PICK n \in Nat : n = Len(q)
  BY LenProperties
<1>1. /\ Len(p) = n + 1 /\ p[n + 1] = m
      /\ \A i \in 1 .. n : p[i] = q[i]
  OBVIOUS
<1> HIDE DEF p
<1>2. ASSUME NEW i \in 0 .. n, NEW t, AccountedFor(q, i, w, g, h, s, t)
      PROVE  AccountedFor(p, i, w, g, h2, s2, t)
  <2>1. ASSUME NEW j \in i + 1 .. n, From(q, j, w, g, "result"), q[j].task = t
        PROVE  AccountedFor(p, i, w, g, h2, s2, t)
    <3>1. j \in i + 1 .. Len(p) /\ p[j] = q[j]
      BY <1>1
    <3> QED
      BY <2>1, <3>1 DEF AccountedFor, From
  <2>2. CASE m.type = "result" /\ m.worker = w /\ m.gen = g /\ m.task = t
    <3>1. n + 1 \in i + 1 .. Len(p)
      BY <1>1
    <3> QED
      BY <1>1, <2>2, <3>1 DEF AccountedFor, From
  <2> QED
    BY <1>2, <2>1, <2>2 DEF AccountedFor
<1>3. ASSUME NEW i \in 1 .. Len(p), From(p, i, w, g, "started")
      PROVE  AccountedFor(p, i, w, g, h2, s2, p[i].task)
  <2>1. CASE i = n + 1
    BY <1>1, <1>3, <2>1 DEF From, AccountedFor
  <2>2. CASE i # n + 1
    <3>1. i \in 1 .. n /\ p[i] = q[i] /\ i \in 0 .. n
      BY <1>1, <2>2
    <3>2. AccountedFor(q, i, w, g, h, s, q[i].task)
      BY <1>3, <3>1 DEF From, Accounts
    <3> QED
      BY <1>2, <3>1, <3>2
  <2> QED
    BY <2>1, <2>2
<1>4. f # NoTask => AccountedFor(p, 0, w, g, h2, s2, f)
  BY <1>2 DEF Accounts
<1> QED
  BY <1>3, <1>4 DEF Accounts, p

\* The process moves on without a message.
LEMMA MoveAccounts ==
    ASSUME NEW q, NEW w, NEW g, NEW f, NEW h, NEW s, NEW h2, NEW s2,
           Accounts(q, w, g, f, h, s),
           s \in {"verifying", "hung"} =>
              \/ h2 = h /\ s2 \in {"verifying", "hung"}
              \/ s2 \in Ended,
           s \in Ended => s2 \in Ended
    PROVE  Accounts(q, w, g, f, h2, s2)
  BY DEF Accounts, AccountedFor

\* The coordinator reads a message: what it records in flight is what it read, or
\* what it had recorded, but for the task whose result it read.
LEMMA TailAccounts ==
    ASSUME NEW q \in Seq(Messages), q # <<>>,
           NEW w, NEW g, NEW f, NEW h, NEW s, NEW f2,
           Accounts(q, w, g, f, h, s),
           \/ f2 = NoTask
           \/ f2 = f /\ ~(From(q, 1, w, g, "result") /\ q[1].task = f)
           \/ From(q, 1, w, g, "started") /\ f2 = q[1].task
    PROVE  Accounts(Tail(q), w, g, f2, h, s)
<1> DEFINE p == Tail(q)
<1> PICK n \in Nat : n = Len(q)
  BY LenProperties
<1>1. /\ Len(p) = n - 1 /\ n >= 1
      /\ \A i \in 1 .. n - 1 : p[i] = q[i + 1]
  BY HeadTailProperties
<1> HIDE DEF p
<1>2. ASSUME NEW i \in 1 .. n, NEW t, AccountedFor(q, i, w, g, h, s, t)
      PROVE  AccountedFor(p, i - 1, w, g, h, s, t)
  <2>1. ASSUME NEW j \in i + 1 .. n, From(q, j, w, g, "result"), q[j].task = t
        PROVE  AccountedFor(p, i - 1, w, g, h, s, t)
    <3>1. /\ j - 1 \in 1 .. n - 1 /\ (j - 1) + 1 = j
          /\ j - 1 \in (i - 1) + 1 .. Len(p)
      BY <1>1
    <3>2. p[j - 1] = q[j]
      BY <1>1, <3>1
    <3> QED
      BY <2>1, <3>1, <3>2 DEF AccountedFor, From
  <2> QED
    BY <1>2, <2>1 DEF AccountedFor
<1>3. ASSUME NEW i \in 1 .. Len(p), From(p, i, w, g, "started")
      PROVE  AccountedFor(p, i, w, g, h, s, p[i].task)
  <2>1. /\ i \in 1 .. n - 1 /\ i + 1 \in 1 .. n /\ (i + 1) - 1 = i
        /\ p[i] = q[i + 1]
    BY <1>1
  <2>2. AccountedFor(q, i + 1, w, g, h, s, q[i + 1].task)
    BY <1>3, <2>1 DEF From, Accounts
  <2> QED
    BY <1>2, <2>1, <2>2
<1>4. ASSUME f2 # NoTask PROVE AccountedFor(p, 0, w, g, h, s, f2)
  <2>1. CASE f2 = f /\ ~(From(q, 1, w, g, "result") /\ q[1].task = f)
    <3>1. AccountedFor(q, 0, w, g, h, s, f)
      BY <1>4, <2>1 DEF Accounts
    <3>2. ASSUME NEW j \in 1 .. n, From(q, j, w, g, "result"), q[j].task = f
          PROVE  AccountedFor(p, 0, w, g, h, s, f)
      <4>1. j \in 2 .. n
        BY <2>1, <3>2
      <4>2. AccountedFor(q, 1, w, g, h, s, f)
        BY <3>2, <4>1 DEF AccountedFor
      <4> QED
        BY <1>1, <1>2, <4>2
    <3> QED
      BY <2>1, <3>1, <3>2 DEF AccountedFor
  <2>2. CASE From(q, 1, w, g, "started") /\ f2 = q[1].task
    <3>1. AccountedFor(q, 1, w, g, h, s, f2)
      BY <1>1, <2>2 DEF Accounts
    <3> QED
      BY <1>1, <1>2, <3>1
  <2> QED
    BY <1>4, <2>1, <2>2
<1> QED
  BY <1>3, <1>4 DEF Accounts, p

\* A replaced or ended process has nothing to account for.
LEMMA ReplacedAccounts ==
    ASSUME NEW q, NEW w, NEW g, NEW h, NEW s,
           s \in Ended \/ \A i \in 1 .. Len(q) : q[i].worker = w => q[i].gen # g
    PROVE  Accounts(q, w, g, NoTask, h, s)
  BY DEF Accounts, AccountedFor, From
-----------------------------------------------------------------------------
(* What a step of a worker does, as the invariants see it.                 *)

\* A process that moves from one place to another with another task.
Moves(w, from, to, task) ==
    /\ state[w] \in from /\ state'[w] \in to
    /\ held'[w] = task

\* It reports about itself,
Signals(w) ==
    /\ \E type \in {"warmup", "fatal", "done"}, status \in Statuses :
          Emit(w, type, NoTask, status)
    /\ Moves(w, {"booting", "failing", "stopping"}, {"idle"} \cup Ended, NoTask)
    /\ state[w] \in Ended => state'[w] \in Ended
    /\ UNCHANGED taskQueue

\* starts its task,
Begins(w) ==
    /\ Emit(w, "started", held[w], "none")
    /\ Moves(w, {"loaded"}, {"verifying"}, held[w])
    /\ held[w] # NoTask
    /\ UNCHANGED taskQueue

\* answers it,
Answers(w) ==
    /\ \E status \in Statuses : Emit(w, "result", held[w], status)
    /\ Moves(w, {"verifying"}, {"idle"}, NoTask)
    /\ held[w] # NoTask
    /\ UNCHANGED taskQueue

\* hangs on it, comes to an end,
Hangs(w) ==
    /\ Moves(w, {"verifying"}, {"hung"}, held[w])
    /\ UNCHANGED <<resultQueue, taskQueue>>
Ends(w) ==
    /\ Moves(w, LiveStates, Ended, NoTask)
    /\ UNCHANGED <<resultQueue, taskQueue>>

\* or takes the next item of its queue.
Takes(w) ==
    /\ taskQueue[w] # <<>>
    /\ taskQueue' = [taskQueue EXCEPT ![w] = Tail(@)]
    /\ \/ /\ Head(taskQueue[w]) \in spool
          /\ Head(taskQueue[w]) # NoTask
          /\ Moves(w, {"idle"}, {"loaded"}, Head(taskQueue[w]))
       \/ Moves(w, {"idle"}, Ended, NoTask)
    /\ UNCHANGED resultQueue

LEMMA WorkerSteps ==
    ASSUME TypeInv, NEW w \in Workers, Worker(w)
    PROVE  /\ \/ Signals(w) \/ Begins(w) \/ Answers(w) \/ Hangs(w) \/ Ends(w)
              \/ Takes(w)
           /\ state[w] \in LiveStates /\ state'[w] \in States \ {"none"}
           /\ \A v \in Workers \ {w} :
                state'[v] = state[v] /\ held'[v] = held[v]
           /\ UNCHANGED <<generation, spool, poolVars>>
<1>1. WorkerTypeOK /\ HoldsTask /\ UNCHANGED poolVars
  BY DEF TypeInv, TypeOK, Worker
<1>2. NoTask \notin Tasks
  BY NoTaskAssumption
<1>3. CASE WarmUp(w) \/ WarmUpFails(w)
  <2>1. PICK st \in {"idle", "failing"} : Goto(w, st, NoTask)
    BY <1>3 DEF WarmUp, WarmUpFails
  <2>2. Signals(w)
    BY <1>1, <1>3, <2>1, GotoType
    DEF WarmUp, WarmUpFails, Signals, Moves, Statuses, Ended, States, LiveStates
  <2> QED
    BY <1>1, <1>3, <2>1, <2>2, GotoType DEF WarmUp, WarmUpFails, States, LiveStates
<1>4. CASE EmitFatal(w) \/ EmitDone(w)
  <2>1. PICK st \in {"stopping", "exited"} : Goto(w, st, NoTask)
    BY <1>4 DEF EmitFatal, EmitDone
  <2>2. Signals(w)
    BY <1>1, <1>4, <2>1, GotoType
    DEF EmitFatal, EmitDone, Signals, Moves, Statuses, Ended, States, LiveStates
  <2> QED
    BY <1>1, <1>4, <2>1, <2>2, GotoType DEF EmitFatal, EmitDone, States, LiveStates
<1>5. CASE EmitStarted(w)
  <2>1. Goto(w, "verifying", held[w]) /\ held[w] \in Tasks
    BY <1>1, <1>5 DEF EmitStarted, HoldsTask
  <2>2. Begins(w)
    BY <1>1, <1>2, <1>5, <2>1, GotoType
    DEF EmitStarted, Begins, Moves, States, LiveStates
  <2> QED
    BY <1>1, <1>5, <2>1, <2>2, GotoType DEF EmitStarted, States, LiveStates
<1>6. CASE Finish(w)
  <2>1. Goto(w, "idle", NoTask) /\ held[w] \in Tasks
    BY <1>1, <1>6 DEF Finish, HoldsTask
  <2>2. Answers(w)
    BY <1>1, <1>2, <1>6, <2>1, GotoType
    DEF Finish, Answers, Moves, Statuses, States, LiveStates
  <2> QED
    BY <1>1, <1>6, <2>1, <2>2, GotoType DEF Finish, States, LiveStates
<1>7. CASE Hang(w)
  <2>1. Goto(w, "hung", held[w]) /\ held[w] \in Tasks
    BY <1>1, <1>7 DEF Hang, HoldsTask
  <2>2. Hangs(w)
    BY <1>1, <1>7, <2>1, GotoType DEF Hang, Hangs, Moves, States, LiveStates
  <2> QED
    BY <1>1, <1>7, <2>1, <2>2, GotoType DEF Hang, States, LiveStates
<1>8. CASE Raise(w) \/ Crash(w)
  <2>1. PICK st \in {"failing", "exited"} : Goto(w, st, NoTask)
    BY <1>8 DEF Raise, Crash
  <2>2. state[w] \in LiveStates
    BY <1>8 DEF Raise, Crash, Alive, LiveStates
  <2>3. Ends(w)
    BY <1>1, <1>8, <2>1, <2>2, GotoType
    DEF Raise, Crash, Ends, Moves, Ended, States, LiveStates
  <2> QED
    BY <1>1, <1>8, <2>1, <2>2, <2>3, GotoType DEF Raise, Crash, States, LiveStates
<1>9. CASE Dequeue(w)
  <2>1. \/ Goto(w, "stopping", NoTask) \/ Goto(w, "failing", NoTask)
        \/ /\ Head(taskQueue[w]) \in spool
           /\ Goto(w, "loaded", Head(taskQueue[w]))
    BY <1>9 DEF Dequeue
  <2>2. /\ state[w] = "idle" /\ taskQueue[w] # <<>>
        /\ taskQueue' = [taskQueue EXCEPT ![w] = Tail(@)]
        /\ UNCHANGED <<resultQueue, generation, spool>>
    BY <1>9 DEF Dequeue
  <2>3. PICK st \in {"stopping", "failing", "loaded"},
             task \in Tasks \cup {NoTask} :
          /\ Goto(w, st, task)
          /\ \/ st # "loaded" /\ task = NoTask
             \/ /\ st = "loaded" /\ task = Head(taskQueue[w])
                /\ task \in spool /\ task # NoTask
    BY <1>1, <1>2, <2>1 DEF WorkerTypeOK
  <2>4. state'[w] = st /\ held'[w] = task
    BY <1>1, <2>3, GotoType DEF States, LiveStates
  <2>5. Takes(w)
    BY <2>2, <2>3, <2>4 DEF Takes, Moves, Ended
  <2> QED
    BY <1>1, <2>2, <2>3, <2>5, GotoType DEF States, LiveStates
<1> QED
  BY <1>3, <1>4, <1>5, <1>6, <1>7, <1>8, <1>9
  DEF Worker, WorkerProgress, WorkerFault

\* A message that is emitted comes last, in the name of its live process.
LEMMA EmittedMessage ==
    ASSUME TypeOK, NEW w \in Workers, NEW type \in MessageTypes,
           NEW task \in Tasks \cup {NoTask}, NEW status \in Statuses,
           Emit(w, type, task, status)
    PROVE  \E m \in Messages :
             /\ resultQueue' = Append(resultQueue, m)
             /\ m.type = type /\ m.worker = w /\ m.gen = generation[w]
             /\ m.task = task /\ m.status = status
<1> DEFINE m == [type |-> type, worker |-> w, gen |-> generation[w],
                 task |-> task, status |-> status]
<1>1. m \in Messages
  BY DEF TypeOK, WorkerTypeOK, Messages
<1>2. resultQueue' = Append(resultQueue, m)
  BY DEF Emit
<1> QED
  BY <1>1, <1>2

\* What the worker emits in a step of its own.
LEMMA EmittedBy ==
    ASSUME TypeOK, NEW w \in Workers, Signals(w) \/ Begins(w) \/ Answers(w)
    PROVE  \E m \in Messages :
             /\ resultQueue' = Append(resultQueue, m)
             /\ m.worker = w /\ m.gen = generation[w]
             /\ \/ Signals(w) /\ m.type \notin {"started", "result"} /\ m.task = NoTask
                \/ Begins(w) /\ m.type = "started" /\ m.task = held[w]
                \/ Answers(w) /\ m.type = "result" /\ m.task = held[w]
<1>1. held[w] \in Tasks \cup {NoTask}
  BY DEF TypeOK, WorkerTypeOK
<1> QED
  BY <1>1, EmittedMessage DEF Signals, Begins, Answers, MessageTypes, Statuses

\* A step of a worker leaves every task in flight accounted for.
LEMMA WorkerKeepsAccounts ==
    ASSUME TypeInv, AccountInv, NEW w \in Workers, Worker(w) PROVE AccountInv'
<1>1. /\ TypeOK /\ resultQueue \in Seq(Messages)
      /\ held[w] \in Tasks \cup {NoTask}
  BY DEF TypeInv, TypeOK, WorkerTypeOK
<1>2. /\ \/ Signals(w) \/ Begins(w) \/ Answers(w) \/ Hangs(w) \/ Ends(w)
         \/ Takes(w)
      /\ state[w] \in LiveStates /\ state'[w] # "none"
      /\ \A v \in Workers \ {w} : state'[v] = state[v] /\ held'[v] = held[v]
      /\ UNCHANGED <<generation, inFlight, pc>>
  BY WorkerSteps DEF poolVars
<1>3. SpawnedFirst'
  <2>1. pc # "down" /\ \A v \in Workers : state'[v] = "none" => v # w /\ state[v] = "none"
    BY <1>2 DEF AccountInv, SpawnedFirst, LiveStates
  <2>2. \/ resultQueue' = resultQueue
        \/ \E m \in Messages :
             resultQueue' = Append(resultQueue, m) /\ m.worker = w
    <3>1. CASE Signals(w) \/ Begins(w) \/ Answers(w)
      BY <1>1, <3>1, EmittedBy
    <3>2. CASE Hangs(w) \/ Ends(w) \/ Takes(w)
      BY <3>2 DEF Hangs, Ends, Takes
    <3> QED
      BY <1>2, <3>1, <3>2
  <2>3. ASSUME NEW v \in Workers, state'[v] = "none", pc # "closed",
               NEW i \in 1 .. Len(resultQueue')
        PROVE  resultQueue'[i].worker # v
    <3>1. \A k \in 1 .. Len(resultQueue) : resultQueue[k].worker # v
      BY <2>1, <2>3 DEF AccountInv, SpawnedFirst
    <3> QED
      BY <1>1, <2>1, <2>2, <2>3, <3>1
  <2> QED
    BY <1>2, <2>1, <2>3 DEF AccountInv, SpawnedFirst
<1>4. CASE Signals(w) \/ Begins(w) \/ Answers(w)
  <2>1. PICK m \in Messages :
          /\ resultQueue' = Append(resultQueue, m)
          /\ m.worker = w /\ m.gen = generation[w]
          /\ \/ Signals(w) /\ m.type \notin {"started", "result"}
             \/ Begins(w) /\ m.type = "started" /\ m.task = held[w]
             \/ Answers(w) /\ m.type = "result" /\ m.task = held[w]
    BY <1>1, <1>4, EmittedBy
  <2>2. ASSUME NEW v \in Workers
        PROVE  Accounts(resultQueue', v, generation[v], inFlight[v], held'[v],
                        state'[v])
    <3>1. Accounts(resultQueue, v, generation[v], inFlight[v], held[v], state[v])
      BY DEF AccountInv, TasksAccounted
    <3>2. CASE v = w
      <4>1. state[v] \in {"verifying", "hung"} =>
              m.type = "result" /\ m.worker = v /\ m.gen = generation[v]
                /\ m.task = held[v]
        BY <2>1, <3>2 DEF Signals, Begins, Moves
      <4>2. state[v] \in Ended => state'[v] \in Ended
        BY <1>2, <2>1, <3>2 DEF Signals, Begins, Answers, Moves, Ended
      <4>3. m.type = "started" => held'[v] = m.task /\ state'[v] = "verifying"
        BY <2>1, <3>2 DEF Begins, Moves
      <4> QED
        BY <1>1, <2>1, <3>1, <4>1, <4>2, <4>3, AppendAccounts
    <3>3. CASE v # w
      BY <1>1, <1>2, <2>1, <3>1, <3>3, AppendAccounts
    <3> QED
      BY <3>2, <3>3
  <2> QED
    BY <1>2, <1>3, <2>2 DEF AccountInv, TasksAccounted
<1>5. CASE Hangs(w) \/ Ends(w) \/ Takes(w)
  <2>1. UNCHANGED resultQueue
    BY <1>5 DEF Hangs, Ends, Takes
  <2>2. ASSUME NEW v \in Workers
        PROVE  Accounts(resultQueue, v, generation[v], inFlight[v], held'[v],
                        state'[v])
    <3>1. Accounts(resultQueue, v, generation[v], inFlight[v], held[v], state[v])
      BY DEF AccountInv, TasksAccounted
    <3>2. /\ state[v] \in {"verifying", "hung"} =>
                \/ held'[v] = held[v] /\ state'[v] \in {"verifying", "hung"}
                \/ state'[v] \in Ended
          /\ state[v] \in Ended => state'[v] \in Ended
      BY <1>2, <1>5 DEF Hangs, Ends, Takes, Moves, Ended
    <3> QED
      BY <3>1, <3>2, MoveAccounts
  <2> QED
    BY <1>2, <1>3, <2>1, <2>2 DEF AccountInv, TasksAccounted
<1> QED
  BY <1>2, <1>4, <1>5
-----------------------------------------------------------------------------
(* What replacing a worker does to the messages, and reading one.          *)

\* No message carries the generation of a replacement that was just spawned.
LEMMA ReplacedSilent ==
    ASSUME TypeOK, NEW w \in Workers, Replaced(w),
           NEW q \in Seq(Messages),
           \A i \in 1 .. Len(q) : q[i].gen <= generation[q[i].worker]
    PROVE  \/ state'[w] = "exited"
           \/ \A i \in 1 .. Len(q) : q[i].worker = w => q[i].gen # generation'[w]
<1> SUFFICES ASSUME state'[w] = "booting", NEW i \in 1 .. Len(q), q[i].worker = w
             PROVE  q[i].gen # generation'[w]
  BY DEF Replaced
<1>1. generation'[w] = generation[w] + 1 /\ generation[w] \in Nat
  BY DEF Replaced, TypeOK, WorkerTypeOK
<1>2. q[i] \in Messages
  OBVIOUS
<1>3. q[i].gen \in Nat
  BY <1>2 DEF Messages
<1> QED
  BY <1>1, <1>3

\* The messages that are read and those that are left.
LEMMA ReadMessages ==
    ASSUME TypeOK, StaleInv, resultQueue # <<>>, resultQueue' = Tail(resultQueue)
    PROVE  /\ resultQueue \in Seq(Messages) /\ resultQueue' \in Seq(Messages)
           /\ Message \in Messages /\ Message = resultQueue[1]
           /\ 1 \in 1 .. Len(resultQueue)
           /\ Message.worker \in Workers
           /\ \A i \in 1 .. Len(resultQueue') :
                resultQueue'[i].gen <= generation[resultQueue'[i].worker]
<1>1. resultQueue \in Seq(Messages)
  BY DEF TypeOK, WorkerTypeOK
<1>2. Message \in Messages /\ resultQueue' \in Seq(Messages)
  BY <1>1, HeadTailProperties DEF Message
<1>3. Message = resultQueue[1] /\ 1 \in 1 .. Len(resultQueue)
  BY <1>1 DEF Message
<1>4. Message.worker \in Workers
  BY <1>2 DEF Messages
<1>5. \A i \in 1 .. Len(resultQueue') :
        resultQueue'[i].gen <= generation[resultQueue'[i].worker]
  BY TailKeepsOrder DEF StaleInv, NoFutureGeneration
<1> QED
  BY <1>1, <1>2, <1>3, <1>4, <1>5

-----------------------------------------------------------------------------
(* The coordinator keeps the in-flight table in order.                     *)

\* A message is read, and no process is touched.
Reads == ReceiveStale \/ ReceiveWarmup \/ ReceiveStarted \/ ReceiveResult \/ ReceiveDone

\* What reading a message does to the in-flight table.
LEMMA ReadRecords ==
    ASSUME TypeOK, StaleInv, Reads
    PROVE  /\ resultQueue # <<>> /\ resultQueue' = Tail(resultQueue)
           /\ UNCHANGED <<state, held, canceled, generation, taskQueue, pc,
                          requeued, target, submitting, todo, batch>>
           /\ \A v \in Workers :
                \/ inFlight'[v] = NoTask
                \/ /\ inFlight'[v] = inFlight[v]
                   /\ ~From(resultQueue, 1, v, generation[v], "started")
                   /\ From(resultQueue, 1, v, generation[v], "result")
                        => resultQueue[1].task # inFlight[v]
                \/ /\ From(resultQueue, 1, v, generation[v], "started")
                   /\ inFlight'[v] = resultQueue[1].task
<1>1. /\ resultQueue # <<>> /\ resultQueue' = Tail(resultQueue)
      /\ UNCHANGED <<state, held, canceled, generation, taskQueue, pc,
                     requeued, target, submitting, todo, batch>>
  BY DEF Reads, ReceiveStale, ReceiveWarmup, ReceiveStarted, ReceiveResult,
         ReceiveDone, Receive, poolVars, controlVars, batchVars
<1>2. Message = resultQueue[1] /\ Message.worker \in Workers
  BY <1>1, ReadMessages
<1> SUFFICES ASSUME NEW v \in Workers
             PROVE  \/ inFlight'[v] = NoTask
                    \/ /\ inFlight'[v] = inFlight[v]
                       /\ ~From(resultQueue, 1, v, generation[v], "started")
                       /\ From(resultQueue, 1, v, generation[v], "result")
                            => resultQueue[1].task # inFlight[v]
                    \/ /\ From(resultQueue, 1, v, generation[v], "started")
                       /\ inFlight'[v] = resultQueue[1].task
  BY <1>1
<1>3. inFlight \in [Workers -> Tasks \cup {NoTask}]
  BY DEF TypeOK, PoolTypeOK
<1>4. CASE ReceiveStale
  BY <1>2, <1>4
  DEF ReceiveStale, Receive, Stale, From, poolVars, MessageTypes
<1>5. CASE ReceiveWarmup \/ ReceiveDone
  BY <1>2, <1>5 DEF ReceiveWarmup, ReceiveDone, Receive, From, poolVars
<1>6. CASE ReceiveStarted
  BY <1>2, <1>3, <1>6 DEF ReceiveStarted, Receive, Stale, From
<1>7. CASE ReceiveResult
  <2>1. /\ Message.type = "result"
        /\ inFlight' = IF ~Stale /\ inFlight[Message.worker] = Message.task
                       THEN [inFlight EXCEPT ![Message.worker] = NoTask]
                       ELSE inFlight
    BY <1>7 DEF ReceiveResult, Receive
  <2>2. CASE ~Stale /\ inFlight[Message.worker] = Message.task
    BY <1>2, <1>3, <2>1, <2>2 DEF From
  <2>3. CASE ~(~Stale /\ inFlight[Message.worker] = Message.task)
    BY <1>2, <2>1, <2>3 DEF From, Stale
  <2> QED
    BY <2>2, <2>3
<1> QED
  BY <1>4, <1>5, <1>6, <1>7 DEF Reads

LEMMA ReadKeepsAccounts ==
    ASSUME TypeOK, StaleInv, AccountInv, Reads PROVE AccountInv'
<1>1. /\ resultQueue # <<>> /\ resultQueue' = Tail(resultQueue)
      /\ UNCHANGED <<state, held, generation, pc>>
      /\ resultQueue \in Seq(Messages)
  BY ReadRecords, ReadMessages
<1>2. \A v \in Workers :
        \/ inFlight'[v] = NoTask
        \/ /\ inFlight'[v] = inFlight[v]
           /\ ~(/\ From(resultQueue, 1, v, generation[v], "result")
                /\ resultQueue[1].task = inFlight[v])
        \/ /\ From(resultQueue, 1, v, generation[v], "started")
           /\ inFlight'[v] = resultQueue[1].task
  BY ReadRecords
<1>3. ASSUME NEW v \in Workers
      PROVE  Accounts(resultQueue', v, generation[v], inFlight'[v], held[v], state[v])
  <2>1. Accounts(resultQueue, v, generation[v], inFlight[v], held[v], state[v])
    BY DEF AccountInv, TasksAccounted
  <2> QED
    BY <1>1, <1>2, <2>1, TailAccounts
<1>4. SpawnedFirst'
  <2>1. pc = "drain" /\ 1 \in 1 .. Len(resultQueue)
    BY <1>1, ReadMessages
    DEF Reads, ReceiveStale, ReceiveWarmup, ReceiveStarted, ReceiveResult,
        ReceiveDone, Receive
  <2> SUFFICES ASSUME NEW v \in Workers, state[v] = "none"
               PROVE  /\ inFlight'[v] = NoTask
                      /\ \A i \in 1 .. Len(resultQueue') : resultQueue'[i].worker # v
    BY <1>1, <2>1 DEF SpawnedFirst
  <2>2. /\ inFlight[v] = NoTask
        /\ \A i \in 1 .. Len(resultQueue) : resultQueue[i].worker # v
    BY <2>1 DEF AccountInv, SpawnedFirst
  <2>3. inFlight'[v] = NoTask
    BY <1>2, <2>1, <2>2 DEF From
  <2>4. \A i \in 1 .. Len(resultQueue') : resultQueue'[i].worker # v
    BY <1>1, <2>2
  <2> QED
    BY <2>3, <2>4
<1> QED
  BY <1>1, <1>3, <1>4 DEF AccountInv, TasksAccounted

\* A worker is replaced: q is the result queue after the step, which is the one
\* before but for a message that was read.
LEMMA ReplaceKeepsAccounts ==
    ASSUME TypeOK, SpawnedFirst, NEW w \in Workers, Replaced(w),
           inFlight'[w] = NoTask,
           \A v \in Workers \ {w} : held'[v] = held[v] /\ inFlight'[v] = inFlight[v],
           pc \in {"drain", "monitor", "requeue"},
           pc' \in {"drain", "monitor", "requeue"},
           NEW q \in Seq(Messages), resultQueue' = q,
           q \in {resultQueue, Tail(resultQueue)}, resultQueue \in Seq(Messages),
           \A i \in 1 .. Len(q) : q[i].gen <= generation[q[i].worker],
           \A v \in Workers :
              Accounts(q, v, generation[v], inFlight[v], held[v], state[v])
    PROVE  AccountInv'
<1>1. SpawnedFirst'
  <2> SUFFICES ASSUME NEW v \in Workers, state'[v] = "none"
               PROVE  /\ inFlight'[v] = NoTask
                      /\ \A i \in 1 .. Len(q) : q[i].worker # v
    BY DEF SpawnedFirst
  <2>1. v # w /\ state[v] = "none"
    BY DEF Replaced
  <2>2. /\ inFlight[v] = NoTask
        /\ \A i \in 1 .. Len(resultQueue) : resultQueue[i].worker # v
    BY <2>1 DEF SpawnedFirst
  <2>3. CASE q = resultQueue
    BY <2>1, <2>2, <2>3
  <2>4. CASE q = Tail(resultQueue) /\ resultQueue # <<>>
    BY <2>1, <2>2, <2>4
  <2>5. CASE resultQueue = <<>>
    BY <2>1, <2>2, <2>5
  <2> QED
    BY <2>3, <2>4, <2>5
<1>2. ASSUME NEW v \in Workers
      PROVE  Accounts(q, v, generation'[v], inFlight'[v], held'[v], state'[v])
  <2>1. CASE v = w
    BY <2>1, ReplacedSilent, ReplacedAccounts DEF Ended
  <2>2. CASE v # w
    BY <2>2 DEF Replaced
  <2> QED
    BY <2>1, <2>2
<1> QED
  BY <1>1, <1>2 DEF AccountInv, TasksAccounted

\* A worker is replaced on a "fatal" just read or by the monitor.
LEMMA RestartKeepsAccounts ==
    ASSUME TypeOK, StaleInv, AccountInv, FatalRestarts \/ MonitorRestarts
    PROVE  AccountInv'
<1>1. /\ SpawnedFirst /\ resultQueue \in Seq(Messages)
      /\ \A i \in 1 .. Len(resultQueue) :
            resultQueue[i].gen <= generation[resultQueue[i].worker]
      /\ \A v \in Workers : Accounts(resultQueue, v, generation[v], inFlight[v],
                                     held[v], state[v])
  BY DEF TypeOK, WorkerTypeOK, StaleInv, NoFutureGeneration, AccountInv, TasksAccounted
<1>2. CASE MonitorRestarts
  <2>1. /\ scan \in Workers /\ Restarts(scan, "monitor") /\ UNCHANGED resultQueue
        /\ pc = "monitor" /\ pc' \in {"monitor", "requeue"}
    BY <1>2 DEF MonitorRestarts, Restarts
  <2> QED
    BY <1>1, <2>1, ReplaceKeepsAccounts DEF Restarts
<1>3. CASE FatalRestarts
  <2>1. /\ resultQueue # <<>> /\ resultQueue' = Tail(resultQueue) /\ pc = "drain"
        /\ Message.type = "fatal" /\ Restarts(Message.worker, "drain")
    BY <1>3 DEF FatalRestarts, Receive
  <2>2. /\ Message.worker \in Workers /\ resultQueue' \in Seq(Messages)
        /\ Message = resultQueue[1]
        /\ \A i \in 1 .. Len(resultQueue') :
              resultQueue'[i].gen <= generation[resultQueue'[i].worker]
    BY <2>1, ReadMessages
  <2>3. \A v \in Workers :
          Accounts(resultQueue', v, generation[v], inFlight[v], held[v], state[v])
    BY <1>1, <2>1, <2>2, TailAccounts DEF From
  <2>4. pc' \in {"drain", "requeue"}
    BY <2>1 DEF Restarts
  <2> QED
    BY <1>1, <2>1, <2>2, <2>3, <2>4, ReplaceKeepsAccounts DEF Restarts
<1> QED
  BY <1>2, <1>3

\* The put of _restart_worker is followed by the respawn.
LEMMA RequeueKeepsAccounts ==
    ASSUME TypeInv, StaleInv, AccountInv, Requeue PROVE AccountInv'
<1>1. /\ TypeOK /\ SpawnedFirst /\ resultQueue \in Seq(Messages)
      /\ \A i \in 1 .. Len(resultQueue) :
            resultQueue[i].gen <= generation[resultQueue[i].worker]
      /\ \A v \in Workers : Accounts(resultQueue, v, generation[v], inFlight[v],
                                     held[v], state[v])
  BY DEF TypeInv, TypeOK, WorkerTypeOK, StaleInv, NoFutureGeneration, AccountInv,
         TasksAccounted
<1>2. /\ target \in Workers /\ Respawn(target) /\ Continue(site)
      /\ UNCHANGED <<resultQueue, held, inFlight>> /\ pc = "requeue"
      /\ site \in {"drain", "monitor"} /\ inFlight[target] = NoTask
  BY <1>1
  DEF Requeue, TypeInv, TypeOK, ControlTypeOK, RequeueReturns, StaleInv,
      RequeuePopped
<1>3. pc' \in {"drain", "monitor"}
  BY <1>2 DEF Continue
<1> QED
  BY <1>1, <1>2, <1>3, RespawnReplaces, ReplaceKeepsAccounts

\* The coordinator spawns the workers, waits for them to end or forgets them.
LEMMA LifecycleKeepsAccounts ==
    ASSUME TypeOK, AccountInv, RunBatch \/ CloseJoins \/ Closed PROVE AccountInv'
<1>1. \A v \in Workers : Accounts(resultQueue, v, generation[v], inFlight[v],
                                  held[v], state[v])
  BY DEF AccountInv, TasksAccounted
<1>2. CASE RunBatch
  <2>1. UNCHANGED <<resultQueue, generation, inFlight, held>> /\ pc' # "down"
    BY <1>2 DEF RunBatch
  <2>2. CASE pc = "down"
    <3>1. /\ \A v \in Workers :
               /\ inFlight[v] = NoTask
               /\ \A i \in 1 .. Len(resultQueue) : resultQueue[i].worker # v
          /\ state' = [v \in Workers |-> "booting"]
      BY <1>2, <2>2 DEF RunBatch, AccountInv, SpawnedFirst
    <3>2. SpawnedFirst'
      BY <2>1, <3>1 DEF SpawnedFirst
    <3>3. \A v \in Workers : Accounts(resultQueue, v, generation[v], inFlight[v],
                                      held[v], state'[v])
      BY <3>1, ReplacedAccounts
    <3> QED
      BY <2>1, <3>2, <3>3 DEF AccountInv, TasksAccounted
  <2>3. CASE pc # "down"
    <3>1. pc = "returned" /\ UNCHANGED state
      BY <1>2, <2>3 DEF RunBatch
    <3> QED
      BY <1>1, <2>1, <3>1 DEF AccountInv, TasksAccounted, SpawnedFirst
  <2> QED
    BY <2>2, <2>3
<1>3. CASE CloseJoins
  <2>1. scan \in Workers
    BY <1>3, NumWorkersAssumption DEF CloseJoins, TypeOK, ControlTypeOK, Workers
  <2>2. /\ pc = "join" /\ pc' = "join"
        /\ UNCHANGED <<resultQueue, generation, inFlight>>
        /\ UNCHANGED <<state, held>> \/ Goto(scan, "exited", NoTask)
    BY <1>3 DEF CloseJoins
  <2>3. ASSUME NEW v \in Workers
        PROVE  /\ state'[v] \in {state[v], "exited"}
               /\ state'[v] = "exited" \/ held'[v] = held[v]
    BY <2>1, <2>2 DEF Goto, TypeOK, WorkerTypeOK
  <2>4. \A v \in Workers : Accounts(resultQueue, v, generation[v], inFlight[v],
                                    held'[v], state'[v])
    BY <1>1, <2>3, MoveAccounts DEF Ended
  <2>5. SpawnedFirst'
    BY <2>2, <2>3 DEF AccountInv, SpawnedFirst
  <2> QED
    BY <2>2, <2>4, <2>5 DEF AccountInv, TasksAccounted
<1>4. CASE Closed
  <2>1. /\ state' = [v \in Workers |-> "none"] /\ pc' = "closed"
        /\ inFlight' = [v \in Workers |-> NoTask]
        /\ UNCHANGED <<resultQueue, generation, held>>
    BY <1>4 DEF Closed
  <2>2. \A v \in Workers : Accounts(resultQueue, v, generation[v], inFlight'[v],
                                    held[v], state'[v])
    BY <2>1, ReplacedAccounts DEF Ended
  <2>3. SpawnedFirst'
    BY <2>1 DEF SpawnedFirst
  <2> QED
    BY <2>1, <2>2, <2>3 DEF AccountInv, TasksAccounted
<1> QED
  BY <1>2, <1>3, <1>4

\* The other steps of the coordinator touch nothing that the accounts speak of.
LEMMA QuietKeepsAccounts ==
    ASSUME AccountInv, UNCHANGED <<resultQueue, generation, inFlight, held, state>>,
           \/ pc' = pc
           \/ pc \notin {"down", "closed"} /\ pc' \notin {"down", "closed"}
    PROVE  AccountInv'
  BY DEF AccountInv, SpawnedFirst, TasksAccounted

\* Every step keeps the tasks in flight accounted for.
LEMMA NextKeepsAccounts ==
    ASSUME TypeInv, StaleInv, AccountInv, [Next]_vars PROVE AccountInv'
<1>1. TypeOK
  BY DEF TypeInv
<1>2. CASE \E w \in Workers : Worker(w)
  BY <1>2, WorkerKeepsAccounts
<1>3. CASE Reads
  BY <1>1, <1>3, ReadKeepsAccounts
<1>4. CASE ReceiveFatal \/ MonitorDead \/ MonitorStale
  BY <1>1, <1>4, RestartCalls, RestartKeepsAccounts
<1>7. CASE Requeue
  BY <1>7, RequeueKeepsAccounts
<1>5. CASE RunBatch \/ CloseJoins \/ Closed
  BY <1>1, <1>5, LifecycleKeepsAccounts
<1>6. CASE \/ ControlStep \/ (\E t \in todo : Submit(t)) \/ Put \/ Accept
           \/ FullReturns \/ StartContinues \/ CloseSignals \/ UNCHANGED vars
  <2>1. UNCHANGED <<resultQueue, generation, inFlight, held, state>>
    BY <1>6
    DEF ControlStep, StartDrains, Started, PutFull, AllSubmitted, WaitDrains,
        Return, Accepted, Close, DrainedAll, MonitorHealthy, DrainReturns,
        StartMonitors, Submit, Put, Accept, FullReturns, StartContinues,
        CloseSignals, vars, workerVars, poolVars
  <2> DEFINE stays == \/ pc' = pc
                      \/ pc \notin {"down", "closed"} /\ pc' \notin {"down", "closed"}
  <2>2. ASSUME ControlStep PROVE stays
    BY <2>2
    DEF ControlStep, StartDrains, Started, PutFull, AllSubmitted, WaitDrains,
        Return, Accepted, Close, DrainedAll, MonitorHealthy, DrainReturns,
        StartMonitors
  <2>3. ASSUME (\E t \in todo : Submit(t)) \/ Put \/ Accept \/ CloseSignals
        PROVE  stays
    BY <2>3 DEF Submit, Put, Accept, CloseSignals, controlVars
  <2>4. ASSUME FullReturns \/ StartContinues PROVE stays
    <3>1. pc = "monitor" /\ pc' \in {"close", "put", "start"}
      BY <2>4 DEF FullReturns, StartContinues, RaiseError
    <3> QED
      BY <3>1
  <2>5. ASSUME UNCHANGED vars PROVE stays
    <3>1. pc' = pc
      BY <2>5 DEF vars, poolVars
    <3> QED
      BY <3>1
  <2>6. stays
    BY <1>6, <2>2, <2>3, <2>4, <2>5
  <2> QED
    BY <2>1, <2>6, QuietKeepsAccounts
<1> QED
  BY <1>2, <1>3, <1>4, <1>5, <1>6, <1>7
  DEF Next, Coordinator, ControlStep, Reads, Terminated

LEMMA InitPool == Init => TypeInv /\ StaleInv /\ AccountInv
<1> SUFFICES ASSUME Init PROVE TypeInv /\ StaleInv /\ AccountInv
  OBVIOUS
<1>1. StaleInv
  BY DEF Init, WorkerInit, StaleInv, GenerationsSorted, NoFutureGeneration,
         RequeuePopped, StaleBeforeInFlight
<1>2. AccountInv
  BY DEF Init, WorkerInit, AccountInv, SpawnedFirst, TasksAccounted, Accounts
<1> QED
  BY <1>1, <1>2, InitTypes

\* The initial state and every step keep the three invariants of the workers.
LEMMA PoolInvariant == Spec => [](TypeInv /\ StaleInv /\ AccountInv)
<1>1. ASSUME TypeInv, StaleInv, AccountInv, [Next]_vars
      PROVE  TypeInv' /\ StaleInv' /\ AccountInv'
  BY <1>1, NextKeepsTypes, NextKeepsOrder, NextKeepsAccounts
<1>2. TypeInv /\ StaleInv /\ AccountInv /\ [Next]_vars
        => (TypeInv /\ StaleInv /\ AccountInv)'
  BY <1>1
<1> QED
  BY <1>2, InitPool, PTL DEF Spec

\* What is in flight is accounted for from the start of the queue on.
LEMMA AccountsTrusted == ASSUME AccountInv PROVE InFlightAccounted
<1> SUFFICES ASSUME NEW w \in Workers, inFlight[w] # NoTask
             PROVE  \/ held[w] = inFlight[w] /\ state[w] \in {"verifying", "hung"}
                    \/ ResultPending(w, inFlight[w])
                    \/ state[w] \in {"failing", "stopping", "exited"}
  BY DEF InFlightAccounted
<1>1. AccountedFor(resultQueue, 0, w, generation[w], held[w], state[w], inFlight[w])
  BY DEF AccountInv, TasksAccounted, Accounts
<1>2. state[w] # "none"
  BY DEF AccountInv, SpawnedFirst
<1>3. 0 + 1 = 1
  OBVIOUS
<1> QED
  BY <1>1, <1>2, <1>3 DEF AccountedFor, From, ResultPending, Ended

\* in_flight is never left behind: the recorded task is being verified by the live
\* process, its result is still to be read, or the process ended.  What
\* _restart_worker puts back was really lost, or is answered a second time at most.
THEOREM InFlightTrusted == Spec => []InFlightAccounted
<1>1. AccountInv => InFlightAccounted
  BY AccountsTrusted
<1> QED
  BY <1>1, PoolInvariant, PTL
-----------------------------------------------------------------------------
(* A task is in one place: what a step does to one worker's share of tasks. *)

\* Nothing is taken that was not taken before, and the hands only let go.
LEMMA LessTaken ==
    ASSUME NEW d, NEW q, NEW w, NEW g, NEW f, NEW h, NEW r, NEW b,
           NEW q2, NEW g2, NEW f2, NEW h2, NEW r2, NEW b2,
           QueuedOnce(d, q, w, g, f, h, r, b), InHandOnce(q, w, g, f, h, r, b),
           \A t : t # NoTask /\ Taken(q2, w, g2, f2, h2, t) => Taken(q, w, g, f, h, t),
           r2 \in {r, NoTask}, b2 \in {b, NoTask}
    PROVE  /\ QueuedOnce(d, q2, w, g2, f2, h2, r2, b2)
           /\ InHandOnce(q2, w, g2, f2, h2, r2, b2)
  BY DEF QueuedOnce, InHandOnce

\* The process moves on or ends, and the coordinator or its hands let go.
LEMMA MoveCopies ==
    ASSUME NEW d, NEW q, NEW w, NEW g, NEW f, NEW h, NEW s, NEW r, NEW b,
           NEW f2, NEW h2, NEW s2, NEW r2, NEW b2,
           Copies(d, q, w, g, f, h, s, r, b),
           f2 \in {f, NoTask}, h2 \in {h, NoTask},
           s2 = "loaded" => s = "loaded" /\ h2 = h /\ h # NoTask,
           r2 \in {r, NoTask}, b2 \in {b, NoTask}
    PROVE  Copies(d, q, w, g, f2, h2, s2, r2, b2)
<1>1. \A t : t # NoTask /\ Taken(q, w, g, f2, h2, t) => Taken(q, w, g, f, h, t)
  BY DEF Taken
<1>2. StartedOnce(q, w, g, f2, h2, s2)
  BY DEF Copies, StartedOnce
<1> QED
  BY <1>1, <1>2, LessTaken DEF Copies

\* A message more: the process starts its task, or reports something else.
LEMMA AppendCopies ==
    ASSUME NEW d, NEW q \in Seq(Messages), NEW w, NEW g, NEW f, NEW h, NEW s,
           NEW r, NEW b, NEW m \in Messages, NEW h2, NEW s2,
           Copies(d, q, w, g, f, h, s, r, b),
           h2 \in {h, NoTask}, s2 = "loaded" => s = "loaded" /\ h2 = h,
           m.type = "started" /\ m.worker = w /\ m.gen = g
              => m.task = h /\ h # NoTask /\ s = "loaded" /\ s2 # "loaded"
    PROVE  Copies(d, Append(q, m), w, g, f, h2, s2, r, b)
<1> DEFINE p == Append(q, m)
<1> PICK n \in Nat : n = Len(q)
  BY LenProperties
<1>1. /\ Len(p) = n + 1 /\ p[n + 1] = m
      /\ \A i \in 1 .. n : p[i] = q[i]
  OBVIOUS
<1> HIDE DEF p
<1>2. ASSUME NEW i \in 1 .. Len(p), From(p, i, w, g, "started")
      PROVE  \/ i \in 1 .. n /\ p[i] = q[i] /\ From(q, i, w, g, "started")
             \/ /\ i = n + 1 /\ p[i].task = h /\ h # NoTask
                /\ s = "loaded" /\ s2 # "loaded"
  BY <1>1, <1>2 DEF From
<1>3. \A t : t # NoTask /\ Taken(p, w, g, f, h2, t) => Taken(q, w, g, f, h, t)
  BY <1>2 DEF Taken
<1>4. StartedOnce(p, w, g, f, h2, s2)
  <2>1. ASSUME NEW i \in 1 .. Len(p), From(p, i, w, g, "started")
        PROVE  /\ p[i].task # NoTask /\ p[i].task # f
               /\ s2 = "loaded" => h2 # p[i].task
    BY <1>2, <2>1 DEF Copies, StartedOnce
  <2>2. ASSUME NEW i \in 1 .. Len(p), NEW j \in 1 .. Len(p),
               From(p, i, w, g, "started"), From(p, j, w, g, "started"),
               p[j].task = p[i].task
        PROVE  j = i
    BY <1>2, <2>2 DEF Copies, StartedOnce
  <2>3. s2 = "loaded" => h2 # f
    BY DEF Copies, StartedOnce
  <2> QED
    BY <2>1, <2>2, <2>3 DEF StartedOnce
<1> QED
  BY <1>3, <1>4, LessTaken DEF Copies, p

\* The coordinator reads a message, and records at most what it says.
LEMMA TailCopies ==
    ASSUME NEW d, NEW q \in Seq(Messages), q # <<>>, NEW w, NEW g, NEW f, NEW h,
           NEW s, NEW r, NEW b, NEW f2,
           Copies(d, q, w, g, f, h, s, r, b),
           s = "loaded" => h # NoTask,
           \/ f2 \in {f, NoTask}
           \/ From(q, 1, w, g, "started") /\ f2 = q[1].task
    PROVE  Copies(d, Tail(q), w, g, f2, h, s, r, b)
<1> DEFINE p == Tail(q)
<1> PICK n \in Nat : n = Len(q)
  BY LenProperties
<1>1. /\ Len(p) = n - 1 /\ n >= 1
      /\ \A i \in 1 .. n - 1 : p[i] = q[i + 1]
  BY HeadTailProperties
<1> HIDE DEF p
<1>2. ASSUME NEW i \in 1 .. Len(p), From(p, i, w, g, "started")
      PROVE  /\ i + 1 \in 1 .. n /\ i + 1 # 1
             /\ p[i] = q[i + 1] /\ From(q, i + 1, w, g, "started")
  BY <1>1, <1>2 DEF From
<1>3. 1 \in 1 .. n
  BY <1>1
<1>4. \A t : t # NoTask /\ Taken(p, w, g, f2, h, t) => Taken(q, w, g, f, h, t)
  BY <1>2, <1>3 DEF Taken
<1>5. StartedOnce(p, w, g, f2, h, s)
  <2>1. ASSUME NEW i \in 1 .. Len(p), From(p, i, w, g, "started")
        PROVE  /\ p[i].task # NoTask /\ p[i].task # f2
               /\ s = "loaded" => h # p[i].task
    BY <1>2, <1>3, <2>1 DEF Copies, StartedOnce
  <2>2. ASSUME NEW i \in 1 .. Len(p), NEW j \in 1 .. Len(p),
               From(p, i, w, g, "started"), From(p, j, w, g, "started"),
               p[j].task = p[i].task
        PROVE  j = i
    <3>1. j + 1 = i + 1
      BY <1>2, <2>2 DEF Copies, StartedOnce
    <3> QED
      BY <3>1
  <2>3. s = "loaded" => h # f2
    BY <1>3 DEF Copies, StartedOnce
  <2> QED
    BY <2>1, <2>2, <2>3 DEF StartedOnce
<1> QED
  BY <1>4, <1>5, LessTaken DEF Copies, p
\* The process takes the head of its queue, which it may not be able to load.
LEMMA TakeCopies ==
    ASSUME NEW T, NEW d \in Seq(T), d # <<>>, NEW q, NEW w, NEW g, NEW f, NEW h,
           NEW s, NEW r, NEW b, NEW h2, NEW s2,
           Copies(d, q, w, g, f, h, s, r, b),
           h2 \in {Head(d), NoTask}, s2 = "loaded" => h2 # NoTask
    PROVE  Copies(Tail(d), q, w, g, f, h2, s2, r, b)
<1> DEFINE e == Tail(d)
<1> PICK n \in Nat : n = Len(d)
  BY LenProperties
<1>1. /\ Len(e) = n - 1 /\ n >= 1 /\ Head(d) = d[1]
      /\ \A i \in 1 .. n - 1 : e[i] = d[i + 1]
  BY HeadTailProperties
<1> HIDE DEF e
<1>2. 1 \in 1 .. n /\ QueuedOnce(d, q, w, g, f, h, r, b)
  BY <1>1 DEF Copies
<1>3. ASSUME NEW t, Taken(q, w, g, f, h2, t)
      PROVE  Taken(q, w, g, f, h, t) \/ t = h2
  BY <1>3 DEF Taken
<1>4. ASSUME h2 # NoTask
      PROVE  ~Taken(q, w, g, f, h, h2) /\ h2 # r /\ h2 # b
  BY <1>1, <1>2, <1>4 DEF QueuedOnce
<1>5. QueuedOnce(e, q, w, g, f, h2, r, b)
  <2> SUFFICES ASSUME NEW i \in 1 .. Len(e), e[i] # NoTask
               PROVE  /\ \A j \in 1 .. Len(e) : e[j] = e[i] => j = i
                      /\ ~Taken(q, w, g, f, h2, e[i])
                      /\ e[i] # r /\ e[i] # b
    BY DEF QueuedOnce
  <2>1. i + 1 \in 1 .. n /\ i + 1 # 1 /\ e[i] = d[i + 1]
    BY <1>1
  <2>2. d[i + 1] # d[1]
    BY <1>2, <2>1 DEF QueuedOnce
  <2>3. ASSUME NEW j \in 1 .. Len(e), e[j] = e[i] PROVE j = i
    <3>1. j + 1 \in 1 .. n /\ e[j] = d[j + 1]
      BY <1>1
    <3>2. j + 1 = i + 1
      BY <1>2, <2>1, <2>3, <3>1 DEF QueuedOnce
    <3> QED
      BY <3>2
  <2>4. ~Taken(q, w, g, f, h2, e[i])
    BY <1>1, <1>2, <1>3, <2>1, <2>2 DEF QueuedOnce
  <2> QED
    BY <1>2, <2>1, <2>3, <2>4 DEF QueuedOnce
<1>6. InHandOnce(q, w, g, f, h2, r, b)
  BY <1>3, <1>4 DEF Copies, InHandOnce
<1>7. StartedOnce(q, w, g, f, h2, s2)
  <2>1. ASSUME s2 = "loaded", NEW i \in 1 .. Len(q), From(q, i, w, g, "started")
        PROVE  h2 # q[i].task
    BY <1>4, <2>1 DEF Taken
  <2>2. s2 = "loaded" => h2 # f
    BY <1>4 DEF Taken
  <2> QED
    BY <2>1, <2>2 DEF Copies, StartedOnce
<1> QED
  BY <1>5, <1>6, <1>7 DEF Copies, e

\* The coordinator puts what it has in its hands, or a None, into the queue.
LEMMA PutCopies ==
    ASSUME NEW T, NEW d \in Seq(T), NEW q, NEW w, NEW g, NEW f, NEW h, NEW s,
           NEW r, NEW b, NEW t \in T, NEW r2, NEW b2,
           Copies(d, q, w, g, f, h, s, r, b),
           \/ t = NoTask /\ r2 = r /\ b2 = b
           \/ t = r /\ r2 = NoTask /\ b2 = b
           \/ t = b /\ r2 = r /\ b2 = NoTask
    PROVE  Copies(Append(d, t), q, w, g, f, h, s, r2, b2)
<1> DEFINE e == Append(d, t)
<1> PICK n \in Nat : n = Len(d)
  BY LenProperties
<1>1. /\ Len(e) = n + 1 /\ e[n + 1] = t
      /\ \A i \in 1 .. n : e[i] = d[i]
  OBVIOUS
<1> HIDE DEF e
<1>2. t # NoTask => ~Taken(q, w, g, f, h, t) /\ t # r2 /\ t # b2
  BY DEF Copies, InHandOnce
<1>3. \A i \in 1 .. n : d[i] # NoTask => d[i] # t
  BY DEF Copies, QueuedOnce
<1>4. QueuedOnce(e, q, w, g, f, h, r2, b2)
  <2> SUFFICES ASSUME NEW i \in 1 .. Len(e), e[i] # NoTask
               PROVE  /\ \A j \in 1 .. Len(e) : e[j] = e[i] => j = i
                      /\ ~Taken(q, w, g, f, h, e[i])
                      /\ e[i] # r2 /\ e[i] # b2
    BY DEF QueuedOnce
  <2>1. CASE i = n + 1
    <3>1. ASSUME NEW j \in 1 .. Len(e), e[j] = e[i] PROVE j = i
      <4>1. j \in 1 .. n \/ j = n + 1
        BY <1>1
      <4> QED
        BY <1>1, <1>3, <2>1, <3>1, <4>1
    <3> QED
      BY <1>1, <1>2, <2>1, <3>1
  <2>2. CASE i # n + 1
    <3>1. i \in 1 .. n /\ e[i] = d[i]
      BY <1>1, <2>2
    <3>2. /\ \A j \in 1 .. n : d[j] = d[i] => j = i
          /\ ~Taken(q, w, g, f, h, d[i]) /\ d[i] # r2 /\ d[i] # b2
      BY <3>1 DEF Copies, QueuedOnce
    <3>3. ASSUME NEW j \in 1 .. Len(e), e[j] = e[i] PROVE j = i
      <4>1. j \in 1 .. n \/ j = n + 1
        BY <1>1
      <4> QED
        BY <1>1, <1>3, <3>1, <3>2, <3>3, <4>1
    <3> QED
      BY <3>1, <3>2, <3>3
  <2> QED
    BY <2>1, <2>2
<1>5. InHandOnce(q, w, g, f, h, r2, b2)
  BY DEF Copies, InHandOnce
<1> QED
  BY <1>4, <1>5 DEF Copies, e

\* The worker is replaced: what it was on goes to the coordinator's hands, or is lost.
LEMMA ReplaceCopies ==
    ASSUME NEW d, NEW q, NEW w, NEW g, NEW f, NEW h, NEW s, NEW r, NEW b,
           NEW g2, NEW f2, NEW h2, NEW s2, NEW r2,
           Copies(d, q, w, g, f, h, s, r, b), s2 # "loaded",
           g2 = g \/ \A i \in 1 .. Len(q) : q[i].worker = w => q[i].gen # g2,
           f2 \in {f, NoTask}, h2 \in {h, NoTask},
           \/ r2 \in {r, NoTask}
           \/ f # NoTask /\ r2 = f /\ f2 = NoTask /\ h2 = NoTask
    PROVE  Copies(d, q, w, g2, f2, h2, s2, r2, b)
<1>1. \A i \in 1 .. Len(q) :
        From(q, i, w, g2, "started") => From(q, i, w, g, "started")
  BY DEF From
<1>2. \A t : t # NoTask /\ Taken(q, w, g2, f2, h2, t) => Taken(q, w, g, f, h, t)
  BY <1>1 DEF Taken
<1>3. StartedOnce(q, w, g2, f2, h2, s2)
  BY <1>1 DEF Copies, StartedOnce
<1>4. CASE r2 \in {r, NoTask}
  BY <1>2, <1>3, <1>4, LessTaken DEF Copies
<1>5. CASE f # NoTask /\ r2 = f /\ f2 = NoTask /\ h2 = NoTask
  <2>1. Taken(q, w, g, f, h, f)
    BY DEF Taken
  <2>2. ~Taken(q, w, g2, f2, h2, f)
    BY <1>1, <1>5 DEF Copies, StartedOnce, Taken
  <2>3. QueuedOnce(d, q, w, g2, f2, h2, f, b)
    BY <1>2, <2>1 DEF Copies, QueuedOnce
  <2>4. InHandOnce(q, w, g2, f2, h2, f, b)
    BY <1>2, <1>5, <2>1, <2>2 DEF Copies, InHandOnce
  <2> QED
    BY <1>3, <1>5, <2>3, <2>4 DEF Copies
<1> QED
  BY <1>4, <1>5

-----------------------------------------------------------------------------
(* Everything about a task happens at its shard.                           *)

\* Only run_batch and submit() touch what is still to be submitted, and neither adds.
LEMMA CallTakesBatch ==
    ASSUME TypeOK, Called
    PROVE  Unused' \subseteq Unused /\ (DisjointBatches => TodoOnce')
<1>1. /\ batch \in Nat /\ batch < Len(Batches) /\ Len(Batches) \in Nat
      /\ batch' = batch + 1 /\ todo' = Batches[batch + 1]
  BY BatchesAssumption DEF Called, TypeOK, BatchTypeOK
<1>2. /\ batch + 1 \in batch + 1 .. Len(Batches)
      /\ batch' + 1 .. Len(Batches) \subseteq batch + 1 .. Len(Batches)
  BY <1>1
<1>3. Unused' \subseteq Unused
  BY <1>1, <1>2 DEF Unused
<1>4. DisjointBatches => TodoOnce'
  BY <1>1 DEF DisjointBatches, TodoOnce
<1> QED
  BY <1>3, <1>4

LEMMA UnusedShrinks ==
    ASSUME TypeOK, [Next]_vars PROVE Unused' \subseteq Unused
<1>1. CASE UNCHANGED <<todo, batch>>
  BY <1>1 DEF Unused
<1>2. CASE RunBatch
  BY <1>2, CallTakesBatch DEF RunBatch, Called
<1>3. ASSUME NEW t \in todo, Submit(t) PROVE Unused' \subseteq Unused
  <2>1. todo' \subseteq todo /\ batch' = batch
    BY <1>3 DEF Submit
  <2> QED
    BY <2>1 DEF Unused
<1>4. CASE ControlStep \/ Put \/ Accept \/ FullReturns \/ StartContinues
           \/ CloseSignals \/ CloseJoins \/ Closed \/ Requeue
  <2>1. UNCHANGED <<todo, batch>>
    BY <1>4
    DEF ControlStep, StartDrains, Started, PutFull, AllSubmitted, WaitDrains,
        Return, Accepted, Close, DrainedAll, MonitorHealthy, DrainReturns,
        StartMonitors, Put, Accept, FullReturns, StartContinues, RaiseError,
        CloseSignals, CloseJoins, Closed, Requeue, batchVars
  <2> QED
    BY <1>1, <2>1
<1>5. CASE Reads \/ ReceiveFatal \/ MonitorDead \/ MonitorStale
  <2>1. UNCHANGED <<todo, batch>>
    BY <1>5
    DEF Reads, ReceiveStale, ReceiveWarmup, ReceiveStarted, ReceiveResult,
        ReceiveDone, ReceiveFatal, MonitorDead, MonitorStale, batchVars, poolVars
  <2> QED
    BY <1>1, <2>1
<1>6. CASE (\E w \in Workers : Worker(w)) \/ UNCHANGED vars
  <2>1. UNCHANGED <<todo, batch>>
    BY <1>6 DEF Worker, vars, poolVars
  <2> QED
    BY <1>1, <2>1
<1> QED
  BY <1>2, <1>3, <1>4, <1>5, <1>6
  DEF Next, Coordinator, ControlStep, Reads, Terminated

\* What is placed stays so while there is less to submit.
LEMMA PlacedStays ==
    ASSUME Unused' \subseteq Unused,
           \A v \in Workers : /\ QueuePlaced(Unused, v, taskQueue'[v])
                              /\ Placed(Unused, v, held'[v])
                              /\ Placed(Unused, v, inFlight'[v]),
           MessagesPlaced(Unused, resultQueue'),
           Placed(Unused, target', requeued'),
           submitting' # NoTask => submitting' \notin Unused
    PROVE  TasksPlaced'
<1>1. \A v, t : Placed(Unused, v, t) => Placed(Unused', v, t)
  BY DEF Placed
<1>2. \A v \in Workers : /\ QueuePlaced(Unused', v, taskQueue'[v])
                         /\ Placed(Unused', v, held'[v])
                         /\ Placed(Unused', v, inFlight'[v])
  BY <1>1 DEF QueuePlaced
<1>3. MessagesPlaced(Unused', resultQueue')
  BY <1>1 DEF MessagesPlaced
<1> QED
  BY <1>1, <1>2, <1>3 DEF TasksPlaced

\* Sequences that grow by an item of a set, or lose their head.
LEMMA ItemsStay ==
    ASSUME NEW T, NEW d \in Seq(T), NEW S, \A i \in 1 .. Len(d) : d[i] \in S
    PROVE  /\ \A t \in T \cap S :
                \A i \in 1 .. Len(Append(d, t)) : Append(d, t)[i] \in S
           /\ d # <<>> => /\ Head(d) \in S
                          /\ \A i \in 1 .. Len(Tail(d)) : Tail(d)[i] \in S
<1> PICK n \in Nat : n = Len(d)
  BY LenProperties
<1>1. ASSUME NEW t \in T \cap S, NEW i \in 1 .. Len(Append(d, t))
      PROVE  Append(d, t)[i] \in S
  <2>1. i \in 1 .. n \/ i = n + 1
    OBVIOUS
  <2> QED
    BY <2>1
<1>2. ASSUME d # <<>>
      PROVE  Head(d) \in S /\ \A i \in 1 .. Len(Tail(d)) : Tail(d)[i] \in S
  <2>1. /\ Len(Tail(d)) = n - 1 /\ n >= 1 /\ Head(d) = d[1]
        /\ \A i \in 1 .. n - 1 : Tail(d)[i] = d[i + 1]
    BY <1>2, HeadTailProperties
  <2>2. 1 \in 1 .. n /\ \A i \in 1 .. n - 1 : i + 1 \in 1 .. n
    BY <2>1
  <2> QED
    BY <2>1, <2>2
<1> QED
  BY <1>1, <1>2

LEMMA QueueStaysPlaced ==
    ASSUME NEW T, NEW d \in Seq(T), NEW u, NEW w, QueuePlaced(u, w, d)
    PROVE  /\ \A t \in T : Placed(u, w, t) => QueuePlaced(u, w, Append(d, t))
           /\ d # <<>> => Placed(u, w, Head(d)) /\ QueuePlaced(u, w, Tail(d))
<1> DEFINE S == {t \in T : Placed(u, w, t)}
<1>1. \A i \in 1 .. Len(d) : d[i] \in S
  BY DEF QueuePlaced
<1>2. \A t \in S : t \in T \cap S /\ Placed(u, w, t)
  OBVIOUS
<1> HIDE DEF S
<1> QED
  BY <1>1, <1>2, ItemsStay DEF QueuePlaced, S

LEMMA MessagesStayPlaced ==
    ASSUME NEW q \in Seq(Messages), NEW u, MessagesPlaced(u, q)
    PROVE  /\ \A m \in Messages : Placed(u, m.worker, m.task)
                 => MessagesPlaced(u, Append(q, m))
           /\ q # <<>> => MessagesPlaced(u, Tail(q))
<1> DEFINE S == {m \in Messages : Placed(u, m.worker, m.task)}
<1>1. \A i \in 1 .. Len(q) : q[i] \in S
  BY DEF MessagesPlaced
<1>2. \A m \in S : m \in Messages \cap S /\ Placed(u, m.worker, m.task)
  OBVIOUS
<1> HIDE DEF S
<1> QED
  BY <1>1, <1>2, ItemsStay DEF MessagesPlaced, S
-----------------------------------------------------------------------------
(* A task is in one place: the steps of the pool.                          *)

LEMMA WorkerKeepsCopies ==
    ASSUME TypeInv, CopyInv, NEW w \in Workers, Worker(w) PROVE CopyInv'
<1>1. /\ TypeOK /\ resultQueue \in Seq(Messages)
      /\ taskQueue \in [Workers -> Seq(Tasks \cup {NoTask})]
      /\ \A v \in Workers : state[v] = "loaded" => held[v] # NoTask
  BY NoTaskAssumption DEF TypeInv, TypeOK, WorkerTypeOK, HoldsTask
<1>2. /\ \/ Signals(w) \/ Begins(w) \/ Answers(w) \/ Hangs(w) \/ Ends(w)
         \/ Takes(w)
      /\ \A v \in Workers \ {w} : state'[v] = state[v] /\ held'[v] = held[v]
      /\ UNCHANGED <<generation, inFlight, requeued, target, submitting, todo, batch>>
  BY WorkerSteps DEF poolVars
<1>3. Unused' = Unused /\ TodoOnce'
  BY <1>2 DEF Unused, CopyInv, TodoOnce
<1>4. ASSUME NEW v \in Workers
      PROVE  /\ Copies(taskQueue[v], resultQueue, v, generation[v], inFlight[v],
                       held[v], state[v], requeued, submitting)
             /\ QueuePlaced(Unused, v, taskQueue[v])
             /\ Placed(Unused, v, held[v]) /\ Placed(Unused, v, inFlight[v])
             /\ Placed(Unused, v, NoTask)
  BY DEF CopyInv, CopiesApart, TasksPlaced, Placed
<1>5. /\ MessagesPlaced(Unused, resultQueue) /\ Placed(Unused, target, requeued)
      /\ submitting # NoTask => submitting \notin Unused
  BY DEF CopyInv, TasksPlaced
<1>6. CASE Signals(w) \/ Begins(w) \/ Answers(w)
  <2>1. PICK m \in Messages :
          /\ resultQueue' = Append(resultQueue, m)
          /\ m.worker = w /\ m.gen = generation[w]
          /\ \/ Signals(w) /\ m.type \notin {"started", "result"} /\ m.task = NoTask
             \/ Begins(w) /\ m.type = "started" /\ m.task = held[w]
             \/ Answers(w) /\ m.type = "result" /\ m.task = held[w]
    BY <1>1, <1>6, EmittedBy
  <2>2. /\ UNCHANGED taskQueue /\ held'[w] \in {held[w], NoTask}
        /\ state'[w] # "loaded"
        /\ m.type = "started" => state[w] = "loaded" /\ held[w] # NoTask
    BY <1>6, <2>1 DEF Signals, Begins, Answers, Moves, Ended
  <2>3. ASSUME NEW v \in Workers
        PROVE  Copies(taskQueue[v], Append(resultQueue, m), v, generation[v],
                      inFlight[v], held'[v], state'[v], requeued, submitting)
    <3>1. CASE v = w
      BY <1>1, <1>4, <2>1, <2>2, <3>1, AppendCopies
    <3>2. CASE v # w
      BY <1>1, <1>2, <1>4, <2>1, <3>2, AppendCopies
    <3> QED
      BY <3>1, <3>2
  <2>4. CopiesApart'
    BY <1>2, <2>1, <2>2, <2>3 DEF CopiesApart
  <2>5. MessagesPlaced(Unused, resultQueue')
    BY <1>1, <1>4, <1>5, <2>1, MessagesStayPlaced
  <2>6. TasksPlaced'
    BY <1>2, <1>3, <1>4, <1>5, <2>2, <2>5, PlacedStays
  <2> QED
    BY <1>3, <2>4, <2>6 DEF CopyInv
<1>7. CASE Hangs(w) \/ Ends(w)
  <2>1. /\ UNCHANGED <<taskQueue, resultQueue>> /\ held'[w] \in {held[w], NoTask}
        /\ state'[w] # "loaded"
    BY <1>7 DEF Hangs, Ends, Moves, Ended
  <2>2. ASSUME NEW v \in Workers
        PROVE  Copies(taskQueue[v], resultQueue, v, generation[v],
                      inFlight[v], held'[v], state'[v], requeued, submitting)
    BY <1>1, <1>2, <1>4, <2>1, MoveCopies
  <2>3. CopiesApart'
    BY <1>2, <2>1, <2>2 DEF CopiesApart
  <2>4. TasksPlaced'
    BY <1>2, <1>3, <1>4, <1>5, <2>1, PlacedStays
  <2> QED
    BY <1>3, <2>3, <2>4 DEF CopyInv
<1>8. CASE Takes(w)
  <2>1. /\ taskQueue[w] # <<>> /\ UNCHANGED resultQueue
        /\ taskQueue' = [taskQueue EXCEPT ![w] = Tail(@)]
        /\ held'[w] \in {Head(taskQueue[w]), NoTask}
        /\ state'[w] = "loaded" => held'[w] # NoTask
    BY <1>8 DEF Takes, Moves, Ended
  <2>2. taskQueue'[w] = Tail(taskQueue[w])
        /\ \A v \in Workers \ {w} : taskQueue'[v] = taskQueue[v]
    BY <1>1, <2>1
  <2>3. ASSUME NEW v \in Workers
        PROVE  Copies(taskQueue'[v], resultQueue, v, generation[v],
                      inFlight[v], held'[v], state'[v], requeued, submitting)
    <3>1. CASE v = w
      <4>1. taskQueue[v] \in Seq(Tasks \cup {NoTask})
        BY <1>1
      <4> QED
        BY <1>4, <2>1, <2>2, <3>1, <4>1, TakeCopies
    <3>2. CASE v # w
      BY <1>2, <1>4, <2>2, <3>2
    <3> QED
      BY <3>1, <3>2
  <2>4. CopiesApart'
    BY <1>2, <2>1, <2>3 DEF CopiesApart
  <2>5. Placed(Unused, w, Head(taskQueue[w])) /\ QueuePlaced(Unused, w, Tail(taskQueue[w]))
    <3>1. taskQueue[w] \in Seq(Tasks \cup {NoTask})
      BY <1>1
    <3> QED
      BY <1>4, <2>1, <3>1, QueueStaysPlaced
  <2>6. TasksPlaced'
    <3>1. \A v \in Workers : /\ QueuePlaced(Unused, v, taskQueue'[v])
                             /\ Placed(Unused, v, held'[v])
                             /\ Placed(Unused, v, inFlight'[v])
      BY <1>2, <1>4, <2>1, <2>2, <2>5
    <3> QED
      BY <1>2, <1>3, <1>5, <2>1, <3>1, PlacedStays
  <2> QED
    BY <1>3, <2>4, <2>6 DEF CopyInv
<1> QED
  BY <1>2, <1>6, <1>7, <1>8
\* What CopyInv says, in the form the steps below use it.
LEMMA CopyFacts ==
    ASSUME TypeInv, CopyInv
    PROVE  /\ TypeOK /\ resultQueue \in Seq(Messages)
           /\ taskQueue \in [Workers -> Seq(Tasks \cup {NoTask})]
           /\ \A v \in Workers :
                /\ state[v] = "loaded" => held[v] # NoTask
                /\ Copies(taskQueue[v], resultQueue, v, generation[v], inFlight[v],
                          held[v], state[v], requeued, submitting)
                /\ QueuePlaced(Unused, v, taskQueue[v])
                /\ Placed(Unused, v, held[v]) /\ Placed(Unused, v, inFlight[v])
                /\ Placed(Unused, v, NoTask)
           /\ MessagesPlaced(Unused, resultQueue) /\ Placed(Unused, target, requeued)
           /\ submitting # NoTask => submitting \notin Unused
<1>1. /\ TypeOK /\ resultQueue \in Seq(Messages)
      /\ taskQueue \in [Workers -> Seq(Tasks \cup {NoTask})]
      /\ \A v \in Workers : state[v] = "loaded" => held[v] # NoTask
  BY NoTaskAssumption DEF TypeInv, TypeOK, WorkerTypeOK, HoldsTask
<1>2. /\ \A v \in Workers :
           /\ Copies(taskQueue[v], resultQueue, v, generation[v], inFlight[v],
                     held[v], state[v], requeued, submitting)
           /\ QueuePlaced(Unused, v, taskQueue[v])
           /\ Placed(Unused, v, held[v]) /\ Placed(Unused, v, inFlight[v])
           /\ Placed(Unused, v, NoTask)
      /\ MessagesPlaced(Unused, resultQueue) /\ Placed(Unused, target, requeued)
      /\ submitting # NoTask => submitting \notin Unused
  BY DEF CopyInv, CopiesApart, TasksPlaced, Placed
<1> QED
  BY <1>1, <1>2

\* The coordinator reads a message.
LEMMA ReadKeepsCopies ==
    ASSUME TypeInv, StaleInv, CopyInv, Reads PROVE CopyInv'
<1>1. /\ TypeOK /\ resultQueue # <<>> /\ resultQueue' = Tail(resultQueue)
      /\ UNCHANGED <<state, held, generation, taskQueue, requeued, target,
                     submitting, todo, batch>>
      /\ resultQueue \in Seq(Messages) /\ 1 \in 1 .. Len(resultQueue)
      /\ resultQueue[1].worker \in Workers
  BY ReadRecords, ReadMessages DEF TypeInv
<1>2. \A v \in Workers :
        \/ inFlight'[v] \in {inFlight[v], NoTask}
        \/ /\ From(resultQueue, 1, v, generation[v], "started")
           /\ inFlight'[v] = resultQueue[1].task
  BY <1>1, ReadRecords
<1>3. Unused' = Unused /\ TodoOnce'
  BY <1>1 DEF Unused, CopyInv, TodoOnce
<1>4. CopiesApart'
  <2>1. ASSUME NEW v \in Workers
        PROVE  Copies(taskQueue[v], Tail(resultQueue), v, generation[v],
                      inFlight'[v], held[v], state[v], requeued, submitting)
    BY <1>1, <1>2, CopyFacts, TailCopies
  <2> QED
    BY <1>1, <2>1 DEF CopiesApart
<1>5. TasksPlaced'
  <2>1. \A v \in Workers : Placed(Unused, v, inFlight'[v])
    <3> SUFFICES ASSUME NEW v \in Workers PROVE Placed(Unused, v, inFlight'[v])
      OBVIOUS
    <3>1. CASE inFlight'[v] \in {inFlight[v], NoTask}
      BY <3>1, CopyFacts
    <3>2. CASE From(resultQueue, 1, v, generation[v], "started")
               /\ inFlight'[v] = resultQueue[1].task
      BY <1>1, <3>2, CopyFacts DEF From, MessagesPlaced
    <3> QED
      BY <1>2, <3>1, <3>2
  <2>2. MessagesPlaced(Unused, resultQueue')
    BY <1>1, CopyFacts, MessagesStayPlaced
  <2> QED
    BY <1>1, <1>3, <2>1, <2>2, CopyFacts, PlacedStays
<1> QED
  BY <1>3, <1>4, <1>5 DEF CopyInv

\* _restart_worker: q is the result queue after the step, which is the one before but
\* for a message that was read.
LEMMA RestartKeepsCopies ==
    ASSUME TypeInv, CopyInv, NEW w \in Workers, NEW from, Restarts(w, from),
           UNCHANGED <<submitting, todo, batch>>,
           NEW q \in Seq(Messages), resultQueue' = q,
           \A i \in 1 .. Len(q) : q[i].gen <= generation[q[i].worker],
           MessagesPlaced(Unused, q),
           \A v \in Workers :
              Copies(taskQueue[v], q, v, generation[v], inFlight[v], held[v],
                     state[v], requeued, submitting)
    PROVE  CopyInv'
<1>1. /\ Replaced(w) /\ held'[w] = NoTask /\ inFlight'[w] = NoTask
      /\ \A v \in Workers \ {w} : held'[v] = held[v] /\ inFlight'[v] = inFlight[v]
      /\ UNCHANGED taskQueue
      /\ \/ UNCHANGED <<target, requeued>>
         \/ inFlight[w] # NoTask /\ requeued' = inFlight[w] /\ target' = w
  BY DEF Restarts
<1>2. Unused' = Unused /\ TodoOnce'
  BY DEF Unused, CopyInv, TodoOnce
<1>3. ASSUME NEW v \in Workers
      PROVE  Copies(taskQueue[v], q, v, generation'[v], inFlight'[v], held'[v],
                    state'[v], requeued', submitting)
  <2>1. CASE v = w
    <3>1. state'[w] # "loaded" /\ generation'[w] \in {generation[w], generation[w] + 1}
      BY <1>1 DEF Replaced
    <3>2. ASSUME generation'[w] = generation[w] + 1,
                 NEW i \in 1 .. Len(q), q[i].worker = w
          PROVE  q[i].gen # generation'[w]
      <4>1. generation[w] \in Nat /\ q[i] \in Messages
        BY CopyFacts DEF TypeOK, WorkerTypeOK
      <4>2. q[i].gen \in Nat /\ q[i].gen <= generation[w]
        BY <3>2, <4>1 DEF Messages
      <4> QED
        BY <3>2, <4>1, <4>2
    <3>3. \/ generation'[w] = generation[w]
          \/ \A i \in 1 .. Len(q) : q[i].worker = w => q[i].gen # generation'[w]
      BY <3>1, <3>2
    <3>4. \/ requeued' = requeued
          \/ inFlight[w] # NoTask /\ requeued' = inFlight[w]
      BY <1>1
    <3>5. Copies(taskQueue[w], q, w, generation'[w], NoTask, NoTask, state'[w],
                 requeued', submitting)
      <4> DEFINE g2 == generation'[w]
                 s2 == state'[w]
                 r2 == requeued'
      <4>1. /\ s2 # "loaded"
            /\ \/ r2 = requeued
               \/ inFlight[w] # NoTask /\ r2 = inFlight[w]
            /\ \/ g2 = generation[w]
               \/ \A i \in 1 .. Len(q) : q[i].worker = w => q[i].gen # g2
        BY <3>1, <3>3, <3>4
      <4>2. Copies(taskQueue[w], q, w, generation[w], inFlight[w], held[w], state[w],
                   requeued, submitting)
        OBVIOUS
      <4> HIDE DEF g2, s2, r2
      <4>3. Copies(taskQueue[w], q, w, g2, NoTask, NoTask, s2, r2, submitting)
        BY <4>1, <4>2, ReplaceCopies
      <4> QED
        BY <4>3 DEF g2, s2, r2
    <3> QED
      BY <1>1, <2>1, <3>5
  <2>2. CASE v # w
    <3>1. /\ state'[v] = state[v] /\ generation'[v] = generation[v]
          /\ held'[v] = held[v] /\ inFlight'[v] = inFlight[v]
      BY <1>1, <2>2 DEF Replaced
    <3>2. CASE UNCHANGED requeued
      BY <3>1, <3>2
    <3>3. CASE inFlight[w] # NoTask /\ requeued' = inFlight[w]
      <4> DEFINE r == inFlight[w]
      <4>1. ShardOf(r) = w /\ ShardOf(r) # v
        BY <2>2, <3>3, CopyFacts DEF Placed
      <4>2. \A i \in 1 .. Len(taskQueue[v]) : taskQueue[v][i] # NoTask => taskQueue[v][i] # r
        BY <4>1, CopyFacts DEF QueuePlaced, Placed
      <4>3. ~Taken(q, v, generation[v], inFlight[v], held[v], r)
        BY <3>3, <4>1, CopyFacts DEF Taken, From, MessagesPlaced, Placed
      <4>4. /\ Copies(taskQueue[v], q, v, generation[v], inFlight[v], held[v],
                      state[v], requeued, submitting)
            /\ Copies(taskQueue[w], q, w, generation[w], inFlight[w], held[w],
                      state[w], requeued, submitting)
        OBVIOUS
      <4>5. r # submitting
        BY <3>3, <4>4 DEF Copies, InHandOnce, Taken
      <4>6. Copies(taskQueue[v], q, v, generation[v], inFlight[v], held[v],
                   state[v], r, submitting)
        BY <4>2, <4>3, <4>4, <4>5 DEF Copies, QueuedOnce, InHandOnce
      <4> QED
        BY <3>1, <3>3, <4>6
    <3> QED
      BY <1>1, <3>2, <3>3
  <2> QED
    BY <2>1, <2>2
<1>4. CopiesApart'
  BY <1>1, <1>3 DEF CopiesApart
<1>5. TasksPlaced'
  <2>1. Placed(Unused, target', requeued')
    BY <1>1, CopyFacts
  <2>2. \A v \in Workers : Placed(Unused, v, held'[v]) /\ Placed(Unused, v, inFlight'[v])
    BY <1>1, CopyFacts
  <2> QED
    BY <1>1, <1>2, <2>1, <2>2, CopyFacts, PlacedStays
<1> QED
  BY <1>2, <1>4, <1>5 DEF CopyInv

LEMMA FatalKeepsCopies ==
    ASSUME TypeInv, StaleInv, CopyInv, FatalRestarts PROVE CopyInv'
<1>1. /\ resultQueue # <<>> /\ resultQueue' = Tail(resultQueue)
      /\ Restarts(Message.worker, "drain")
      /\ UNCHANGED <<submitting, todo, batch>>
  BY DEF FatalRestarts, Receive, batchVars
<1>2. /\ Message.worker \in Workers /\ resultQueue' \in Seq(Messages)
      /\ \A i \in 1 .. Len(resultQueue') :
            resultQueue'[i].gen <= generation[resultQueue'[i].worker]
  BY <1>1, ReadMessages DEF TypeInv
<1>3. \A v \in Workers :
        Copies(taskQueue[v], resultQueue', v, generation[v], inFlight[v], held[v],
               state[v], requeued, submitting)
  BY <1>1, CopyFacts, TailCopies
<1>4. MessagesPlaced(Unused, resultQueue')
  BY <1>1, CopyFacts, MessagesStayPlaced
<1> QED
  BY <1>1, <1>2, <1>3, <1>4, RestartKeepsCopies

LEMMA MonitorKeepsCopies ==
    ASSUME TypeInv, StaleInv, CopyInv, MonitorRestarts PROVE CopyInv'
<1>1. /\ scan \in Workers /\ Restarts(scan, "monitor") /\ UNCHANGED resultQueue
      /\ UNCHANGED <<submitting, todo, batch>>
  BY DEF MonitorRestarts, batchVars
<1>2. \A i \in 1 .. Len(resultQueue) :
         resultQueue[i].gen <= generation[resultQueue[i].worker]
  BY DEF StaleInv, NoFutureGeneration
<1> QED
  BY <1>1, <1>2, CopyFacts, RestartKeepsCopies

\* The put back of the in-flight task, and the replacement that is spawned after it.
LEMMA RequeueKeepsCopies ==
    ASSUME TypeInv, StaleInv, CopyInv, Requeue PROVE CopyInv'
<1>1. /\ target \in Workers /\ Respawn(target)
      /\ taskQueue' = [taskQueue EXCEPT ![target] = Append(@, requeued)]
      /\ requeued' = NoTask /\ inFlight[target] = NoTask
      /\ UNCHANGED <<held, resultQueue, inFlight, submitting, todo, batch, target>>
      /\ requeued \in Tasks \cup {NoTask}
  <2>1. UNCHANGED target
    BY DEF Requeue, Respawn, Continue
  <2> QED
    BY <2>1 DEF Requeue, TypeInv, TypeOK, ControlTypeOK, StaleInv, RequeuePopped, batchVars
<1>2. Unused' = Unused /\ TodoOnce'
  BY <1>1 DEF Unused, CopyInv, TodoOnce
<1>3. /\ taskQueue'[target] = Append(taskQueue[target], requeued)
      /\ \A v \in Workers \ {target} : taskQueue'[v] = taskQueue[v]
  BY <1>1, CopyFacts
<1>4. /\ Replaced(target) /\ state'[target] # "loaded"
      /\ generation'[target] \in {generation[target], generation[target] + 1}
  BY <1>1, CopyFacts, RespawnReplaces DEF Replaced
<1>5. ASSUME generation'[target] = generation[target] + 1,
             NEW i \in 1 .. Len(resultQueue), resultQueue[i].worker = target
      PROVE  resultQueue[i].gen # generation'[target]
  <2>1. generation[target] \in Nat /\ resultQueue[i] \in Messages
    BY <1>1, CopyFacts DEF TypeOK, WorkerTypeOK
  <2>2. resultQueue[i].gen \in Nat /\ resultQueue[i].gen <= generation[target]
    BY <1>5, <2>1 DEF Messages, StaleInv, NoFutureGeneration
  <2> QED
    BY <1>5, <2>1, <2>2
<1>6. ASSUME NEW v \in Workers
      PROVE  Copies(taskQueue'[v], resultQueue, v, generation'[v], inFlight[v],
                    held[v], state'[v], NoTask, submitting)
  <2>1. CASE v # target
    <3>1. generation'[v] = generation[v] /\ state'[v] = state[v]
      BY <1>4, <2>1 DEF Replaced
    <3>2. Copies(taskQueue[v], resultQueue, v, generation[v], inFlight[v],
                 held[v], state[v], NoTask, submitting)
      BY CopyFacts, MoveCopies
    <3> QED
      BY <1>3, <2>1, <3>1, <3>2
  <2>2. CASE v = target
    <3> DEFINE d == Append(taskQueue[v], requeued)
               g2 == generation'[v]
               s2 == state'[v]
    <3>1. taskQueue[v] \in Seq(Tasks \cup {NoTask})
      BY CopyFacts
    <3>2. Copies(d, resultQueue, v, generation[v], inFlight[v], held[v], state[v],
                 NoTask, submitting)
      BY <1>1, <3>1, CopyFacts, PutCopies
    <3>3. /\ s2 # "loaded"
          /\ \/ g2 = generation[v]
             \/ \A i \in 1 .. Len(resultQueue) :
                   resultQueue[i].worker = v => resultQueue[i].gen # g2
      BY <1>4, <1>5, <2>2
    <3> HIDE DEF g2, s2, d
    <3>4. Copies(d, resultQueue, v, g2, inFlight[v], held[v], s2, NoTask, submitting)
      BY <3>2, <3>3, ReplaceCopies
    <3> QED
      BY <1>3, <2>2, <3>4 DEF d, g2, s2
  <2> QED
    BY <2>1, <2>2
<1>7. CopiesApart'
  BY <1>1, <1>6 DEF CopiesApart
<1>8. TasksPlaced'
  <2>1. QueuePlaced(Unused, target, Append(taskQueue[target], requeued))
    <3>1. taskQueue[target] \in Seq(Tasks \cup {NoTask})
      BY <1>1, CopyFacts
    <3> QED
      BY <1>1, <3>1, CopyFacts, QueueStaysPlaced
  <2>2. \A v \in Workers : QueuePlaced(Unused, v, taskQueue'[v])
    BY <1>3, <2>1, CopyFacts
  <2>3. Placed(Unused, target', requeued')
    BY <1>1 DEF Placed
  <2> QED
    BY <1>1, <1>2, <2>2, <2>3, CopyFacts, PlacedStays
<1> QED
  BY <1>2, <1>7, <1>8 DEF CopyInv

\* submit() takes a new task into its hands,
LEMMA SubmitKeepsCopies ==
    ASSUME TypeInv, CopyInv, NEW t \in todo, Submit(t) PROVE CopyInv'
<1>1. /\ todo' = todo \ {t} /\ submitting' = t
      /\ UNCHANGED <<state, held, generation, taskQueue, resultQueue, inFlight,
                     target, requeued, batch>>
  BY DEF Submit
<1>2. t \in Unused /\ Unused' \subseteq Unused
  BY <1>1 DEF Unused
<1>3. t \notin Unused' /\ TodoOnce'
  BY <1>1 DEF Unused, CopyInv, TodoOnce
<1>4. ASSUME NEW v \in Workers
      PROVE  Copies(taskQueue[v], resultQueue, v, generation[v], inFlight[v],
                    held[v], state[v], requeued, t)
  <2>1. \A i \in 1 .. Len(taskQueue[v]) : taskQueue[v][i] # NoTask =>
           taskQueue[v][i] # t /\ taskQueue[v][i] # requeued
    BY <1>2, CopyFacts DEF QueuePlaced, Placed, Copies, QueuedOnce
  <2>2. t # NoTask => ~Taken(resultQueue, v, generation[v], inFlight[v], held[v], t)
    BY <1>2, CopyFacts DEF Taken, From, MessagesPlaced, Placed
  <2>3. requeued # NoTask => requeued # t
    BY <1>2, CopyFacts DEF Placed
  <2> QED
    BY <2>1, <2>2, <2>3, CopyFacts DEF Copies, QueuedOnce, InHandOnce
<1>5. CopiesApart'
  BY <1>1, <1>4 DEF CopiesApart
<1>6. TasksPlaced'
  <2>1. \A v, x : Placed(Unused, v, x) => Placed(Unused', v, x)
    BY <1>2 DEF Placed
  <2>2. /\ \A v \in Workers : /\ QueuePlaced(Unused', v, taskQueue[v])
                              /\ Placed(Unused', v, held[v])
                              /\ Placed(Unused', v, inFlight[v])
        /\ MessagesPlaced(Unused', resultQueue)
        /\ Placed(Unused', target, requeued)
    BY <2>1, CopyFacts DEF QueuePlaced, MessagesPlaced
  <2> QED
    BY <1>1, <1>3, <2>2 DEF TasksPlaced
<1> QED
  BY <1>3, <1>5, <1>6 DEF CopyInv

\* and puts it into the queue of its shard; so does whoever puts a task back.
LEMMA InsertKeepsCopies ==
    ASSUME TypeInv, CopyInv, NEW w, NEW t \in Tasks \cup {NoTask},
           taskQueue' = [taskQueue EXCEPT ![w] = Append(@, t)],
           \/ t = submitting /\ submitting' = NoTask /\ UNCHANGED requeued
           \/ t = requeued /\ requeued' = NoTask /\ UNCHANGED submitting,
           t # NoTask => ShardOf(t) = w,
           UNCHANGED <<state, held, generation, resultQueue, inFlight, target,
                       batch, todo>>
    PROVE  CopyInv'
<1>1. /\ requeued' \in {requeued, NoTask} /\ submitting' \in {submitting, NoTask}
      /\ \/ t = requeued /\ requeued' = NoTask /\ submitting' = submitting
         \/ t = submitting /\ requeued' = requeued /\ submitting' = NoTask
  OBVIOUS
<1>2. Unused' = Unused /\ TodoOnce'
  BY DEF Unused, CopyInv, TodoOnce
<1>3. \A v \in Workers : taskQueue'[v] = IF v = w THEN Append(taskQueue[v], t)
                                         ELSE taskQueue[v]
  BY CopyFacts
<1>4. ASSUME NEW v \in Workers
      PROVE  Copies(taskQueue'[v], resultQueue, v, generation[v], inFlight[v],
                    held[v], state[v], requeued', submitting')
  <2> DEFINE r2 == requeued'
             b2 == submitting'
  <2>1. /\ Copies(taskQueue[v], resultQueue, v, generation[v], inFlight[v],
                  held[v], state[v], requeued, submitting)
        /\ taskQueue[v] \in Seq(Tasks \cup {NoTask})
    BY CopyFacts
  <2>2. /\ r2 \in {requeued, NoTask} /\ b2 \in {submitting, NoTask}
        /\ \/ t = requeued /\ r2 = NoTask /\ b2 = submitting
           \/ t = submitting /\ r2 = requeued /\ b2 = NoTask
    BY <1>1
  <2> HIDE DEF r2, b2
  <2>3. Copies(Append(taskQueue[v], t), resultQueue, v, generation[v], inFlight[v],
               held[v], state[v], r2, b2)
    <3>1. CASE t = requeued /\ r2 = NoTask /\ b2 = submitting
      BY <2>1, <3>1, PutCopies
    <3>2. CASE t = submitting /\ r2 = requeued /\ b2 = NoTask
      BY <2>1, <3>2, PutCopies
    <3> QED
      BY <2>2, <3>1, <3>2
  <2>4. Copies(taskQueue[v], resultQueue, v, generation[v], inFlight[v], held[v],
               state[v], r2, b2)
    BY <2>1, <2>2, CopyFacts, MoveCopies
  <2>5. taskQueue'[v] \in {taskQueue[v], Append(taskQueue[v], t)}
    BY <1>3
  <2> QED
    BY <2>3, <2>4, <2>5 DEF r2, b2
<1>5. CopiesApart'
  BY <1>4 DEF CopiesApart
<1>6. TasksPlaced'
  <2>1. ASSUME NEW v \in Workers PROVE QueuePlaced(Unused, v, taskQueue'[v])
    <3>1. CASE v = w
      <4>1. taskQueue[v] \in Seq(Tasks \cup {NoTask})
        BY CopyFacts
      <4>2. Placed(Unused, v, t)
        BY <3>1, CopyFacts DEF Placed
      <4>3. QueuePlaced(Unused, v, Append(taskQueue[v], t))
        BY <4>1, <4>2, CopyFacts, QueueStaysPlaced
      <4> QED
        BY <1>3, <3>1, <4>3
    <3>2. CASE v # w
      BY <1>3, <3>2, CopyFacts
    <3> QED
      BY <3>1, <3>2
  <2>2. Placed(Unused, target', requeued')
    BY <1>1, CopyFacts DEF Placed
  <2> QED
    BY <1>1, <1>2, <2>1, <2>2, CopyFacts, PlacedStays
<1> QED
  BY <1>2, <1>5, <1>6 DEF CopyInv

\* close() puts its None where there is room.
LEMMA SignalKeepsCopies ==
    ASSUME TypeInv, CopyInv, CloseSignals PROVE CopyInv'
<1>1. /\ UNCHANGED <<state, held, generation, resultQueue, inFlight, target,
                     requeued, submitting, batch, todo>>
      /\ \A v \in Workers : taskQueue'[v] \in {taskQueue[v], Append(taskQueue[v], NoTask)}
  BY DEF CloseSignals, batchVars
<1>2. Unused' = Unused /\ TodoOnce'
  BY <1>1 DEF Unused, CopyInv, TodoOnce
<1>3. ASSUME NEW v \in Workers
      PROVE  /\ Copies(taskQueue'[v], resultQueue, v, generation[v], inFlight[v],
                       held[v], state[v], requeued, submitting)
             /\ QueuePlaced(Unused, v, taskQueue'[v])
  <2>1. taskQueue[v] \in Seq(Tasks \cup {NoTask})
    BY CopyFacts
  <2>2. /\ Copies(Append(taskQueue[v], NoTask), resultQueue, v, generation[v],
                  inFlight[v], held[v], state[v], requeued, submitting)
        /\ QueuePlaced(Unused, v, Append(taskQueue[v], NoTask))
    BY <2>1, CopyFacts, PutCopies, QueueStaysPlaced
  <2> QED
    BY <1>1, <2>2, CopyFacts
<1>4. CopiesApart'
  BY <1>1, <1>3 DEF CopiesApart
<1>5. TasksPlaced'
  BY <1>1, <1>2, <1>3, CopyFacts, PlacedStays
<1> QED
  BY <1>2, <1>4, <1>5 DEF CopyInv

\* The other steps put no task anywhere: processes end or are spawned, and what
\* was in flight is forgotten when the pool is closed.
LEMMA LifecycleKeepsCopies ==
    ASSUME TypeInv, CopyInv, Unused' \subseteq Unused, TodoOnce',
           \A v \in Workers :
              /\ held'[v] \in {held[v], NoTask}
              /\ inFlight'[v] \in {inFlight[v], NoTask}
              /\ state'[v] = "loaded" => state[v] = "loaded" /\ held'[v] = held[v],
           requeued' \in {requeued, NoTask},
           UNCHANGED <<generation, taskQueue, resultQueue, target, submitting>>
    PROVE  CopyInv'
<1>1. CopiesApart'
  <2>1. ASSUME NEW v \in Workers
        PROVE  Copies(taskQueue[v], resultQueue, v, generation[v], inFlight'[v],
                      held'[v], state'[v], requeued', submitting)
    BY CopyFacts, MoveCopies
  <2> QED
    BY <2>1 DEF CopiesApart
<1>2. /\ \A v \in Workers : Placed(Unused, v, held'[v]) /\ Placed(Unused, v, inFlight'[v])
      /\ Placed(Unused, target', requeued')
  BY CopyFacts DEF Placed
<1>3. TasksPlaced'
  BY <1>2, CopyFacts, PlacedStays
<1> QED
  BY <1>1, <1>3 DEF CopyInv

\* Every step keeps each task in one place.
LEMMA NextKeepsCopies ==
    ASSUME DisjointBatches, TypeInv, StaleInv, CopyInv, [Next]_vars PROVE CopyInv'
<1>1. TypeOK /\ Unused' \subseteq Unused
  BY UnusedShrinks DEF TypeInv
<1>2. CASE \E w \in Workers : Worker(w)
  BY <1>2, WorkerKeepsCopies
<1>3. CASE Reads
  BY <1>3, ReadKeepsCopies
<1>4. CASE ReceiveFatal \/ MonitorDead \/ MonitorStale \/ Requeue
  BY <1>1, <1>4, RestartCalls, FatalKeepsCopies, MonitorKeepsCopies, RequeueKeepsCopies
<1>5. CASE (\E t \in todo : Submit(t)) \/ CloseSignals
  BY <1>5, SubmitKeepsCopies, SignalKeepsCopies
<1>10. CASE Put
  <2>1. submitting \in Tasks \cup {NoTask}
    BY <1>1 DEF TypeOK, BatchTypeOK
  <2> QED
    BY <1>10, <2>1, InsertKeepsCopies DEF Put
<1>6. CASE RunBatch
  <2>1. Called /\ (UNCHANGED state \/ state' = [v \in Workers |-> "booting"])
    BY <1>6 DEF RunBatch, Called
  <2>2. TodoOnce'
    BY <1>1, <2>1, CallTakesBatch
  <2>3. \A v \in Workers : state'[v] = "loaded" => state[v] = "loaded"
    BY <2>1
  <2> QED
    BY <1>1, <2>1, <2>2, <2>3, LifecycleKeepsCopies DEF Called
<1>7. CASE CloseJoins
  <2>1. scan \in Workers
    BY <1>1, <1>7, NumWorkersAssumption DEF CloseJoins, TypeOK, ControlTypeOK, Workers
  <2>2. /\ UNCHANGED <<inFlight, generation, taskQueue, resultQueue, target,
                       requeued, submitting, todo, batch>>
        /\ UNCHANGED <<state, held>> \/ Goto(scan, "exited", NoTask)
    BY <1>7 DEF CloseJoins, batchVars
  <2>3. TodoOnce'
    BY <2>2 DEF CopyInv, TodoOnce
  <2>4. ASSUME NEW v \in Workers
        PROVE  /\ held'[v] \in {held[v], NoTask}
               /\ state'[v] = "loaded" => state[v] = "loaded" /\ held'[v] = held[v]
    BY <1>1, <2>1, <2>2 DEF Goto, TypeOK, WorkerTypeOK
  <2> QED
    BY <1>1, <2>2, <2>3, <2>4, LifecycleKeepsCopies
<1>8. CASE Closed
  <2>1. /\ UNCHANGED <<held, generation, taskQueue, resultQueue, target, requeued,
                       submitting, todo, batch>>
        /\ state' = [v \in Workers |-> "none"]
        /\ inFlight' = [v \in Workers |-> NoTask]
    BY <1>8 DEF Closed, batchVars
  <2>2. TodoOnce'
    BY <2>1 DEF CopyInv, TodoOnce
  <2> QED
    BY <1>1, <2>1, <2>2, LifecycleKeepsCopies
<1>9. CASE ControlStep \/ Accept \/ FullReturns \/ StartContinues \/ UNCHANGED vars
  <2>1. UNCHANGED <<state, held, inFlight, generation, taskQueue, resultQueue,
                    target, requeued, submitting, todo, batch>>
    BY <1>9
    DEF ControlStep, StartDrains, Started, PutFull, AllSubmitted, WaitDrains,
        Return, Accepted, Close, DrainedAll, MonitorHealthy, DrainReturns,
        StartMonitors, Accept, FullReturns, StartContinues, RaiseError,
        batchVars, controlVars, vars, workerVars, poolVars
  <2>2. TodoOnce'
    BY <2>1 DEF CopyInv, TodoOnce
  <2> QED
    BY <1>1, <2>1, <2>2, LifecycleKeepsCopies
<1> QED
  BY <1>2, <1>3, <1>4, <1>5, <1>6, <1>7, <1>8, <1>9, <1>10
  DEF Next, Coordinator, ControlStep, Reads, Terminated

\* What the pool has of a task, wherever it is, is at most one thing.
LEMMA OneCopy ==
    ASSUME CopyInv, NEW t \in Tasks
    PROVE  Cardinality(Queued(t)) + Cardinality(Holders(t)) + InHand(t) <= 1
<1>1. t # NoTask
  BY NoTaskAssumption
<1>2. ASSUME NEW v \in Workers
      PROVE  /\ \A i \in 1 .. Len(taskQueue[v]) : taskQueue[v][i] = t =>
                  /\ v = ShardOf(t) /\ held[v] # t /\ requeued # t /\ submitting # t
                  /\ \A j \in 1 .. Len(taskQueue[v]) : taskQueue[v][j] = t => j = i
             /\ held[v] = t => v = ShardOf(t) /\ submitting # t /\ requeued # t
             /\ ~(requeued = t /\ submitting = t)
  <2>1. /\ Copies(taskQueue[v], resultQueue, v, generation[v], inFlight[v],
                  held[v], state[v], requeued, submitting)
        /\ QueuePlaced(Unused, v, taskQueue[v]) /\ Placed(Unused, v, held[v])
    BY DEF CopyInv, CopiesApart, TasksPlaced
  <2> QED
    BY <1>1, <2>1 DEF Copies, QueuedOnce, InHandOnce, Taken, QueuePlaced, Placed
<1>3. 0 \in Workers
  BY NumWorkersAssumption DEF Workers
<1>4. ~(requeued = t /\ submitting = t)
  BY <1>2, <1>3
<1>5. CASE Queued(t) # {}
  <2>1. PICK p \in Queued(t) : TRUE
    BY <1>5
  <2>2. /\ p[1] \in Workers /\ p[2] \in 1 .. Len(taskQueue[p[1]])
        /\ taskQueue[p[1]][p[2]] = t /\ p = <<p[1], p[2]>>
    BY <2>1, QueueMaxAssumption DEF Queued
  <2>3. ASSUME NEW x \in Queued(t) PROVE x = p
    <3>1. /\ x[1] \in Workers /\ x[2] \in 1 .. Len(taskQueue[x[1]])
          /\ taskQueue[x[1]][x[2]] = t /\ x = <<x[1], x[2]>>
      BY <2>3, QueueMaxAssumption DEF Queued
    <3>2. x[1] = p[1]
      BY <1>2, <2>2, <3>1
    <3>3. x[2] = p[2]
      BY <1>2, <2>2, <3>1, <3>2
    <3> QED
      BY <2>2, <3>1, <3>2, <3>3
  <2>4. Queued(t) = {p} /\ Cardinality(Queued(t)) = 1
    <3>1. Queued(t) = {p}
      BY <2>1, <2>3
    <3> QED
      BY <3>1, FS_Singleton
  <2>5. Holders(t) = {}
    BY <1>2, <2>2 DEF Holders
  <2>6. InHand(t) = 0
    BY <1>2, <2>2 DEF InHand
  <2> QED
    BY <2>4, <2>5, <2>6, FS_EmptySet
<1>6. CASE Queued(t) = {} /\ Holders(t) # {}
  <2>1. PICK v \in Workers : held[v] = t
    BY <1>6 DEF Holders
  <2>2. Holders(t) = {v}
    BY <1>2, <2>1 DEF Holders
  <2>3. Cardinality(Holders(t)) = 1 /\ Cardinality(Queued(t)) = 0
    BY <1>6, <2>2, FS_Singleton, FS_EmptySet
  <2>4. InHand(t) = 0
    BY <1>2, <2>1 DEF InHand
  <2> QED
    BY <2>3, <2>4
<1>7. CASE Queued(t) = {} /\ Holders(t) = {}
  <2>1. Cardinality(Holders(t)) = 0 /\ Cardinality(Queued(t)) = 0
    BY <1>7, FS_EmptySet
  <2>2. InHand(t) \in {0, 1}
    BY <1>4 DEF InHand
  <2> QED
    BY <2>1, <2>2
<1> QED
  BY <1>5, <1>6, <1>7

LEMMA InitCopies == Init => CopyInv
<1> SUFFICES ASSUME Init PROVE CopyInv
  OBVIOUS
<1>1. TasksPlaced /\ TodoOnce
  BY DEF Init, WorkerInit, TasksPlaced, TodoOnce, QueuePlaced, MessagesPlaced, Placed
<1>2. CopiesApart
  BY DEF Init, WorkerInit, CopiesApart, Copies, QueuedOnce, InHandOnce, StartedOnce
<1> QED
  BY <1>1, <1>2 DEF CopyInv

LEMMA CopyInvariant ==
    ASSUME DisjointBatches PROVE Spec => [](TypeInv /\ StaleInv /\ AccountInv /\ CopyInv)
<1>1. TypeInv /\ StaleInv /\ CopyInv /\ [Next]_vars => CopyInv'
  BY NextKeepsCopies
<1> QED
  BY <1>1, InitCopies, PoolInvariant, PTL DEF Spec

\* Whatever is killed, retried and put back, a task is queued once, held by one
\* process or in the coordinator's hands, and nothing else.
THEOREM SingleCopyKept ==
    ASSUME DisjointBatches PROVE Spec => []SingleCopy
<1>1. CopyInv => SingleCopy
  BY OneCopy DEF SingleCopy
<1> QED
  BY <1>1, CopyInvariant, PTL
-----------------------------------------------------------------------------
(* A result answers the "started" before it.                               *)

\* A message more: a result of what the process is on, or a start of its task.
LEMMA AppendInTurn ==
    ASSUME NEW q \in Seq(Messages), NEW m \in Messages,
           NEW w, NEW g, NEW f, NEW h, NEW s, NEW h2, NEW s2,
           InTurn(q, w, g, f, h, s),
           m.type = "result" /\ m.worker = w /\ m.gen = g
              => s = "verifying" /\ m.task = h,
           s2 \in {"verifying", "hung"} =>
              \/ /\ m.type = "started" /\ m.worker = w /\ m.gen = g /\ m.task = h2
              \/ /\ ~(m.type = "started" /\ m.worker = w /\ m.gen = g)
                 /\ s \in {"verifying", "hung"} /\ h2 = h
    PROVE  InTurn(Append(q, m), w, g, f, h2, s2)
<1> DEFINE p == Append(q, m)
<1> PICK n \in Nat : n = Len(q)
  BY LenProperties
<1>1. /\ Len(p) = n + 1 /\ p[n + 1] = m
      /\ \A i \in 1 .. n : p[i] = q[i]
  OBVIOUS
<1> HIDE DEF p
<1>2. \A i \in 1 .. n : \A type : From(p, i, w, g, type) <=> From(q, i, w, g, type)
  BY <1>1 DEF From
<1>3. ASSUME NEW j \in 1 .. n + 1, NEW t, WorksOn(q, j, w, g, f, t)
      PROVE  WorksOn(p, j, w, g, f, t)
  <2>1. \A i \in 1 .. j - 1 : i \in 1 .. n
    OBVIOUS
  <2>2. \A i \in 1 .. j - 1 : \A k \in i + 1 .. j - 1 : k \in 1 .. n
    OBVIOUS
  <2> QED
    BY <1>1, <1>2, <1>3, <2>1, <2>2 DEF WorksOn
<1>4. ASSUME NEW j \in 1 .. Len(p), From(p, j, w, g, "result")
      PROVE  WorksOn(p, j, w, g, f, p[j].task)
  <2>1. CASE j = n + 1
    <3>1. WorksOn(q, n + 1, w, g, f, h) /\ p[j].task = h
      BY <1>1, <1>4, <2>1 DEF From, InTurn
    <3> QED
      BY <1>3, <2>1, <3>1
  <2>2. CASE j # n + 1
    <3>1. j \in 1 .. n /\ j \in 1 .. n + 1 /\ p[j] = q[j]
      BY <1>1, <2>2
    <3>2. WorksOn(q, j, w, g, f, q[j].task)
      BY <1>2, <1>4, <3>1 DEF InTurn
    <3> QED
      BY <1>3, <3>1, <3>2
  <2> QED
    BY <2>1, <2>2
<1>5. ASSUME s2 \in {"verifying", "hung"} PROVE WorksOn(p, Len(p) + 1, w, g, f, h2)
  <2>1. Len(p) + 1 = n + 2 /\ (n + 2) - 1 = n + 1 /\ n + 1 \in 1 .. n + 1
    BY <1>1
  <2>2. CASE m.type = "started" /\ m.worker = w /\ m.gen = g /\ m.task = h2
    <3>1. From(p, n + 1, w, g, "started") /\ p[n + 1].task = h2
      BY <1>1, <2>2 DEF From
    <3>2. \A i \in 1 .. n + 1 : i = n + 1 \/ n + 1 \in i + 1 .. n + 1
      OBVIOUS
    <3> QED
      BY <2>1, <3>1, <3>2 DEF WorksOn
  <2>3. CASE /\ ~(m.type = "started" /\ m.worker = w /\ m.gen = g)
             /\ s \in {"verifying", "hung"} /\ h2 = h
    <3>1. ~From(p, n + 1, w, g, "started")
      BY <1>1, <2>3 DEF From
    <3>2. WorksOn(p, n + 1, w, g, f, h) /\ (n + 1) - 1 = n
      BY <1>3, <2>1, <2>3 DEF InTurn
    <3>3. /\ \A i \in 1 .. n + 1 : i \in 1 .. n \/ i = n + 1
          /\ \A i \in 1 .. n : i \in 1 .. n + 1 /\ i + 1 .. n \subseteq i + 1 .. n + 1
          /\ \A i \in 1 .. n : \A k \in i + 1 .. n + 1 : k \in i + 1 .. n \/ k = n + 1
      OBVIOUS
    <3> QED
      BY <2>1, <2>3, <3>1, <3>2, <3>3 DEF WorksOn
  <2> QED
    BY <1>5, <2>2, <2>3
<1> QED
  BY <1>4, <1>5 DEF InTurn, p

\* No message: the process stays with its task or leaves it; the coordinator may
\* forget what was in flight, and a replacement has sent nothing yet.
LEMMA MoveInTurn ==
    ASSUME NEW q, NEW w, NEW g, NEW f, NEW h, NEW s, NEW g2, NEW f2, NEW h2, NEW s2,
           InTurn(q, w, g, f, h, s), f2 \in {f, NoTask},
           \/ g2 = g
           \/ \A i \in 1 .. Len(q) : q[i].worker = w => q[i].gen # g2,
           s2 \in {"verifying", "hung"} =>
              g2 = g /\ s \in {"verifying", "hung"} /\ h2 = h
    PROVE  InTurn(q, w, g2, f2, h2, s2)
<1>1. CASE g2 = g
  BY <1>1 DEF InTurn, WorksOn
<1>2. CASE /\ \A i \in 1 .. Len(q) : q[i].worker = w => q[i].gen # g2
           /\ s2 \notin {"verifying", "hung"}
  BY <1>2 DEF InTurn, From
<1> QED
  BY <1>1, <1>2

\* The coordinator reads a message, and records a start that it reads.
LEMMA TailInTurn ==
    ASSUME NEW q \in Seq(Messages), q # <<>>,
           NEW w, NEW g, NEW f, NEW h, NEW s, NEW f2,
           InTurn(q, w, g, f, h, s),
           \/ f2 = NoTask
           \/ f2 = f /\ ~From(q, 1, w, g, "started")
           \/ From(q, 1, w, g, "started") /\ f2 = q[1].task
    PROVE  InTurn(Tail(q), w, g, f2, h, s)
<1> DEFINE p == Tail(q)
<1> PICK n \in Nat : n = Len(q)
  BY LenProperties
<1>1. /\ Len(p) = n - 1 /\ n >= 1
      /\ \A i \in 1 .. n - 1 : p[i] = q[i + 1]
  BY HeadTailProperties
<1> HIDE DEF p
<1>2. \A i \in 1 .. n - 1 : \A type :
        From(p, i, w, g, type) <=> From(q, i + 1, w, g, type)
  BY <1>1 DEF From
<1>3. ASSUME NEW j \in 1 .. n, NEW t, WorksOn(q, j + 1, w, g, f, t)
      PROVE  WorksOn(p, j, w, g, f2, t)
  <2>1. (j + 1) - 1 = j /\ \A i \in 1 .. j - 1 : i \in 1 .. n - 1 /\ i + 1 \in 1 .. j
    OBVIOUS
  <2>2. ASSUME NEW i \in 1 .. j - 1, From(p, i, w, g, "started"),
               \A k \in i + 1 .. j - 1 : ~From(p, k, w, g, "started")
        PROVE  p[i].task = t
    <3>1. From(q, i + 1, w, g, "started") /\ p[i] = q[i + 1]
      BY <1>1, <1>2, <2>1, <2>2
    <3>2. ASSUME NEW k \in (i + 1) + 1 .. j PROVE ~From(q, k, w, g, "started")
      <4>1. k - 1 \in i + 1 .. j - 1 /\ k - 1 \in 1 .. n - 1 /\ (k - 1) + 1 = k
        OBVIOUS
      <4> QED
        BY <1>2, <2>2, <4>1
    <3> QED
      BY <1>3, <2>1, <3>1, <3>2 DEF WorksOn
  <2>3. ASSUME \A i \in 1 .. j - 1 : ~From(p, i, w, g, "started")
        PROVE  f2 \in {t, NoTask}
    <3>1. ASSUME NEW k \in 1 .. j, k # 1 PROVE ~From(q, k, w, g, "started")
      <4>1. k - 1 \in 1 .. j - 1 /\ k - 1 \in 1 .. n - 1 /\ (k - 1) + 1 = k
        BY <3>1
      <4> QED
        BY <1>2, <2>3, <4>1
    <3>2. 1 \in 1 .. j /\ \A k \in 1 + 1 .. j : k \in 1 .. j /\ k # 1
      OBVIOUS
    <3>3. CASE From(q, 1, w, g, "started")
      <4>1. q[1].task = t
        BY <1>3, <2>1, <3>1, <3>2, <3>3 DEF WorksOn
      <4> QED
        BY <3>3, <4>1
    <3>4. CASE ~From(q, 1, w, g, "started")
      <4>1. f \in {t, NoTask}
        BY <1>3, <2>1, <3>1, <3>4 DEF WorksOn
      <4> QED
        BY <3>4, <4>1
    <3> QED
      BY <3>3, <3>4
  <2> QED
    BY <2>2, <2>3 DEF WorksOn
<1>4. ASSUME NEW j \in 1 .. Len(p), From(p, j, w, g, "result")
      PROVE  WorksOn(p, j, w, g, f2, p[j].task)
  <2>1. /\ j \in 1 .. n - 1 /\ j \in 1 .. n /\ j + 1 \in 1 .. n
        /\ p[j] = q[j + 1]
    BY <1>1
  <2>2. WorksOn(q, j + 1, w, g, f, q[j + 1].task)
    BY <1>2, <1>4, <2>1 DEF InTurn
  <2> QED
    BY <1>3, <2>1, <2>2
<1>5. ASSUME s \in {"verifying", "hung"} PROVE WorksOn(p, Len(p) + 1, w, g, f2, h)
  <2>1. Len(p) + 1 = n /\ n \in 1 .. n
    BY <1>1
  <2>2. WorksOn(q, n + 1, w, g, f, h)
    BY <1>5 DEF InTurn
  <2> QED
    BY <1>3, <2>1, <2>2
<1> QED
  BY <1>4, <1>5 DEF InTurn, p
-----------------------------------------------------------------------------
(* The spool files last as long as they are needed: the steps of the pool. *)

\* What SpoolInv says, in the form the steps below use it.
LEMMA SpoolFacts ==
    ASSUME TypeInv, SpoolInv
    PROVE  /\ TypeOK /\ resultQueue \in Seq(Messages)
           /\ taskQueue \in [Workers -> Seq(Tasks \cup {NoTask})]
           /\ \A v \in Workers :
                /\ InTurn(resultQueue, v, generation[v], inFlight[v], held[v], state[v])
                /\ state[v] = "loaded" => held[v] \in spool
                /\ \A i \in 1 .. Len(taskQueue[v]) :
                      taskQueue[v][i] \in spool \cup {NoTask}
                /\ inFlight[v] \in spool \cup {NoTask}
           /\ \A i \in 1 .. Len(resultQueue) :
                /\ resultQueue[i] \in Messages
                /\ /\ resultQueue[i].type = "started"
                   /\ resultQueue[i].gen = generation[resultQueue[i].worker]
                   => resultQueue[i].task \in spool
           /\ requeued \in spool \cup {NoTask} /\ submitting \in spool \cup {NoTask}
<1>1. /\ TypeOK /\ resultQueue \in Seq(Messages)
      /\ taskQueue \in [Workers -> Seq(Tasks \cup {NoTask})]
  BY DEF TypeInv, TypeOK, WorkerTypeOK
<1>2. \A i \in 1 .. Len(resultQueue) : resultQueue[i] \in Messages
  BY <1>1
<1> QED
  BY <1>1, <1>2 DEF SpoolInv, ResultsInTurn, StartedBacked, SpoolBacked

\* A message that is emitted, or one that is read, keeps the "started" ones backed.
StartsBacked(q, gens, files) ==
    \A i \in 1 .. Len(q) :
        q[i].type = "started" /\ q[i].gen = gens[q[i].worker] => q[i].task \in files

LEMMA StartsStayBacked ==
    ASSUME NEW q \in Seq(Messages), NEW gens, NEW files, StartsBacked(q, gens, files)
    PROVE  /\ \A m \in Messages :
                (m.type = "started" /\ m.gen = gens[m.worker] => m.task \in files)
                   => StartsBacked(Append(q, m), gens, files)
           /\ q # <<>> => StartsBacked(Tail(q), gens, files)
<1> DEFINE S == {m \in Messages : m.type = "started" /\ m.gen = gens[m.worker]
                                     => m.task \in files}
<1>1. \A i \in 1 .. Len(q) : q[i] \in S
  BY DEF StartsBacked
<1>2. \A m \in S : m \in Messages \cap S
                   /\ (m.type = "started" /\ m.gen = gens[m.worker] => m.task \in files)
  OBVIOUS
<1>3. \A m \in Messages :
        (m.type = "started" /\ m.gen = gens[m.worker] => m.task \in files) => m \in S
  OBVIOUS
<1> HIDE DEF S
<1> QED
  BY <1>1, <1>2, <1>3, ItemsStay DEF StartsBacked

LEMMA WorkerKeepsSpool ==
    ASSUME TypeInv, SpoolInv, NEW w \in Workers, Worker(w) PROVE SpoolInv'
<1>1. /\ \/ Signals(w) \/ Begins(w) \/ Answers(w) \/ Hangs(w) \/ Ends(w)
         \/ Takes(w)
      /\ \A v \in Workers \ {w} : state'[v] = state[v] /\ held'[v] = held[v]
      /\ UNCHANGED <<generation, spool, inFlight, requeued, submitting>>
  BY WorkerSteps DEF poolVars
<1>2. StartsBacked(resultQueue, generation, spool)
  BY SpoolFacts DEF StartsBacked
<1>3. CASE Signals(w) \/ Begins(w) \/ Answers(w)
  <2>1. PICK m \in Messages :
          /\ resultQueue' = Append(resultQueue, m)
          /\ m.worker = w /\ m.gen = generation[w]
          /\ \/ Signals(w) /\ m.type \notin {"started", "result"} /\ m.task = NoTask
             \/ Begins(w) /\ m.type = "started" /\ m.task = held[w]
             \/ Answers(w) /\ m.type = "result" /\ m.task = held[w]
    BY <1>3, EmittedBy, SpoolFacts
  <2>2. /\ UNCHANGED taskQueue /\ state'[w] # "loaded"
        /\ m.type = "started" => /\ state[w] = "loaded" /\ m.task = held[w]
                                 /\ state'[w] = "verifying" /\ held'[w] = held[w]
        /\ m.type = "result" => state[w] = "verifying" /\ m.task = held[w]
        /\ m.type # "started" => state'[w] \notin {"verifying", "hung"}
    BY <1>3, <2>1 DEF Signals, Begins, Answers, Moves, Ended
  <2>3. ASSUME NEW v \in Workers
        PROVE  InTurn(Append(resultQueue, m), v, generation[v], inFlight[v],
                      held'[v], state'[v])
    <3>1. CASE v = w
      BY <2>1, <2>2, <3>1, SpoolFacts, AppendInTurn
    <3>2. CASE v # w
      BY <1>1, <2>1, <3>2, SpoolFacts, AppendInTurn
    <3> QED
      BY <3>1, <3>2
  <2>4. ResultsInTurn'
    BY <1>1, <2>1, <2>3 DEF ResultsInTurn
  <2>5. StartedBacked'
    <3>1. StartsBacked(resultQueue', generation, spool)
      BY <1>2, <2>1, <2>2, SpoolFacts, StartsStayBacked
    <3>2. \A v \in Workers : state'[v] = "loaded" => held'[v] \in spool
      BY <1>1, <2>2, SpoolFacts
    <3> QED
      BY <1>1, <3>1, <3>2 DEF StartedBacked, StartsBacked
  <2>6. SpoolBacked'
    BY <1>1, <2>2 DEF SpoolInv, SpoolBacked
  <2> QED
    BY <2>4, <2>5, <2>6 DEF SpoolInv
<1>4. CASE Hangs(w) \/ Ends(w) \/ Takes(w)
  <2>1. /\ UNCHANGED resultQueue
        /\ state'[w] \in {"verifying", "hung"} => state[w] = "verifying" /\ held'[w] = held[w]
        /\ state'[w] = "loaded" => held'[w] \in spool
    BY <1>4 DEF Hangs, Ends, Takes, Moves, Ended
  <2>2. ASSUME NEW v \in Workers
        PROVE  InTurn(resultQueue, v, generation[v], inFlight[v], held'[v], state'[v])
    BY <1>1, <2>1, SpoolFacts, MoveInTurn
  <2>3. ResultsInTurn' /\ StartedBacked'
    BY <1>1, <2>1, <2>2, SpoolFacts DEF ResultsInTurn, StartedBacked
  <2>4. ASSUME NEW v \in Workers
        PROVE  \A i \in 1 .. Len(taskQueue'[v]) : taskQueue'[v][i] \in spool \cup {NoTask}
    <3>1. taskQueue[v] \in Seq(Tasks \cup {NoTask})
      BY SpoolFacts
    <3>2. \/ taskQueue'[v] = taskQueue[v]
          \/ taskQueue[v] # <<>> /\ taskQueue'[v] = Tail(taskQueue[v])
      BY <1>4, SpoolFacts DEF Hangs, Ends, Takes
    <3> QED
      BY <3>1, <3>2, SpoolFacts, ItemsStay
  <2>5. SpoolBacked'
    BY <1>1, <2>4 DEF SpoolInv, SpoolBacked
  <2> QED
    BY <2>3, <2>5 DEF SpoolInv
<1> QED
  BY <1>1, <1>3, <1>4

\* A result removes the file of its own task only, which is in flight, hence
\* nowhere else.
LEMMA UnlinkedNowhere ==
    ASSUME TypeInv, StaleInv, CopyInv, SpoolInv, ReceiveResult,
           NEW x \in spool, x \notin spool'
    PROVE  /\ \A v \in Workers :
                /\ \A i \in 1 .. Len(taskQueue[v]) : taskQueue[v][i] # x
                /\ inFlight'[v] # x
                /\ state[v] = "loaded" => held[v] # x
           /\ \A i \in 1 .. Len(resultQueue) :
                /\ resultQueue[i].type = "started"
                /\ resultQueue[i].gen = generation[resultQueue[i].worker]
                => resultQueue[i].task # x
           /\ requeued # x /\ submitting # x
<1> DEFINE w == Message.worker
<1>1. /\ resultQueue # <<>> /\ resultQueue' = Tail(resultQueue)
      /\ Message.type = "result" /\ x = inFlight[w]
      /\ inFlight' = IF ~Stale /\ inFlight[w] = Message.task
                     THEN [inFlight EXCEPT ![w] = NoTask] ELSE inFlight
  BY DEF ReceiveResult, Receive, Unlinked
<1>2. /\ Message = resultQueue[1] /\ w \in Workers /\ 1 \in 1 .. Len(resultQueue)
      /\ TypeOK
  BY <1>1, ReadMessages, SpoolFacts
<1>3. x # NoTask
  BY NoTaskAssumption DEF TypeInv, TypeOK, WorkerTypeOK
<1>4. Message.gen = generation[w]
  BY <1>1, <1>2, <1>3 DEF StaleInv, StaleBeforeInFlight
<1>5. Message.task = x
  <2>1. From(resultQueue, 1, w, generation[w], "result")
    BY <1>1, <1>2, <1>4 DEF From
  <2>2. WorksOn(resultQueue, 1, w, generation[w], inFlight[w], Message.task)
    BY <1>2, <2>1, SpoolFacts DEF InTurn
  <2>3. \A i \in 1 .. 1 - 1 : FALSE
    OBVIOUS
  <2> QED
    BY <1>1, <1>3, <2>2, <2>3 DEF WorksOn
<1>6. inFlight' = [inFlight EXCEPT ![w] = NoTask]
  BY <1>1, <1>4, <1>5 DEF Stale
<1>7. /\ Copies(taskQueue[w], resultQueue, w, generation[w], inFlight[w],
                held[w], state[w], requeued, submitting)
      /\ Taken(resultQueue, w, generation[w], inFlight[w], held[w], x)
  BY <1>1, <1>2, CopyFacts DEF Taken
<1>8. requeued # x /\ submitting # x
  BY <1>3, <1>7 DEF Copies, InHandOnce
<1>9. ShardOf(x) = w
  BY <1>1, <1>2, <1>3, CopyFacts DEF Placed
<1>10. ASSUME NEW v \in Workers
       PROVE  /\ \A i \in 1 .. Len(taskQueue[v]) : taskQueue[v][i] # x
              /\ inFlight'[v] # x
              /\ state[v] = "loaded" => held[v] # x
  <2>1. CASE v = w
    <3>1. inFlight'[v] = NoTask
      BY <1>2, <1>6, <2>1 DEF TypeOK, PoolTypeOK
    <3> QED
      BY <1>1, <1>3, <1>7, <2>1, <3>1 DEF Copies, QueuedOnce, StartedOnce
  <2>2. CASE v # w
    <3>1. inFlight'[v] = inFlight[v]
      BY <1>2, <1>6, <2>2 DEF TypeOK, PoolTypeOK
    <3> QED
      BY <1>3, <1>9, <2>2, <3>1, CopyFacts DEF QueuePlaced, Placed
  <2> QED
    BY <2>1, <2>2
<1>11. ASSUME NEW i \in 1 .. Len(resultQueue), resultQueue[i].type = "started",
              resultQueue[i].gen = generation[resultQueue[i].worker]
       PROVE  resultQueue[i].task # x
  <2>1. CASE resultQueue[i].worker = w
    <3>1. From(resultQueue, i, w, generation[w], "started")
      BY <1>11, <2>1 DEF From
    <3> QED
      BY <1>1, <1>7, <3>1 DEF Copies, StartedOnce
  <2>2. CASE resultQueue[i].worker # w
    BY <1>3, <1>9, <2>2, CopyFacts DEF MessagesPlaced, Placed
  <2> QED
    BY <2>1, <2>2
<1> QED
  BY <1>8, <1>10, <1>11
\* The coordinator reads a message, and removes at most the file of its task.
LEMMA ReadKeepsSpool ==
    ASSUME TypeInv, StaleInv, CopyInv, SpoolInv, Reads PROVE SpoolInv'
<1>1. /\ TypeOK /\ resultQueue # <<>> /\ resultQueue' = Tail(resultQueue)
      /\ UNCHANGED <<state, held, generation, taskQueue, requeued, submitting>>
      /\ 1 \in 1 .. Len(resultQueue) /\ resultQueue \in Seq(Messages)
  BY ReadRecords, ReadMessages DEF TypeInv
<1>2. \A v \in Workers :
        \/ inFlight'[v] = NoTask
        \/ inFlight'[v] = inFlight[v] /\ ~From(resultQueue, 1, v, generation[v], "started")
        \/ /\ From(resultQueue, 1, v, generation[v], "started")
           /\ inFlight'[v] = resultQueue[1].task
  BY <1>1, ReadRecords
<1>3. ASSUME NEW x \in spool, x \notin spool'
      PROVE  /\ \A v \in Workers :
                  /\ \A i \in 1 .. Len(taskQueue[v]) : taskQueue[v][i] # x
                  /\ inFlight'[v] # x
                  /\ state[v] = "loaded" => held[v] # x
             /\ \A i \in 1 .. Len(resultQueue) :
                  /\ resultQueue[i].type = "started"
                  /\ resultQueue[i].gen = generation[resultQueue[i].worker]
                  => resultQueue[i].task # x
             /\ requeued # x /\ submitting # x
  <2>1. CASE ReceiveResult
    BY <1>3, <2>1, UnlinkedNowhere
  <2>2. CASE ReceiveStale \/ ReceiveWarmup \/ ReceiveStarted \/ ReceiveDone
    BY <1>3, <2>2 DEF ReceiveStale, ReceiveWarmup, ReceiveStarted, ReceiveDone
  <2> QED
    BY <2>1, <2>2 DEF Reads
<1>4. ResultsInTurn'
  <2>1. ASSUME NEW v \in Workers
        PROVE  InTurn(Tail(resultQueue), v, generation[v], inFlight'[v], held[v], state[v])
    BY <1>1, <1>2, SpoolFacts, TailInTurn
  <2> QED
    BY <1>1, <2>1 DEF ResultsInTurn
<1>5. StartedBacked'
  <2>1. StartsBacked(resultQueue, generation, spool')
    BY <1>3, SpoolFacts DEF StartsBacked
  <2>2. StartsBacked(Tail(resultQueue), generation, spool')
    BY <1>1, <2>1, StartsStayBacked
  <2>3. \A v \in Workers : state[v] = "loaded" => held[v] \in spool'
    BY <1>3, SpoolFacts
  <2> QED
    BY <1>1, <2>2, <2>3 DEF StartedBacked, StartsBacked
<1>6. SpoolBacked'
  <2>1. ASSUME NEW v \in Workers
        PROVE  \A i \in 1 .. Len(taskQueue[v]) : taskQueue[v][i] \in spool' \cup {NoTask}
    BY <1>3, SpoolFacts
  <2>2. ASSUME NEW v \in Workers PROVE inFlight'[v] \in spool' \cup {NoTask}
    <3>1. inFlight'[v] \in spool \cup {NoTask}
      <4>1. CASE inFlight'[v] \in {NoTask, inFlight[v]}
        BY <4>1, SpoolFacts
      <4>2. CASE From(resultQueue, 1, v, generation[v], "started")
                 /\ inFlight'[v] = resultQueue[1].task
        BY <1>1, <4>2, SpoolFacts DEF From
      <4> QED
        BY <1>2, <4>1, <4>2
    <3> QED
      BY <1>3, <3>1
  <2>3. {requeued, submitting} \subseteq spool' \cup {NoTask}
    BY <1>3, SpoolFacts
  <2> QED
    BY <1>1, <2>1, <2>2, <2>3 DEF SpoolBacked
<1> QED
  BY <1>4, <1>5, <1>6 DEF SpoolInv

\* A worker is replaced: q is the result queue after the step.
LEMMA ReplaceKeepsSpool ==
    ASSUME TypeOK, NEW w \in Workers, Replaced(w),
           \A v \in Workers : /\ held'[v] \in {held[v], NoTask}
                              /\ inFlight'[v] \in {inFlight[v], NoTask},
           \A v \in Workers \ {w} : held'[v] = held[v],
           \A v \in Workers :
              /\ state[v] = "loaded" => held[v] \in spool
              /\ \A i \in 1 .. Len(taskQueue'[v]) :
                    taskQueue'[v][i] \in spool \cup {NoTask}
              /\ inFlight[v] \in spool \cup {NoTask},
           {requeued', submitting} \subseteq spool \cup {NoTask},
           UNCHANGED <<spool, submitting>>,
           NEW q \in Seq(Messages), resultQueue' = q,
           \A i \in 1 .. Len(q) : q[i].gen <= generation[q[i].worker],
           StartsBacked(q, generation, spool),
           \A v \in Workers : InTurn(q, v, generation[v], inFlight[v], held[v], state[v])
    PROVE  SpoolInv'
<1>1. /\ state'[w] \in {"booting", "exited"}
      /\ generation'[w] \in {generation[w], generation[w] + 1}
      /\ \A v \in Workers \ {w} : state'[v] = state[v] /\ generation'[v] = generation[v]
  BY DEF Replaced
<1>2. ASSUME NEW i \in 1 .. Len(q), generation'[q[i].worker] # generation[q[i].worker]
      PROVE  q[i].gen # generation'[q[i].worker]
  <2>1. q[i] \in Messages
    OBVIOUS
  <2>2. q[i].worker = w /\ q[i].gen \in Nat /\ generation[w] \in Nat
    BY <1>1, <1>2, <2>1 DEF Messages, TypeOK, WorkerTypeOK
  <2>3. generation'[w] = generation[w] + 1 /\ q[i].gen <= generation[w]
    BY <1>1, <1>2, <2>2
  <2> QED
    BY <2>2, <2>3
<1>3. ASSUME NEW v \in Workers
      PROVE  InTurn(q, v, generation'[v], inFlight'[v], held'[v], state'[v])
  <2>1. \/ generation'[v] = generation[v]
        \/ \A i \in 1 .. Len(q) : q[i].worker = v => q[i].gen # generation'[v]
    BY <1>2
  <2>2. state'[v] \in {"verifying", "hung"} =>
          /\ generation'[v] = generation[v]
          /\ state[v] \in {"verifying", "hung"} /\ held'[v] = held[v]
    BY <1>1
  <2> QED
    BY <2>1, <2>2, MoveInTurn
<1>4. StartsBacked(q, generation', spool)
  BY <1>2 DEF StartsBacked
<1>5. \A v \in Workers : state'[v] = "loaded" => held'[v] \in spool
  BY <1>1
<1>6. ResultsInTurn'
  BY <1>3 DEF ResultsInTurn
<1>7. StartedBacked'
  BY <1>4, <1>5 DEF StartedBacked, StartsBacked
<1>8. SpoolBacked'
  <2>1. \A v \in Workers : inFlight'[v] \in spool \cup {NoTask}
    OBVIOUS
  <2> QED
    BY <2>1 DEF SpoolBacked
<1> QED
  BY <1>6, <1>7, <1>8 DEF SpoolInv

LEMMA RestartKeepsSpool ==
    ASSUME TypeInv, StaleInv, SpoolInv,
           FatalRestarts \/ MonitorRestarts \/ Requeue
    PROVE  SpoolInv'
<1>1. /\ TypeOK
      /\ \A i \in 1 .. Len(resultQueue) :
            resultQueue[i].gen <= generation[resultQueue[i].worker]
      /\ StartsBacked(resultQueue, generation, spool)
  BY SpoolFacts DEF StaleInv, NoFutureGeneration, StartsBacked
<1>2. ASSUME NEW w \in Workers, NEW from, Restarts(w, from)
      PROVE  /\ Replaced(w) /\ UNCHANGED <<taskQueue, spool>>
             /\ \A v \in Workers : /\ held'[v] \in {held[v], NoTask}
                                   /\ inFlight'[v] \in {inFlight[v], NoTask}
             /\ \A v \in Workers \ {w} : held'[v] = held[v]
             /\ requeued' \in spool \cup {NoTask}
  BY <1>2, SpoolFacts DEF Restarts
<1>3. CASE MonitorRestarts
  <2>1. /\ scan \in Workers /\ Restarts(scan, "monitor")
        /\ UNCHANGED <<resultQueue, submitting>>
    BY <1>3 DEF MonitorRestarts, batchVars
  <2> QED
    BY <1>1, <1>2, <2>1, SpoolFacts, ReplaceKeepsSpool
<1>4. CASE FatalRestarts
  <2>1. /\ resultQueue # <<>> /\ resultQueue' = Tail(resultQueue)
        /\ Message.type = "fatal" /\ Restarts(Message.worker, "drain")
        /\ UNCHANGED submitting
    BY <1>4 DEF FatalRestarts, Receive, batchVars
  <2>2. /\ Message.worker \in Workers /\ resultQueue' \in Seq(Messages)
        /\ Message = resultQueue[1]
        /\ \A i \in 1 .. Len(resultQueue') :
              resultQueue'[i].gen <= generation[resultQueue'[i].worker]
    BY <1>1, <2>1, ReadMessages
  <2>3. \A v \in Workers :
          InTurn(resultQueue', v, generation[v], inFlight[v], held[v], state[v])
    BY <2>1, <2>2, SpoolFacts, TailInTurn DEF From
  <2>4. StartsBacked(resultQueue', generation, spool)
    BY <1>1, <2>1, SpoolFacts, StartsStayBacked
  <2> QED
    BY <1>1, <1>2, <2>1, <2>2, <2>3, <2>4, SpoolFacts, ReplaceKeepsSpool
<1>5. CASE Requeue
  <2>1. /\ target \in Workers /\ Respawn(target) /\ requeued' = NoTask
        /\ taskQueue' = [taskQueue EXCEPT ![target] = Append(@, requeued)]
        /\ UNCHANGED <<resultQueue, held, inFlight, spool, submitting>>
        /\ requeued \in Tasks \cup {NoTask}
    BY <1>1, <1>5 DEF Requeue, TypeOK, ControlTypeOK, batchVars
  <2>2. ASSUME NEW v \in Workers
        PROVE  \A i \in 1 .. Len(taskQueue'[v]) : taskQueue'[v][i] \in spool \cup {NoTask}
    <3>1. taskQueue[v] \in Seq(Tasks \cup {NoTask})
      BY SpoolFacts
    <3>2. \A i \in 1 .. Len(Append(taskQueue[v], requeued)) :
             Append(taskQueue[v], requeued)[i] \in spool \cup {NoTask}
      BY <2>1, <3>1, SpoolFacts, ItemsStay
    <3>3. taskQueue'[v] \in {taskQueue[v], Append(taskQueue[v], requeued)}
      BY <2>1, SpoolFacts
    <3> QED
      BY <3>2, <3>3, SpoolFacts
  <2> QED
    BY <1>1, <2>1, <2>2, SpoolFacts, RespawnReplaces, ReplaceKeepsSpool
<1> QED
  BY <1>3, <1>4, <1>5

\* The other steps of the coordinator put into a queue what it has in its hands,
\* or a None, write a new file, or touch none of this.
LEMMA HandsKeepSpool ==
    ASSUME TypeInv, SpoolInv, spool \subseteq spool',
           \A v \in Workers :
              /\ \/ taskQueue'[v] = taskQueue[v]
                 \/ \E t \in {submitting, requeued, NoTask} :
                        taskQueue'[v] = Append(taskQueue[v], t)
              /\ inFlight'[v] \in {inFlight[v], NoTask}
              /\ state'[v] \in {state[v], "booting", "exited", "none"}
              /\ held'[v] = held[v] \/ state'[v] = "exited",
           requeued' \in {requeued, NoTask}, submitting' \in spool' \cup {NoTask},
           UNCHANGED <<generation, resultQueue>>
    PROVE  SpoolInv'
<1>1. ASSUME NEW v \in Workers
      PROVE  /\ \A i \in 1 .. Len(taskQueue'[v]) : taskQueue'[v][i] \in spool \cup {NoTask}
             /\ inFlight'[v] \in spool' \cup {NoTask}
             /\ state'[v] = "loaded" => held'[v] \in spool'
             /\ InTurn(resultQueue, v, generation[v], inFlight'[v], held'[v], state'[v])
  <2>1. /\ taskQueue[v] \in Seq(Tasks \cup {NoTask})
        /\ {submitting, requeued, NoTask}
              \subseteq (Tasks \cup {NoTask}) \cap (spool \cup {NoTask})
    BY SpoolFacts DEF TypeOK, BatchTypeOK, ControlTypeOK
  <2>2. \A t \in {submitting, requeued, NoTask} : \A i \in 1 .. Len(Append(taskQueue[v], t)) :
           Append(taskQueue[v], t)[i] \in spool \cup {NoTask}
    BY <2>1, SpoolFacts, ItemsStay
  <2>3. state'[v] \in {"verifying", "hung"} => state'[v] = state[v] /\ held'[v] = held[v]
    OBVIOUS
  <2>4. InTurn(resultQueue, v, generation[v], inFlight'[v], held'[v], state'[v])
    BY <2>3, SpoolFacts, MoveInTurn
  <2> QED
    BY <2>2, <2>4, SpoolFacts
<1>2. ResultsInTurn' /\ StartedBacked'
  BY <1>1, SpoolFacts DEF ResultsInTurn, StartedBacked
<1>3. SpoolBacked'
  BY <1>1, SpoolFacts DEF SpoolBacked
<1> QED
  BY <1>2, <1>3 DEF SpoolInv

LEMMA NextKeepsSpool ==
    ASSUME TypeInv, StaleInv, CopyInv, SpoolInv, [Next]_vars PROVE SpoolInv'
<1>1. TypeOK /\ taskQueue \in [Workers -> Seq(Tasks \cup {NoTask})]
  BY SpoolFacts
<1>2. CASE \E w \in Workers : Worker(w)
  BY <1>2, WorkerKeepsSpool
<1>3. CASE Reads
  BY <1>3, ReadKeepsSpool
<1>4. CASE ReceiveFatal \/ MonitorDead \/ MonitorStale \/ Requeue
  BY <1>1, <1>4, RestartCalls, RestartKeepsSpool
<1>5. ASSUME NEW t \in todo, Submit(t) PROVE SpoolInv'
  <2>1. /\ spool' = spool \cup {t} /\ submitting' = t
        /\ UNCHANGED <<state, held, generation, taskQueue, resultQueue, inFlight, requeued>>
    BY <1>5 DEF Submit
  <2> QED
    BY <2>1, HandsKeepSpool
<1>6. CASE Put \/ CloseSignals
  <2>1. /\ UNCHANGED <<state, held, generation, resultQueue, inFlight, requeued, spool>>
        /\ submitting' \in {submitting, NoTask}
    BY <1>6 DEF Put, CloseSignals, batchVars
  <2>2. ASSUME NEW v \in Workers
        PROVE  \/ taskQueue'[v] = taskQueue[v]
               \/ \E t \in {submitting, NoTask} : taskQueue'[v] = Append(taskQueue[v], t)
    <3>1. CASE Put
      <4>1. taskQueue' = [taskQueue EXCEPT ![ShardOf(submitting)] = Append(@, submitting)]
        BY <3>1 DEF Put
      <4> QED
        BY <1>1, <4>1
    <3>2. CASE CloseSignals
      BY <3>2 DEF CloseSignals
    <3> QED
      BY <1>6, <3>1, <3>2
  <2> QED
    BY <2>1, <2>2, SpoolFacts, HandsKeepSpool
<1>7. CASE RunBatch \/ Closed
  <2>1. /\ UNCHANGED <<held, generation, resultQueue, taskQueue, requeued, spool, submitting>>
        /\ \/ UNCHANGED state
           \/ state' = [v \in Workers |-> "booting"]
           \/ state' = [v \in Workers |-> "none"]
        /\ \/ UNCHANGED inFlight
           \/ inFlight' = [v \in Workers |-> NoTask]
    BY <1>7 DEF RunBatch, Closed, batchVars
  <2> QED
    BY <2>1, SpoolFacts, HandsKeepSpool
<1>8. CASE CloseJoins
  <2>1. scan \in Workers
    BY <1>1, <1>8, NumWorkersAssumption DEF CloseJoins, TypeOK, ControlTypeOK, Workers
  <2>2. /\ UNCHANGED <<inFlight, generation, taskQueue, resultQueue, requeued, spool,
                       submitting>>
        /\ UNCHANGED <<state, held>> \/ Goto(scan, "exited", NoTask)
    BY <1>8 DEF CloseJoins, batchVars
  <2>3. \A v \in Workers : /\ state'[v] \in {state[v], "exited"}
                           /\ held'[v] = held[v] \/ state'[v] = "exited"
    BY <1>1, <2>1, <2>2 DEF Goto, TypeOK, WorkerTypeOK
  <2> QED
    BY <2>2, <2>3, SpoolFacts, HandsKeepSpool
<1>9. CASE ControlStep \/ Accept \/ FullReturns \/ StartContinues \/ UNCHANGED vars
  <2>1. UNCHANGED <<state, held, inFlight, generation, taskQueue, resultQueue,
                    requeued, submitting, spool>>
    BY <1>9
    DEF ControlStep, StartDrains, Started, PutFull, AllSubmitted, WaitDrains,
        Return, Accepted, Close, DrainedAll, MonitorHealthy, DrainReturns,
        StartMonitors, Accept, FullReturns, StartContinues, RaiseError,
        batchVars, controlVars, vars, workerVars, poolVars
  <2> QED
    BY <2>1, SpoolFacts, HandsKeepSpool
<1> QED
  BY <1>2, <1>3, <1>4, <1>5, <1>6, <1>7, <1>8, <1>9
  DEF Next, Coordinator, ControlStep, Reads, Terminated

LEMMA InitSpool == Init => SpoolInv
<1> SUFFICES ASSUME Init PROVE SpoolInv
  OBVIOUS
<1>1. ResultsInTurn
  BY DEF Init, WorkerInit, ResultsInTurn, InTurn
<1>2. StartedBacked /\ SpoolBacked
  BY DEF Init, WorkerInit, StartedBacked, SpoolBacked
<1> QED
  BY <1>1, <1>2 DEF SpoolInv

\* Every task that can still be dequeued has its spool file, although a success
\* removes the file of whatever is in flight at its worker.
THEOREM SpoolBackedKept ==
    ASSUME DisjointBatches PROVE Spec => []SpoolBacked
<1>1. Init => SpoolInv
  BY InitSpool
<1>2. TypeInv /\ StaleInv /\ CopyInv /\ SpoolInv /\ [Next]_vars => SpoolInv'
  BY NextKeepsSpool
<1>3. SpoolInv => SpoolBacked
  BY DEF SpoolInv
<1> QED
  BY <1>1, <1>2, <1>3, CopyInvariant, PTL DEF Spec

-----------------------------------------------------------------------------
(* A pool until its first fault.                                           *)

\* A fault is never taken back.
LEMMA FaultsStay == ASSUME TypeInv, [Next]_vars, faults' = 0 PROVE faults = 0
<1>1. faults \in Nat
  BY DEF TypeInv, TypeOK, WorkerTypeOK
<1>2. faults' = faults \/ faults' = faults + 1
  <2>1. CASE \E w \in Workers : Worker(w)
    BY <2>1
    DEF Worker, WorkerProgress, WorkerFault, WarmUp, Dequeue, EmitStarted, Finish,
        EmitFatal, EmitDone, WarmUpFails, Raise, Hang, Crash, Fault
  <2>2. CASE MonitorStale \/ StartContinues
    BY <2>2 DEF MonitorStale, StartContinues, Fault
  <2>3. CASE RunBatch \/ Close \/ (\E t \in todo : Submit(t)) \/ Put \/ Accept
             \/ FullReturns \/ CloseSignals \/ CloseJoins \/ Closed \/ UNCHANGED vars
    BY <2>3
    DEF RunBatch, Close, Submit, Put, Accept, FullReturns, CloseSignals, CloseJoins,
        Closed, vars, workerVars
  <2>4. CASE Reads \/ ReceiveFatal \/ MonitorDead \/ Requeue
    BY <2>4
    DEF Reads, ReceiveStale, ReceiveWarmup, ReceiveStarted, ReceiveResult, ReceiveDone,
        ReceiveFatal, MonitorDead, Requeue
  <2>5. CASE ControlStep
    BY <2>5
    DEF ControlStep, StartDrains, Started, PutFull, AllSubmitted, WaitDrains, Return,
        Accepted, Close, DrainedAll, MonitorHealthy, DrainReturns, StartMonitors,
        workerVars
  <2> QED
    BY <2>1, <2>2, <2>3, <2>4, <2>5 DEF Next, Coordinator, ControlStep, Reads, Terminated
<1> QED
  BY <1>1, <1>2

\* What cannot happen any more, and what has not happened yet.
LEMMA CalmSteps ==
    ASSUME TypeInv, StrandInv, [Next]_vars, faults' = 0
    PROVE  /\ faults = 0 /\ Calm /\ HandedOn /\ NothingLost /\ ~ Fault
           /\ ~ ReceiveFatal /\ ~ MonitorDead /\ ~ MonitorStale /\ ~ Requeue
<1>1. faults \in Nat /\ resultQueue \in Seq(Messages)
  BY DEF TypeInv, TypeOK, WorkerTypeOK
<1>2. ~ Fault
  BY <1>1 DEF Fault
<1>3. faults = 0
  BY FaultsStay
<1>4. faults = 0 /\ Calm /\ HandedOn /\ NothingLost
  BY <1>3 DEF StrandInv
<1>5. ~ ReceiveFatal
  <2> SUFFICES ASSUME ReceiveFatal PROVE FALSE
    OBVIOUS
  <2>1. pc = "drain" /\ resultQueue # <<>> /\ Message.type = "fatal"
    BY DEF ReceiveFatal, Receive
  <2>2. Message = resultQueue[1] /\ 1 \in 1 .. Len(resultQueue)
    BY <1>1, <2>1 DEF Message
  <2> QED
    BY <1>4, <2>1, <2>2 DEF Calm, Ending
<1>6. ~ MonitorDead
  <2> SUFFICES ASSUME MonitorDead PROVE FALSE
    OBVIOUS
  <2>1. pc = "monitor" /\ scan \in Workers /\ state[scan] = "exited"
    BY NumWorkersAssumption
    DEF MonitorDead, SeenDead, TypeInv, TypeOK, ControlTypeOK, Workers
  <2> QED
    BY <1>4, <2>1 DEF Calm, Ending
<1>7. ~ MonitorStale /\ ~ Requeue
  BY <1>2, <1>4 DEF MonitorStale, Requeue, Calm
<1> QED
  BY <1>2, <1>4, <1>5, <1>6, <1>7

\* Steps that move the coordinator only.
Passes ==
    \/ StartDrains \/ Started \/ PutFull \/ AllSubmitted \/ WaitDrains \/ Return
    \/ Accepted \/ DrainedAll \/ MonitorHealthy \/ DrainReturns
    \/ StartContinues /\ pc' = "start"

LEMMA PassesBy ==
    ASSUME Passes
    PROVE  /\ UNCHANGED <<state, held, canceled, taskQueue, resultQueue, fatal, submitting,
                          drained, buffered, batch, todo, expected, completed, results>>
           /\ pc \notin Ending /\ pc' \notin Ending \cup {"requeue", "down"}
<1>1. CASE StartDrains \/ Started \/ PutFull \/ AllSubmitted \/ WaitDrains
  BY <1>1 DEF StartDrains, Started, PutFull, AllSubmitted, WaitDrains, Ending, workerVars,
              batchVars
<1>2. CASE Return \/ Accepted
  BY <1>2 DEF Return, Accepted, Ending, workerVars, batchVars
<1>3. CASE DrainedAll \/ MonitorHealthy \/ DrainReturns
  BY <1>3 DEF DrainedAll, MonitorHealthy, DrainReturns, Ending, workerVars, batchVars
<1>4. CASE StartContinues /\ pc' = "start"
  BY <1>4 DEF StartContinues, RaiseError, Ending, workerVars, batchVars
<1> QED
  BY <1>1, <1>2, <1>3, <1>4 DEF Passes

LEMMA PassKeepsStrand ==
    ASSUME DeliveryInv, Calm, HandedOn, NothingLost, Passes
    PROVE  Calm' /\ HandedOn' /\ NothingLost'
<1>1. /\ UNCHANGED <<state, held, taskQueue, resultQueue, fatal, submitting,
                     drained, buffered, expected, completed>>
      /\ pc \notin Ending /\ pc' \notin Ending \cup {"requeue", "down"}
  BY PassesBy
<1>2. Calm' /\ NothingLost'
  BY <1>1 DEF Calm, NothingLost, OnTheWay, InQueue, AtWork
<1>3. caller # "none" => pc \in {"drain", "monitor", "requeue", "accept"}
  BY DEF DeliveryInv, SubmitsAll
<1>4. HandedOn'
  <2>1. CASE StartDrains \/ Started \/ PutFull \/ AllSubmitted \/ WaitDrains \/ Return
    BY <1>1, <1>3, <2>1
    DEF StartDrains, Started, PutFull, AllSubmitted, WaitDrains, Return, HandedOn, Calm
  <2>2. CASE Accepted
    BY <1>1, <1>3, <2>2 DEF Accepted, HandedOn
  <2>3. CASE DrainedAll \/ MonitorHealthy \/ DrainReturns
    BY <1>1, <1>3, <2>3 DEF DrainedAll, MonitorHealthy, DrainReturns, HandedOn
  <2>4. CASE StartContinues /\ pc' = "start"
    BY <1>1, <1>3, <2>4 DEF StartContinues, RaiseError, HandedOn
  <2> QED
    BY <2>1, <2>2, <2>3, <2>4 DEF Passes
<1> QED
  BY <1>2, <1>4

\* The call of the next batch.
LEMMA CallKeepsStrand ==
    ASSUME DeliveryInv, Calm, HandedOn, NothingLost, RunBatch
    PROVE  Calm' /\ HandedOn' /\ NothingLost'
<1>1. /\ pc \in {"down", "returned"} /\ pc' \in {"start", "batch"}
      /\ expected' = {} /\ completed' = {}
      /\ UNCHANGED <<taskQueue, resultQueue, fatal, submitting, drained, buffered, caller>>
      /\ \/ state' = [w \in Workers |-> "booting"]
         \/ state' = state
  BY DEF RunBatch
<1>2. caller = "none"
  BY <1>1 DEF DeliveryInv, SubmitsAll
<1>3. Calm'
  BY <1>1 DEF Calm, Ending
<1>4. HandedOn'
  BY <1>1, <1>2 DEF HandedOn
<1>5. NothingLost'
  BY <1>1 DEF NothingLost
<1> QED
  BY <1>3, <1>4, <1>5

\* A message is read; a result goes to what drain() has collected.
LEMMA ReadKeepsStrand ==
    ASSUME TypeInv, Calm, HandedOn, NothingLost, Reads
    PROVE  Calm' /\ HandedOn' /\ NothingLost'
<1>1. /\ pc = "drain" /\ resultQueue # <<>> /\ resultQueue' = Tail(resultQueue)
      /\ UNCHANGED <<state, held, taskQueue, fatal, submitting, buffered, expected,
                     completed, pc, caller>>
      /\ IF Message.type = "result"
         THEN drained' = Append(drained, [task |-> Message.task, status |-> Message.status])
         ELSE drained' = drained
  BY DEF Reads, ReceiveStale, ReceiveWarmup, ReceiveStarted, ReceiveResult, ReceiveDone,
         Receive, poolVars, controlVars, batchVars
<1>2. resultQueue \in Seq(Messages) /\ drained \in Seq(Results)
  BY DEF TypeInv, TypeOK, WorkerTypeOK, PoolTypeOK
<1>3. /\ Message = resultQueue[1] /\ Message \in Messages /\ Len(resultQueue) \in Nat \ {0}
      /\ Len(resultQueue') = Len(resultQueue) - 1
      /\ \A i \in 1 .. Len(resultQueue') : resultQueue'[i] = resultQueue[i + 1]
  BY <1>1, <1>2 DEF Message
<1>4. Calm'
  <2>1. \A i \in 1 .. Len(resultQueue') : i + 1 \in 1 .. Len(resultQueue)
    BY <1>3
  <2> QED
    BY <1>1, <1>3, <2>1 DEF Calm
<1>5. HandedOn'
  <2>1. caller # "startMonitor"
    BY <1>1 DEF HandedOn
  <2> QED
    BY <1>1, <2>1 DEF HandedOn
<1>6. ASSUME NEW t \in expected \ completed PROVE OnTheWay(t)'
  <2>1. OnTheWay(t)
    BY <1>1 DEF NothingLost, Ending
  <2>2. CASE submitting = t \/ (\E w \in Workers : InQueue(w, t) \/ AtWork(w, t))
             \/ \E i \in 1 .. Len(buffered) : buffered[i].task = t
    BY <1>1, <2>2 DEF OnTheWay, InQueue, AtWork
  <2>3. CASE \E i \in 1 .. Len(drained) : drained[i].task = t
    <3>1. PICK i \in 1 .. Len(drained) : drained[i].task = t
      BY <2>3
    <3>2. i \in 1 .. Len(drained') /\ drained'[i] = drained[i]
      <4>1. CASE drained' = drained
        BY <3>1, <4>1
      <4>2. CASE drained' = Append(drained, [task |-> Message.task, status |-> Message.status])
        <5>1. [task |-> Message.task, status |-> Message.status] \in Results
          BY <1>3 DEF Messages, Results
        <5>2. /\ Len(drained') = Len(drained) + 1 /\ Len(drained) \in Nat
              /\ \A k \in 1 .. Len(drained) : drained'[k] = drained[k]
          BY <1>2, <4>2, <5>1, AppendProperties, LenProperties
        <5> QED
          BY <3>1, <5>2
      <4> QED
        BY <1>1, <4>1, <4>2
    <3> QED
      BY <3>1, <3>2 DEF OnTheWay
  <2>4. CASE \E i \in 1 .. Len(resultQueue) :
                resultQueue[i].type = "result" /\ resultQueue[i].task = t
    <3>1. PICK i \in 1 .. Len(resultQueue) :
                resultQueue[i].type = "result" /\ resultQueue[i].task = t
      BY <2>4
    <3>2. CASE i = 1
      <4>1. drained' = Append(drained, [task |-> t, status |-> Message.status])
        BY <1>1, <1>3, <3>1, <3>2
      <4>2. [task |-> t, status |-> Message.status] \in Results
        BY <1>3, <3>1, <3>2 DEF Messages, Results
      <4>3. /\ Len(drained) + 1 \in 1 .. Len(drained')
            /\ drained'[Len(drained) + 1] = [task |-> t, status |-> Message.status]
        BY <1>2, <4>1, <4>2, AppendProperties, LenProperties
      <4> QED
        BY <4>3 DEF OnTheWay
    <3>3. CASE i # 1
      <4>1. i - 1 \in 1 .. Len(resultQueue') /\ resultQueue'[i - 1] = resultQueue[i]
        BY <1>3, <3>1, <3>3
      <4> QED
        BY <3>1, <4>1 DEF OnTheWay
    <3> QED
      BY <3>2, <3>3
  <2> QED
    BY <2>1, <2>2, <2>3, <2>4 DEF OnTheWay
<1>7. NothingLost'
  BY <1>1, <1>6 DEF NothingLost
<1> QED
  BY <1>4, <1>5, <1>7
\* The step of a worker, once nothing fails.
LEMMA CalmWorkers ==
    ASSUME TypeInv, SpoolBacked, Calm, ~ Fault, pc \notin Ending, NEW w \in Workers, Worker(w)
    PROVE  /\ WarmUp(w) \/ Dequeue(w) \/ EmitStarted(w) \/ Finish(w)
           /\ state'[w] \in {"idle", "loaded", "verifying"}
           /\ \/ /\ Takes(w) /\ Moves(w, {"idle"}, {"loaded"}, Head(taskQueue[w]))
              \/ /\ taskQueue' = taskQueue
                 /\ \E m \in Messages :
                      /\ resultQueue' = Append(resultQueue, m)
                      /\ \/ m.type = "warmup" /\ Moves(w, {"booting"}, {"idle"}, NoTask)
                         \/ m.type = "started" /\ Begins(w)
                         \/ m.type = "result" /\ m.task = held[w] /\ Answers(w)
<1>1. TypeOK /\ WorkerTypeOK /\ HoldsTask
  BY DEF TypeInv, TypeOK
<1>2. state[w] \in {"booting", "idle", "loaded", "verifying"}
  <2>1. state[w] \in {"none", "booting", "idle", "loaded", "verifying"}
    BY DEF Calm
  <2>2. state[w] \in LiveStates
    BY WorkerSteps
  <2> QED
    BY <2>1, <2>2 DEF LiveStates
<1>3. WarmUp(w) \/ Dequeue(w) \/ EmitStarted(w) \/ Finish(w)
  BY <1>2
  DEF Worker, WorkerProgress, WorkerFault, EmitFatal, EmitDone, WarmUpFails, Raise, Hang,
      Crash
<1>4. CASE WarmUp(w)
  <2>1. Goto(w, "idle", NoTask) /\ Emit(w, "warmup", NoTask, "success")
        /\ taskQueue' = taskQueue /\ state[w] = "booting"
    BY <1>4 DEF WarmUp
  <2>2. state'[w] = "idle" /\ held'[w] = NoTask
    BY <1>1, <2>1, GotoType DEF States, LiveStates
  <2>3. \E m \in Messages : resultQueue' = Append(resultQueue, m) /\ m.type = "warmup"
    <3>1. "warmup" \in MessageTypes /\ "success" \in Statuses
      BY DEF MessageTypes, Statuses
    <3> QED
      BY <1>1, <2>1, <3>1, EmittedMessage
  <2> QED
    BY <1>3, <2>1, <2>2, <2>3 DEF Moves
<1>5. CASE Dequeue(w)
  <2>1. state[w] = "idle" /\ taskQueue[w] # <<>>
        /\ taskQueue' = [taskQueue EXCEPT ![w] = Tail(@)] /\ resultQueue' = resultQueue
    BY <1>5 DEF Dequeue
  <2>2. Head(taskQueue[w]) = taskQueue[w][1] /\ 1 \in 1 .. Len(taskQueue[w])
    BY <1>1, <2>1 DEF WorkerTypeOK
  <2>3. Head(taskQueue[w]) \in spool /\ Head(taskQueue[w]) # NoTask
    BY <2>2 DEF Calm, SpoolBacked
  <2>4. Goto(w, "loaded", Head(taskQueue[w]))
    BY <1>5, <2>3 DEF Dequeue
  <2>5. Head(taskQueue[w]) \in Tasks \cup {NoTask} /\ "loaded" \in States
    BY <1>1, <2>2 DEF WorkerTypeOK, States, LiveStates
  <2>6. state'[w] = "loaded" /\ held'[w] = Head(taskQueue[w])
    BY <1>1, <2>4, <2>5, GotoType
  <2> QED
    BY <1>3, <2>1, <2>3, <2>6 DEF Takes, Moves
<1>6. CASE EmitStarted(w) \/ Finish(w)
  <2>1. state[w] \in {"loaded", "verifying"} /\ state'[w] \in {"idle", "verifying"}
        /\ taskQueue' = taskQueue
    BY <1>1, <1>6, GotoType DEF EmitStarted, Finish, HoldsTask, States, LiveStates
  <2>2. Begins(w) \/ Answers(w)
    <3>1. Signals(w) \/ Begins(w) \/ Answers(w) \/ Hangs(w) \/ Ends(w) \/ Takes(w)
      BY WorkerSteps
    <3> QED
      BY <2>1, <3>1 DEF Signals, Hangs, Ends, Takes, Moves, Ended
  <2>3. ~ Signals(w)
    BY <2>1 DEF Signals, Moves
  <2> QED
    BY <1>1, <1>3, <2>1, <2>2, <2>3, EmittedBy
<1> QED
  BY <1>3, <1>4, <1>5, <1>6

LEMMA WorkerKeepsStrand ==
    ASSUME TypeInv, SpoolBacked, Calm, HandedOn, NothingLost, ~ Fault,
           NEW w \in Workers, Worker(w)
    PROVE  Calm' /\ HandedOn' /\ NothingLost'
<1>1. /\ UNCHANGED <<fatal, pc, caller, submitting, buffered, drained, expected, completed>>
      /\ \A v \in Workers \ {w} : state'[v] = state[v] /\ held'[v] = held[v]
  BY WorkerSteps DEF poolVars
<1>2. HandedOn'
  BY <1>1 DEF HandedOn
<1>3. CASE pc \in Ending
  BY <1>1, <1>2, <1>3 DEF Calm, NothingLost
<1>4. CASE pc \notin Ending
  <2>1. WorkerTypeOK /\ HoldsTask
    BY DEF TypeInv, TypeOK
  <2>2. state'[w] \in {"idle", "loaded", "verifying"}
    BY <1>4, CalmWorkers
  <2>3. CASE Takes(w) /\ Moves(w, {"idle"}, {"loaded"}, Head(taskQueue[w]))
    <3>1. /\ state[w] = "idle" /\ state'[w] = "loaded" /\ held'[w] = Head(taskQueue[w])
          /\ taskQueue[w] # <<>> /\ resultQueue' = resultQueue
          /\ taskQueue' = [taskQueue EXCEPT ![w] = Tail(@)]
      BY <2>3 DEF Takes, Moves
    <3>2. /\ taskQueue[w] \in Seq(Tasks \cup {NoTask}) /\ taskQueue'[w] = Tail(taskQueue[w])
          /\ \A v \in Workers \ {w} : taskQueue'[v] = taskQueue[v]
      BY <2>1, <3>1 DEF WorkerTypeOK
    <3>3. /\ Len(taskQueue[w]) \in Nat \ {0} /\ Head(taskQueue[w]) = taskQueue[w][1]
          /\ Len(taskQueue'[w]) = Len(taskQueue[w]) - 1
          /\ \A i \in 1 .. Len(taskQueue'[w]) : taskQueue'[w][i] = taskQueue[w][i + 1]
      <4> DEFINE d == taskQueue[w]
      <4>1. d \in Seq(Tasks \cup {NoTask}) /\ d # <<>>
        BY <3>1, <3>2
      <4> HIDE DEF d
      <4>2. /\ Len(d) \in Nat \ {0} /\ Head(d) = d[1] /\ Len(Tail(d)) = Len(d) - 1
            /\ \A i \in 1 .. Len(Tail(d)) : Tail(d)[i] = d[i + 1]
        BY <4>1
      <4> QED
        BY <3>2, <4>2 DEF d
    <3>4. Calm'
      <4>1. ASSUME NEW v \in Workers, NEW i \in 1 .. Len(taskQueue'[v])
            PROVE  taskQueue'[v][i] # NoTask
        <5>1. CASE v = w
          <6>1. i + 1 \in 1 .. Len(taskQueue[w])
            BY <3>3, <5>1
          <6> QED
            BY <1>4, <3>3, <5>1, <6>1 DEF Calm
        <5>2. CASE v # w
          BY <1>4, <3>2, <5>2 DEF Calm
        <5> QED
          BY <5>1, <5>2
      <4> QED
        BY <1>1, <1>4, <2>2, <3>1, <4>1 DEF Calm
    <3>5. ASSUME NEW t \in expected \ completed PROVE OnTheWay(t)'
      <4>1. OnTheWay(t)
        BY <1>4 DEF NothingLost
      <4>2. CASE InQueue(w, t)
        <5>1. PICK i \in 1 .. Len(taskQueue[w]) : taskQueue[w][i] = t
          BY <4>2 DEF InQueue
        <5>2. CASE i = 1
          BY <3>1, <3>3, <5>1, <5>2 DEF OnTheWay, AtWork
        <5>3. CASE i # 1
          <6>1. i - 1 \in 1 .. Len(taskQueue'[w]) /\ taskQueue'[w][i - 1] = t
            BY <3>3, <5>1, <5>3
          <6> QED
            BY <6>1 DEF OnTheWay, InQueue
        <5> QED
          BY <5>2, <5>3
      <4>3. CASE \E v \in Workers : v # w /\ (InQueue(v, t) \/ AtWork(v, t))
        BY <1>1, <3>2, <4>3 DEF OnTheWay, InQueue, AtWork
      <4>4. ~ AtWork(w, t)
        BY <3>1 DEF AtWork
      <4> QED
        BY <1>1, <3>1, <4>1, <4>2, <4>3, <4>4 DEF OnTheWay
    <3> QED
      BY <1>1, <1>2, <3>4, <3>5 DEF NothingLost
  <2>4. ASSUME NEW m \in Messages, resultQueue' = Append(resultQueue, m), taskQueue' = taskQueue,
               \/ m.type = "warmup" /\ Moves(w, {"booting"}, {"idle"}, NoTask)
               \/ m.type = "started" /\ Begins(w)
               \/ m.type = "result" /\ m.task = held[w] /\ Answers(w)
        PROVE  Calm' /\ NothingLost'
    <3>1. /\ Len(resultQueue) \in Nat /\ Len(resultQueue') = Len(resultQueue) + 1
          /\ resultQueue'[Len(resultQueue) + 1] = m
          /\ \A i \in 1 .. Len(resultQueue) : resultQueue'[i] = resultQueue[i]
      BY <2>1, <2>4, AppendProperties, LenProperties DEF WorkerTypeOK
    <3>2. Calm'
      <4>1. ASSUME NEW i \in 1 .. Len(resultQueue')
            PROVE  resultQueue'[i].type \in {"warmup", "started", "result"}
        <5>1. i \in 1 .. Len(resultQueue) \/ i = Len(resultQueue) + 1
          BY <3>1
        <5> QED
          BY <1>4, <2>4, <3>1, <5>1 DEF Calm
      <4> QED
        BY <1>1, <1>4, <2>2, <2>4, <4>1 DEF Calm
    <3>3. ASSUME NEW t \in expected \ completed PROVE OnTheWay(t)'
      <4>1. OnTheWay(t)
        BY <1>4 DEF NothingLost
      <4>2. CASE AtWork(w, t)
        <5>1. held[w] = t /\ state[w] \in {"loaded", "verifying"}
          BY <4>2 DEF AtWork
        <5>2. CASE Begins(w)
          BY <5>1, <5>2 DEF Begins, Moves, OnTheWay, AtWork
        <5>3. CASE m.type = "result" /\ m.task = held[w]
          BY <3>1, <5>1, <5>3 DEF OnTheWay
        <5> QED
          BY <2>4, <5>1, <5>2, <5>3 DEF Moves
      <4>3. CASE \E i \in 1 .. Len(resultQueue) :
                   resultQueue[i].type = "result" /\ resultQueue[i].task = t
        <5>1. PICK i \in 1 .. Len(resultQueue) :
                   resultQueue[i].type = "result" /\ resultQueue[i].task = t
          BY <4>3
        <5>2. i \in 1 .. Len(resultQueue')
          BY <3>1
        <5> QED
          BY <3>1, <5>1, <5>2 DEF OnTheWay
      <4>4. ASSUME NEW v \in Workers, InQueue(v, t) PROVE OnTheWay(t)'
        BY <2>4, <4>4 DEF OnTheWay, InQueue
      <4>6. ASSUME NEW v \in Workers, AtWork(v, t) PROVE OnTheWay(t)'
        <5>1. CASE v = w
          BY <4>2, <4>6, <5>1 DEF AtWork
        <5>2. CASE v # w
          BY <1>1, <4>6, <5>2 DEF OnTheWay, AtWork
        <5> QED
          BY <5>1, <5>2
      <4>5. CASE \/ submitting = t
                 \/ \E i \in 1 .. Len(drained) : drained[i].task = t
                 \/ \E i \in 1 .. Len(buffered) : buffered[i].task = t
        BY <1>1, <4>5 DEF OnTheWay
      <4> QED
        BY <4>1, <4>3, <4>4, <4>5, <4>6 DEF OnTheWay
    <3> QED
      BY <1>1, <3>2, <3>3 DEF NothingLost
  <2> QED
    BY <1>2, <1>4, <2>3, <2>4, CalmWorkers
<1> QED
  BY <1>3, <1>4
-----------------------------------------------------------------------------
\* submit() puts a task into the queue of its shard,
LEMMA SubmitKeepsStrand ==
    ASSUME TypeInv, DeliveryInv, Calm, HandedOn, NothingLost, NEW t \in todo, Submit(t)
    PROVE  Calm' /\ HandedOn' /\ NothingLost'
<1>1. /\ pc = "batch" /\ pc' = "put" /\ submitting' = t /\ expected' = expected \cup {t}
      /\ UNCHANGED <<state, held, taskQueue, resultQueue, fatal, drained, buffered, completed,
                     caller>>
  BY DEF Submit
<1>2. caller = "none"
  BY <1>1 DEF DeliveryInv, SubmitsAll
<1>3. submitting = NoTask /\ drained = <<>>
  BY <1>1, <1>2 DEF HandedOn
<1>4. todo \subseteq Tasks /\ expected \subseteq Tasks /\ NoTask \notin Tasks
  BY NoTaskAssumption DEF TypeInv, TypeOK, BatchTypeOK
<1>5. Calm'
  BY <1>1 DEF Calm, Ending
<1>6. HandedOn'
  BY <1>1, <1>2, <1>3, <1>4 DEF HandedOn
<1>7. ASSUME NEW u \in expected' \ completed' PROVE OnTheWay(u)'
  <2>1. CASE u = t
    BY <1>1, <2>1 DEF OnTheWay
  <2>2. CASE u # t
    <3>1. OnTheWay(u) /\ submitting # u
      BY <1>1, <1>3, <1>4, <1>7, <2>2 DEF NothingLost, Ending
    <3> QED
      BY <1>1, <3>1 DEF OnTheWay, InQueue, AtWork
  <2> QED
    BY <2>1, <2>2
<1> QED
  BY <1>5, <1>6, <1>7 DEF NothingLost

LEMMA PutKeepsStrand ==
    ASSUME TypeInv, DeliveryInv, Calm, HandedOn, NothingLost, Put
    PROVE  Calm' /\ HandedOn' /\ NothingLost'
<1> DEFINE w == ShardOf(submitting)
<1>1. /\ pc = "put" /\ pc' = "accept" /\ caller' = "put"
      /\ taskQueue' = [taskQueue EXCEPT ![w] = Append(@, submitting)]
      /\ submitting' = NoTask /\ drained' = buffered /\ buffered' = <<>>
      /\ UNCHANGED <<state, held, resultQueue, fatal, expected, completed>>
  BY DEF Put
<1>2. submitting \in Tasks /\ drained = <<>>
  BY <1>1 DEF HandedOn, TypeInv, TypeOK, BatchTypeOK
<1>3. w \in Workers
  BY <1>2, TasksAssumption, NumWorkersAssumption DEF ShardOf, Workers
<1> HIDE DEF w
<1>4. /\ taskQueue[w] \in Seq(Tasks \cup {NoTask})
      /\ taskQueue'[w] = Append(taskQueue[w], submitting)
      /\ \A v \in Workers \ {w} : taskQueue'[v] = taskQueue[v]
  BY <1>1, <1>3 DEF TypeInv, TypeOK, WorkerTypeOK
<1>5. /\ Len(taskQueue[w]) \in Nat /\ Len(taskQueue'[w]) = Len(taskQueue[w]) + 1
      /\ taskQueue'[w][Len(taskQueue[w]) + 1] = submitting
      /\ \A i \in 1 .. Len(taskQueue[w]) : taskQueue'[w][i] = taskQueue[w][i]
  BY <1>2, <1>4, AppendProperties, LenProperties
<1>6. Calm'
  <2>1. ASSUME NEW v \in Workers, NEW i \in 1 .. Len(taskQueue'[v])
        PROVE  taskQueue'[v][i] # NoTask
    <3>1. CASE v # w
      BY <1>1, <1>4, <3>1 DEF Calm, Ending
    <3>2. CASE v = w /\ i = Len(taskQueue[w]) + 1
      BY <1>2, <1>5, <3>2, NoTaskAssumption
    <3>3. CASE v = w /\ i # Len(taskQueue[w]) + 1
      <4>1. i \in 1 .. Len(taskQueue[w]) /\ taskQueue'[v][i] = taskQueue[w][i]
        BY <1>5, <3>3
      <4> QED
        BY <1>1, <1>3, <4>1 DEF Calm, Ending
    <3> QED
      BY <3>1, <3>2, <3>3
  <2> QED
    BY <1>1, <2>1 DEF Calm, Ending
<1>7. HandedOn'
  <2>1. caller # "startMonitor" /\ caller # "start"
    BY <1>1 DEF DeliveryInv, SubmitsAll
  <2> QED
    BY <1>1, <2>1 DEF HandedOn
<1>8. ASSUME NEW u \in expected \ completed PROVE OnTheWay(u)'
  <2>1. OnTheWay(u)
    BY <1>1, <1>8 DEF NothingLost, Ending
  <2>2. CASE submitting = u
    <3>1. Len(taskQueue[w]) + 1 \in 1 .. Len(taskQueue'[w])
      BY <1>5
    <3> QED
      BY <1>3, <1>5, <2>2, <3>1 DEF OnTheWay, InQueue
  <2>3. ASSUME NEW v \in Workers, InQueue(v, u) PROVE OnTheWay(u)'
    <3>1. PICK i \in 1 .. Len(taskQueue[v]) : taskQueue[v][i] = u
      BY <2>3 DEF InQueue
    <3>2. i \in 1 .. Len(taskQueue'[v]) /\ taskQueue'[v][i] = u
      <4>1. CASE v = w
        BY <1>5, <3>1, <4>1
      <4>2. CASE v # w
        BY <1>4, <3>1, <4>2
      <4> QED
        BY <4>1, <4>2
    <3> QED
      BY <3>2 DEF OnTheWay, InQueue
  <2>4. ASSUME NEW v \in Workers, AtWork(v, u) PROVE OnTheWay(u)'
    BY <1>1, <2>4 DEF OnTheWay, AtWork
  <2>5. CASE \E i \in 1 .. Len(resultQueue) :
               resultQueue[i].type = "result" /\ resultQueue[i].task = u
    BY <1>1, <2>5 DEF OnTheWay
  <2>6. CASE \E i \in 1 .. Len(buffered) : buffered[i].task = u
    BY <1>1, <2>6 DEF OnTheWay
  <2>7. ~ \E i \in 1 .. Len(drained) : drained[i].task = u
    BY <1>2
  <2> QED
    BY <2>1, <2>2, <2>3, <2>4, <2>5, <2>6, <2>7 DEF OnTheWay
<1> QED
  BY <1>1, <1>6, <1>7, <1>8 DEF NothingLost

\* and run_batch gets every result that was drained.
LEMMA AcceptKeepsStrand ==
    ASSUME TypeInv, Calm, HandedOn, NothingLost, Accept
    PROVE  Calm' /\ HandedOn' /\ NothingLost'
<1>1. /\ pc = "accept" /\ drained # <<>> /\ drained' = Tail(drained)
      /\ UNCHANGED <<state, held, taskQueue, resultQueue, fatal, submitting, buffered, expected,
                     pc, caller>>
      /\ completed' = IF IsNew(Head(drained)) THEN completed \cup {Head(drained).task}
                      ELSE completed
  BY DEF Accept, workerVars, controlVars
<1>2. drained \in Seq(Results)
  BY DEF TypeInv, TypeOK, PoolTypeOK
<1>3. /\ Len(drained) \in Nat \ {0} /\ Head(drained) = drained[1]
      /\ Len(Tail(drained)) = Len(drained) - 1
      /\ \A i \in 1 .. Len(Tail(drained)) : Tail(drained)[i] = drained[i + 1]
  BY <1>1, <1>2
<1>4. Calm' /\ HandedOn'
  BY <1>1 DEF Calm, HandedOn
<1>5. ASSUME NEW t \in expected \ completed' PROVE OnTheWay(t)'
  <2>1. t \in expected \ completed /\ t # Head(drained).task
    BY <1>1, <1>5 DEF IsNew
  <2>2. OnTheWay(t)
    BY <1>1, <2>1 DEF NothingLost, Ending
  <2>3. CASE \E i \in 1 .. Len(drained) : drained[i].task = t
    <3>1. PICK i \in 1 .. Len(drained) : drained[i].task = t
      BY <2>3
    <3>2. i - 1 \in 1 .. Len(drained') /\ drained'[i - 1] = drained[i]
      BY <1>1, <1>3, <2>1, <3>1
    <3> QED
      BY <3>1, <3>2 DEF OnTheWay
  <2>4. CASE ~ \E i \in 1 .. Len(drained) : drained[i].task = t
    BY <1>1, <2>2, <2>4 DEF OnTheWay, InQueue, AtWork
  <2> QED
    BY <2>3, <2>4
<1> QED
  BY <1>1, <1>4, <1>5 DEF NothingLost

\* What submit() drains while its queue is full is kept for the put,
LEMMA FullKeepsStrand ==
    ASSUME TypeInv, Calm, HandedOn, NothingLost, FullReturns
    PROVE  Calm' /\ HandedOn' /\ NothingLost'
<1>1. /\ pc = "monitor" /\ caller = "full" /\ pc' = "put" /\ caller' = "none"
      /\ buffered' = buffered \o drained /\ drained' = <<>>
      /\ UNCHANGED <<state, held, taskQueue, resultQueue, fatal, submitting, expected, completed>>
  BY DEF Calm, FullReturns, Extended, workerVars, batchVars
<1>2. buffered \in Seq(Results) /\ drained \in Seq(Results)
  BY DEF TypeInv, TypeOK, PoolTypeOK
<1>3. /\ Len(buffered') = Len(buffered) + Len(drained)
      /\ Len(buffered) \in Nat /\ Len(drained) \in Nat
      /\ \A i \in 1 .. Len(buffered') :
           buffered'[i] = IF i <= Len(buffered) THEN buffered[i]
                                                ELSE drained[i - Len(buffered)]
  BY <1>1, <1>2
<1>4. Calm' /\ HandedOn'
  BY <1>1 DEF Calm, HandedOn, Ending
<1>5. ASSUME NEW t \in expected \ completed PROVE OnTheWay(t)'
  <2>1. OnTheWay(t)
    BY <1>1 DEF NothingLost, Ending
  <2>2. CASE \E i \in 1 .. Len(drained) : drained[i].task = t
    <3>1. PICK i \in 1 .. Len(drained) : drained[i].task = t
      BY <2>2
    <3>2. /\ Len(buffered) + i \in 1 .. Len(buffered')
          /\ buffered'[Len(buffered) + i] = drained[i]
      BY <1>3, <3>1
    <3> QED
      BY <3>1, <3>2 DEF OnTheWay
  <2>3. CASE \E i \in 1 .. Len(buffered) : buffered[i].task = t
    <3>1. PICK i \in 1 .. Len(buffered) : buffered[i].task = t
      BY <2>3
    <3>2. i \in 1 .. Len(buffered') /\ buffered'[i] = buffered[i]
      BY <1>3, <3>1
    <3> QED
      BY <3>1, <3>2 DEF OnTheWay
  <2>4. CASE ~ \/ \E i \in 1 .. Len(drained) : drained[i].task = t
               \/ \E i \in 1 .. Len(buffered) : buffered[i].task = t
    BY <1>1, <2>1, <2>4 DEF OnTheWay, InQueue, AtWork
  <2> QED
    BY <2>2, <2>3, <2>4
<1> QED
  BY <1>1, <1>4, <1>5 DEF NothingLost

\* and what start() drains is dropped when nothing is awaited.
LEMMA StartKeepsStrand ==
    ASSUME Calm, HandedOn, StartMonitors PROVE Calm' /\ HandedOn' /\ NothingLost'
<1>1. /\ pc = "monitor" /\ caller = "start" /\ caller' = "startMonitor" /\ drained' = <<>>
      /\ UNCHANGED <<state, taskQueue, resultQueue, fatal, submitting, buffered, expected,
                     completed, pc>>
  BY DEF StartMonitors, workerVars, batchVars
<1>2. expected = {} /\ submitting = NoTask /\ buffered = <<>>
  BY <1>1 DEF HandedOn
<1> QED
  BY <1>1, <1>2 DEF Calm, HandedOn, NothingLost

\* The end of the pool.
LEMMA EndKeepsStrand ==
    ASSUME DeliveryInv, Calm, HandedOn, Close \/ CloseSignals \/ CloseJoins \/ Closed
    PROVE  Calm' /\ HandedOn' /\ NothingLost'
<1>1. /\ pc \in {"returned", "close", "join"} /\ pc' \in Ending
      /\ UNCHANGED <<fatal, submitting, drained, expected, completed, caller>>
      /\ buffered' = buffered \/ buffered' = <<>>
  <2>1. CASE Close
    BY <2>1 DEF Close, Ending, batchVars
  <2>2. CASE CloseSignals \/ CloseJoins \/ Closed
    BY <2>2 DEF CloseSignals, CloseJoins, Closed, Ending, batchVars
  <2> QED
    BY <2>1, <2>2
<1>2. caller = "none"
  BY <1>1 DEF DeliveryInv, SubmitsAll
<1>3. HandedOn'
  BY <1>1, <1>2 DEF HandedOn, Ending
<1> QED
  BY <1>1, <1>3 DEF Calm, NothingLost, Ending
LEMMA NextKeepsStrand ==
    ASSUME TypeInv, SpoolBacked, DeliveryInv, StrandInv, [Next]_vars PROVE StrandInv'
<1> SUFFICES ASSUME faults' = 0 PROVE Calm' /\ HandedOn' /\ NothingLost'
  BY DEF StrandInv
<1>1. /\ Calm /\ HandedOn /\ NothingLost /\ ~ Fault
      /\ ~ ReceiveFatal /\ ~ MonitorDead /\ ~ MonitorStale /\ ~ Requeue
  BY CalmSteps
<1>2. CASE \E w \in Workers : Worker(w)
  BY <1>1, <1>2, WorkerKeepsStrand
<1>3. CASE Reads
  BY <1>1, <1>3, ReadKeepsStrand
<1>4. CASE RunBatch
  BY <1>1, <1>4, CallKeepsStrand
<1>5. CASE Passes
  BY <1>1, <1>5, PassKeepsStrand
<1>6. CASE \E t \in todo : Submit(t)
  BY <1>1, <1>6, SubmitKeepsStrand
<1>7. CASE Put
  BY <1>1, <1>7, PutKeepsStrand
<1>8. CASE Accept
  BY <1>1, <1>8, AcceptKeepsStrand
<1>9. CASE FullReturns
  BY <1>1, <1>9, FullKeepsStrand
<1>10. CASE StartMonitors
  BY <1>1, <1>10, StartKeepsStrand
<1>11. CASE Close \/ CloseSignals \/ CloseJoins \/ Closed
  BY <1>1, <1>11, EndKeepsStrand
<1>12. CASE UNCHANGED vars
  <2>1. UNCHANGED <<state, held, taskQueue, resultQueue, fatal, pc, caller, submitting, buffered,
                    drained, expected, completed>>
    BY <1>12 DEF vars, workerVars, poolVars
  <2>2. Calm' /\ HandedOn'
    BY <1>1, <2>1 DEF Calm, HandedOn
  <2>3. NothingLost'
    BY <1>1, <2>1 DEF NothingLost, OnTheWay, InQueue, AtWork
  <2> QED
    BY <2>2, <2>3
<1>13. CASE StartContinues
  <2>1. pc' = "start"
    BY <1>1, <1>13 DEF StartContinues, Calm
  <2> QED
    BY <1>5, <1>13, <2>1 DEF Passes
<1> QED
  BY <1>1, <1>2, <1>3, <1>4, <1>5, <1>6, <1>7, <1>8, <1>9, <1>10, <1>11, <1>12, <1>13
  DEF Next, Coordinator, Passes, Reads, Terminated

LEMMA InitStrand == Init => StrandInv
<1> SUFFICES ASSUME Init PROVE StrandInv
  OBVIOUS
<1>1. Calm /\ HandedOn /\ NothingLost
  BY DEF Init, WorkerInit, Calm, HandedOn, NothingLost
<1> QED
  BY <1>1 DEF StrandInv

\* Nothing is on its way in a pool at rest whose coordinator waits.
LEMMA NothingStranded ==
    ASSUME TypeInv, DeliveryInv, StrandInv, faults = 0 PROVE NoStrandedBatch
<1> SUFFICES ASSUME pc = "wait", Quiescent PROVE completed = expected
  BY DEF NoStrandedBatch
<1>1. Calm /\ HandedOn /\ NothingLost
  BY DEF StrandInv
<1>2. ASSUME NEW t \in expected \ completed PROVE FALSE
  <2>1. OnTheWay(t)
    BY <1>1 DEF NothingLost, Ending
  <2>2. drained = <<>> /\ resultQueue = <<>>
    BY <1>1 DEF HandedOn, Quiescent
  <2>3. caller = "none"
    BY DEF DeliveryInv, SubmitsAll
  <2>4. submitting = NoTask /\ buffered = <<>>
    BY <1>1, <2>3 DEF HandedOn
  <2>5. t # NoTask
    BY NoTaskAssumption DEF TypeInv, TypeOK, BatchTypeOK
  <2>6. \A w \in Workers : ~ InQueue(w, t) /\ ~ AtWork(w, t)
    BY DEF Quiescent, InQueue, AtWork
  <2> QED
    BY <2>1, <2>2, <2>4, <2>5, <2>6 DEF OnTheWay
<1> QED
  BY <1>2 DEF DeliveryInv, CompletedDelivered

\* Until the first fault run_batch never waits for what nothing can produce: when
\* the workers are idle and all queues are empty, every result was delivered.
THEOREM NothingStrandedWithoutFaults ==
    ASSUME DisjointBatches PROVE Spec => [](faults = 0 => NoStrandedBatch)
<1>1. Init => DeliveryInv /\ SpoolInv /\ StrandInv
  BY InitDelivers, InitSpool, InitStrand
<1>2. TypeInv /\ DeliveryInv /\ [Next]_vars => DeliveryInv'
  BY NextKeepsDelivery
<1>3. TypeInv /\ StaleInv /\ CopyInv /\ SpoolInv /\ [Next]_vars => SpoolInv'
  BY NextKeepsSpool
<1>4. TypeInv /\ SpoolInv /\ DeliveryInv /\ StrandInv /\ [Next]_vars => StrandInv'
  BY NextKeepsStrand DEF SpoolInv
<1>5. TypeInv /\ DeliveryInv /\ StrandInv => (faults = 0 => NoStrandedBatch)
  BY NothingStranded
<1> QED
  BY <1>1, <1>2, <1>3, <1>4, <1>5, CopyInvariant, PTL DEF Spec

-----------------------------------------------------------------------------
(* What the log of answers is, entry by entry.                             *)

LEMMA Joined ==
    ASSUME NEW S, NEW a \in Seq(S), NEW b \in Seq(S)
    PROVE  /\ a \o b \in Seq(S) /\ Len(a) \in Nat /\ Len(b) \in Nat
           /\ Len(a \o b) = Len(a) + Len(b)
           /\ \A i \in 1 .. Len(a) : (a \o b)[i] = a[i]
           /\ \A i \in 1 .. Len(b) : (a \o b)[Len(a) + i] = b[i]
  OBVIOUS

\* What sequence L has where, if it is a, b, c and d joined.
Places(a, b, c, d, L) ==
    /\ L \in Seq(Results)
    /\ Len(a) \in Nat /\ Len(b) \in Nat /\ Len(c) \in Nat /\ Len(d) \in Nat
    /\ Len(L) = Len(a) + Len(b) + Len(c) + Len(d)
    /\ \A i \in 1 .. Len(a) : L[i] = a[i]
    /\ \A i \in 1 .. Len(b) : L[Len(a) + i] = b[i]
    /\ \A i \in 1 .. Len(c) : L[Len(a) + Len(b) + i] = c[i]
    /\ \A i \in 1 .. Len(d) : L[Len(a) + Len(b) + Len(c) + i] = d[i]

LEMMA LookUp ==
    ASSUME NEW a \in Seq(Results), NEW b \in Seq(Results), NEW c \in Seq(Results),
           NEW d \in Seq(Results)
    PROVE  Places(a, b, c, d, a \o (b \o (c \o d)))
<1> DEFINE m == c \o d
           n == b \o m
           L == a \o n
<1>2. /\ m \in Seq(Results) /\ Len(c) \in Nat /\ Len(d) \in Nat /\ Len(m) = Len(c) + Len(d)
      /\ \A i \in 1 .. Len(c) : m[i] = c[i]
      /\ \A i \in 1 .. Len(d) : m[Len(c) + i] = d[i]
  BY Joined
<1> HIDE DEF m
<1>4. /\ n \in Seq(Results) /\ Len(b) \in Nat /\ Len(n) = Len(b) + Len(m)
      /\ \A i \in 1 .. Len(b) : n[i] = b[i]
      /\ \A i \in 1 .. Len(m) : n[Len(b) + i] = m[i]
  BY <1>2, Joined
<1> HIDE DEF n
<1>6. /\ L \in Seq(Results) /\ Len(a) \in Nat /\ Len(L) = Len(a) + Len(n)
      /\ \A i \in 1 .. Len(a) : L[i] = a[i]
      /\ \A i \in 1 .. Len(n) : L[Len(a) + i] = n[i]
  BY <1>4, Joined
<1> HIDE DEF L
<1>7. \A i \in 1 .. Len(m) : L[Len(a) + Len(b) + i] = m[i]
  <2> TAKE i \in 1 .. Len(m)
  <2>1. Len(b) + i \in 1 .. Len(n) /\ n[Len(b) + i] = m[i]
    BY <1>2, <1>4
  <2>2. Len(a) + (Len(b) + i) = Len(a) + Len(b) + i
    BY <1>2, <1>4, <1>6
  <2> QED
    BY <1>6, <2>1, <2>2
<1>8. \A i \in 1 .. Len(b) : L[Len(a) + i] = b[i]
  <2> TAKE i \in 1 .. Len(b)
  <2>1. i \in 1 .. Len(n) /\ n[i] = b[i]
    BY <1>2, <1>4
  <2> QED
    BY <1>6, <2>1
<1>9. \A i \in 1 .. Len(c) : L[Len(a) + Len(b) + i] = c[i]
  <2> TAKE i \in 1 .. Len(c)
  <2>1. i \in 1 .. Len(m) /\ m[i] = c[i]
    BY <1>2
  <2> QED
    BY <1>7, <2>1
<1>10. \A i \in 1 .. Len(d) : L[Len(a) + Len(b) + Len(c) + i] = d[i]
  <2> TAKE i \in 1 .. Len(d)
  <2>1. Len(c) + i \in 1 .. Len(m) /\ m[Len(c) + i] = d[i]
    BY <1>2
  <2>2. Len(a) + Len(b) + (Len(c) + i) = Len(a) + Len(b) + Len(c) + i
    BY <1>2, <1>4, <1>6
  <2> QED
    BY <1>7, <2>1, <2>2
<1>11. Len(L) = Len(a) + Len(b) + Len(c) + Len(d)
  BY <1>2, <1>4, <1>6
<1>12. L = a \o (b \o (c \o d))
  BY DEF L, n, m
<1>13. Places(a, b, c, d, L)
  BY <1>2, <1>4, <1>6, <1>8, <1>9, <1>10, <1>11 DEF Places
<1> QED
  BY <1>12, <1>13

\* Entry by entry, the log L of parts a, b, c and queue q.
Spread(a, b, c, q, L) ==
    /\ L \in Seq(Results)
    /\ Len(a) \in Nat /\ Len(b) \in Nat /\ Len(c) \in Nat /\ Len(q) \in Nat
    /\ Len(L) = Len(a) + Len(b) + Len(c) + Len(q)
    /\ \A i \in 1 .. Len(L) :
         L[i] = IF i <= Len(a) THEN a[i]
                ELSE IF i <= Len(a) + Len(b) THEN b[i - Len(a)]
                ELSE IF i <= Len(a) + Len(b) + Len(c) THEN c[i - Len(a) - Len(b)]
                ELSE Answered(q[i - Len(a) - Len(b) - Len(c)])

LEMMA LogSpread ==
    ASSUME NEW a \in Seq(Results), NEW b \in Seq(Results), NEW c \in Seq(Results),
           NEW q \in Seq(Messages)
    PROVE  Spread(a, b, c, q, LogOf(a, b, c, q))
<1> DEFINE L == LogOf(a, b, c, q)
<1>1. PICK d : d = [i \in 1 .. Len(q) |-> Answered(q[i])]
  OBVIOUS
<1>2. Len(q) \in Nat
  OBVIOUS
<1>3. ASSUME NEW i \in 1 .. Len(q) PROVE Answered(q[i]) \in Results
  <2>1. q[i] \in Messages
    OBVIOUS
  <2> QED
    BY <2>1 DEF Answered, Messages, Results, Statuses
<1>4. d \in [1 .. Len(q) -> Results]
  BY <1>1, <1>3
<1>5. d \in Seq(Results) /\ Len(d) = Len(q)
  BY <1>2, <1>4, IsASeq
<1>6. L = a \o (b \o (c \o d))
  BY <1>1 DEF LogOf
<1>7. \A i \in 1 .. Len(q) : d[i] = Answered(q[i])
  BY <1>1
<1> HIDE <1>1, <1>4
<1>8. Places(a, b, c, d, a \o (b \o (c \o d)))
  BY <1>5, LookUp
<1>9. /\ L \in Seq(Results)
      /\ Len(a) \in Nat /\ Len(b) \in Nat /\ Len(c) \in Nat /\ Len(q) \in Nat
      /\ Len(L) = Len(a) + Len(b) + Len(c) + Len(q)
      /\ \A i \in 1 .. Len(a) : L[i] = a[i]
      /\ \A i \in 1 .. Len(b) : L[Len(a) + i] = b[i]
      /\ \A i \in 1 .. Len(c) : L[Len(a) + Len(b) + i] = c[i]
      /\ \A i \in 1 .. Len(q) : L[Len(a) + Len(b) + Len(c) + i] = Answered(q[i])
  BY <1>2, <1>5, <1>6, <1>7, <1>8 DEF Places
<1> HIDE DEF L
<1> SUFFICES ASSUME NEW i \in 1 .. Len(L)
             PROVE  L[i] = IF i <= Len(a) THEN a[i]
                ELSE IF i <= Len(a) + Len(b) THEN b[i - Len(a)]
                ELSE IF i <= Len(a) + Len(b) + Len(c) THEN c[i - Len(a) - Len(b)]
                ELSE Answered(q[i - Len(a) - Len(b) - Len(c)])
  BY <1>9 DEF Spread, L
<1>10. CASE i <= Len(a)
  BY <1>9, <1>10
<1>11. CASE i > Len(a) /\ i <= Len(a) + Len(b)
  <2>1. PICK k : k = i - Len(a)
    OBVIOUS
  <2>2. k \in 1 .. Len(b) /\ i = Len(a) + k
    BY <1>9, <1>11, <2>1
  <2>3. L[Len(a) + k] = b[k]
    BY <1>9, <2>2
  <2> QED
    BY <1>9, <1>11, <2>1, <2>2, <2>3
<1>12. CASE i > Len(a) + Len(b) /\ i <= Len(a) + Len(b) + Len(c)
  <2>1. PICK k : k = i - Len(a) - Len(b)
    OBVIOUS
  <2>2. k \in 1 .. Len(c) /\ i = Len(a) + Len(b) + k
    BY <1>9, <1>12, <2>1
  <2>3. L[Len(a) + Len(b) + k] = c[k]
    BY <1>9, <2>2
  <2>4. i > Len(a)
    BY <1>9, <1>12
  <2> QED
    BY <1>12, <2>1, <2>2, <2>3, <2>4, <1>9
<1>13. CASE i > Len(a) + Len(b) + Len(c)
  <2>1. PICK k : k = i - Len(a) - Len(b) - Len(c)
    OBVIOUS
  <2>2. k \in 1 .. Len(q) /\ i = Len(a) + Len(b) + Len(c) + k
    BY <1>9, <1>13, <2>1
  <2>3. L[Len(a) + Len(b) + Len(c) + k] = Answered(q[k])
    BY <1>9, <2>2
  <2>4. i > Len(a) + Len(b) /\ i > Len(a)
    BY <1>9, <1>13
  <2> QED
    BY <1>13, <2>1, <2>2, <2>3, <2>4, <1>9
<1> QED
  BY <1>9, <1>10, <1>11, <1>12, <1>13

-----------------------------------------------------------------------------
\* The entry at k, which is about no task, is gone, or none if k is past the end.
Keeps(L, M, k) ==
    /\ k \in 1 .. Len(L) + 1
    /\ IF k <= Len(L) THEN Len(M) = Len(L) - 1 /\ L[k].task = NoTask ELSE Len(M) = Len(L)
    /\ \A i \in 1 .. Len(M) : M[i] = IF i < k THEN L[i] ELSE L[i + 1]

LEMMA KeepsAnswers ==
    ASSUME NEW L \in Seq(Results), NEW M \in Seq(Results), NEW k, Keeps(L, M, k)
    PROVE  /\ \A i \in 1 .. Len(M) : \E j \in 1 .. Len(L) : M[i] = L[j]
           /\ \A j \in 1 .. Len(L) : L[j].task # NoTask => \E i \in 1 .. Len(M) : M[i] = L[j]
           /\ OneEach(L) => OneEach(M)
           /\ InOrder(L) => InOrder(M)
<1> DEFINE at(i) == IF i < k THEN i ELSE i + 1
           to(j) == IF j < k THEN j ELSE j - 1
<1>1. Len(L) \in Nat /\ Len(M) \in Nat /\ k \in Nat
  BY DEF Keeps
<1>2. ASSUME NEW i \in 1 .. Len(M) PROVE at(i) \in 1 .. Len(L) /\ M[i] = L[at(i)]
  BY <1>1 DEF Keeps
<1>3. ASSUME NEW j \in 1 .. Len(L), L[j].task # NoTask
      PROVE  to(j) \in 1 .. Len(M) /\ M[to(j)] = L[j]
  <2>1. j # k
    BY <1>1, <1>3 DEF Keeps
  <2>2. to(j) \in 1 .. Len(M)
    BY <1>1, <2>1 DEF Keeps
  <2>3. at(to(j)) = j
    BY <1>1, <2>1
  <2> QED
    BY <1>2, <2>2, <2>3
<1>4. ASSUME OneEach(L) PROVE OneEach(M)
  <2>1. ASSUME NEW i \in 1 .. Len(M), NEW j \in 1 .. Len(M), M[i].task = M[j].task,
               M[i].task # NoTask
        PROVE  i = j
    <3>1. at(i) = at(j)
      BY <1>2, <1>4, <2>1 DEF OneEach
    <3> QED
      BY <1>1, <3>1
  <2> QED
    BY <2>1 DEF OneEach
<1>5. ASSUME InOrder(L) PROVE InOrder(M)
  <2> SUFFICES ASSUME NEW i \in 1 .. Len(M), M[i].task # NoTask, M[i].status = "canceled"
               PROVE  \E j \in 1 .. i - 1 : Success(M[j], M[i].task[1])
    BY DEF InOrder
  <2>1. at(i) \in 1 .. Len(L) /\ M[i] = L[at(i)]
    BY <1>2
  <2>2. PICK j \in 1 .. at(i) - 1 : Success(L[j], M[i].task[1])
    BY <1>5, <2>1 DEF InOrder
  <2>3. j \in 1 .. Len(L) /\ L[j].task # NoTask
    BY <1>1, <2>1, <2>2 DEF Success
  <2>4. to(j) \in 1 .. Len(M) /\ M[to(j)] = L[j]
    BY <1>3, <2>3
  <2>5. to(j) \in 1 .. i - 1
    BY <1>1, <2>2, <2>3, <2>4
  <2> QED
    BY <2>2, <2>4, <2>5
<1> QED
  BY <1>2, <1>3, <1>4, <1>5

LogFacts ==
    Settled(Log) /\ LiveAwaited /\ OneEach(Log) /\ InOrder(Log) /\ CancelsTold(Log)

\* A step that moves answers along, and starts no more than what it awaits.
LEMMA KeepsLog ==
    ASSUME Log \in Seq(Results), Log' \in Seq(Results), LogFacts, NEW k, Keeps(Log, Log', k),
           UNCHANGED <<canceled, batch>>, expected \subseteq expected',
           \A t \in Tasks : Live(t)' => Live(t) \/ t \in expected' \ expected
    PROVE  LogFacts'
<1>1. Log \in Seq(Results) /\ Log' \in Seq(Results)
  OBVIOUS
<1>2. /\ \A i \in 1 .. Len(Log') : \E j \in 1 .. Len(Log) : Log'[i] = Log[j]
      /\ \A j \in 1 .. Len(Log) : Log[j].task # NoTask =>
            \E i \in 1 .. Len(Log') : Log'[i] = Log[j]
      /\ OneEach(Log) => OneEach(Log')
      /\ InOrder(Log) => InOrder(Log')
  BY <1>1, KeepsAnswers
<1>3. Settled(Log)'
  <2>1. ASSUME NEW i \in 1 .. Len(Log'), NEW t \in Tasks, Log'[i].task = t
        PROVE  t \in expected' /\ ~ Live(t)'
    <3>1. PICK j \in 1 .. Len(Log) : Log'[i] = Log[j]
      BY <1>2
    <3>2. t \in expected
      BY <2>1, <3>1, NoTaskAssumption DEF LogFacts, Settled
    <3>3. ~ Live(t)
      BY <2>1, <3>1, NoTaskAssumption DEF LogFacts, Settled, Live, InQueue
    <3>4. \A u \in Tasks : Live(u)' => Live(u) \/ u \in expected' \ expected
      OBVIOUS
    <3> QED
      BY <3>2, <3>3, <3>4
  <2>2. ASSUME NEW i \in 1 .. Len(Log')
        PROVE  (Log[i].task # NoTask => Log[i].task \in expected /\ ~ Live(Log[i].task))'
    <3>1. Log'[i].task \in Tasks \/ Log'[i].task = NoTask
      <4>1. Log'[i] \in Results
        BY <1>1
      <4> QED
        BY <4>1 DEF Results
    <3> QED
      BY <2>1, <3>1 DEF Live, InQueue
  <2> QED
    BY <2>2 DEF Settled
<1>4. LiveAwaited'
  <2>1. ASSUME NEW t \in Tasks, Live(t)' PROVE t \in expected'
    BY <2>1 DEF LogFacts, LiveAwaited
  <2> QED
    BY <2>1 DEF LiveAwaited
<1>5. CancelsTold(Log)'
  <2>1. ASSUME NEW w \in Workers, NEW problem \in canceled'[w], problem \in Problems(batch')
        PROVE  \E i \in 1 .. Len(Log') : Success(Log'[i], problem)
    <3>1. PICK j \in 1 .. Len(Log) : Success(Log[j], problem)
      BY <2>1 DEF LogFacts, CancelsTold
    <3> QED
      BY <1>2, <3>1 DEF Success
  <2> QED
    BY <2>1 DEF LogFacts, CancelsTold, Problems
<1> QED
  BY <1>2, <1>3, <1>4, <1>5 DEF LogFacts, OneEach, InOrder

-----------------------------------------------------------------------------
(* What the steps do to the log: an answer that moves on keeps its place.   *)

\* accept() takes the first of what was drained,
LEMMA AcceptMoves ==
    ASSUME NEW a \in Seq(Results), NEW c \in Seq(Results), c # <<>>, NEW q \in Seq(Messages)
    PROVE  LET L == LogOf(a, <<>>, c, q) IN
           /\ Keeps(L, LogOf(Append(a, Head(c)), <<>>, Tail(c), q), Len(L) + 1)
           /\ Head(c).task = NoTask => Keeps(L, LogOf(a, <<>>, Tail(c), q), Len(a) + 1)
<1> DEFINE L == LogOf(a, <<>>, c, q)
           M == LogOf(Append(a, Head(c)), <<>>, Tail(c), q)
           N == LogOf(a, <<>>, Tail(c), q)
<1>1. /\ Head(c) \in Results /\ Head(c) = c[1] /\ Tail(c) \in Seq(Results)
      /\ Len(c) \in Nat \ {0} /\ Len(Tail(c)) = Len(c) - 1 /\ Len(a) \in Nat
      /\ \A i \in 1 .. Len(c) - 1 : Tail(c)[i] = c[i + 1]
  OBVIOUS
<1>2. PICK d : d = Append(a, Head(c))
  OBVIOUS
<1>3. /\ d \in Seq(Results) /\ Len(d) = Len(a) + 1 /\ d[Len(a) + 1] = Head(c)
      /\ \A i \in 1 .. Len(a) : d[i] = a[i]
  BY <1>1, <1>2, AppendProperties
<1>4. PICK e : e = Tail(c)
  OBVIOUS
<1>5. <<>> \in Seq(Results) /\ Len(<<>>) = 0
  OBVIOUS
<1>6. PICK b : b = <<>>
  OBVIOUS
<1>7. L = LogOf(a, b, c, q) /\ M = LogOf(d, b, e, q) /\ N = LogOf(a, b, e, q)
  BY <1>2, <1>4, <1>6
<1> HIDE DEF L, M, N
<1>8. b \in Seq(Results) /\ Len(b) = 0 /\ e \in Seq(Results)
  BY <1>1, <1>4, <1>5, <1>6
<1>9. Spread(a, b, c, q, L) /\ Spread(d, b, e, q, M) /\ Spread(a, b, e, q, N)
  BY <1>3, <1>7, <1>8, LogSpread
<1>10. /\ Len(e) = Len(c) - 1
       /\ \A i \in 1 .. Len(c) - 1 : e[i] = c[i + 1]
  BY <1>1, <1>4
<1> DEFINE na == Len(a)
           nc == Len(c)
           A(k) == Answered(q[k])
<1>11. /\ na \in Nat /\ nc \in Nat \ {0} /\ Len(q) \in Nat /\ Len(e) = nc - 1
       /\ Len(L) = na + nc + Len(q) /\ Len(M) = Len(L) /\ Len(N) = Len(L) - 1
  BY <1>1, <1>3, <1>8, <1>9, <1>10 DEF Spread
<1>12. ASSUME NEW i \in 1 .. Len(L)
       PROVE  /\ L[i] = IF i <= na THEN a[i] ELSE IF i <= na + nc THEN c[i - na] ELSE A(i - na - nc)
              /\ M[i] = IF i <= na + 1 THEN d[i] ELSE IF i <= na + nc THEN e[i - na - 1]
                                                    ELSE A(i - na - nc)
  <2>1. i \in 1 .. Len(M) /\ i - na - 0 = i - na /\ i - (na + 1) - 0 = i - na - 1
        /\ na + 0 = na /\ (na + 1) + 0 = na + 1 /\ (na + 1) + (nc - 1) = na + nc
        /\ i - na - nc = i - (na + 1) - (nc - 1)
    BY <1>11
  <2>2. L[i] = IF i <= na THEN a[i] ELSE IF i <= na + nc THEN c[i - na] ELSE A(i - na - nc)
    BY <1>8, <1>9, <1>11, <2>1 DEF Spread
  <2>3. M[i] = IF i <= na + 1 THEN d[i] ELSE IF i <= na + nc THEN e[i - na - 1]
                                                    ELSE A(i - na - nc)
    BY <1>3, <1>8, <1>9, <1>11, <2>1 DEF Spread
  <2> QED
    BY <2>2, <2>3
<1>13. ASSUME NEW i \in 1 .. Len(N)
       PROVE  N[i] = IF i <= na THEN a[i] ELSE IF i <= na + nc - 1 THEN e[i - na]
                                          ELSE A(i - na - nc + 1)
    BY <1>8, <1>9, <1>11 DEF Spread
<1> HIDE DEF A
<1>14. ASSUME NEW i \in 1 .. Len(L) PROVE M[i] = L[i]
  <2>1. CASE i <= na \/ i = na + 1
    BY <1>1, <1>3, <1>11, <1>12, <2>1
  <2>2. CASE i > na + 1 /\ i <= na + nc
    <3>1. PICK k : k = i - na - 1
      OBVIOUS
    <3>2. k \in 1 .. nc - 1 /\ k + 1 = i - na
      BY <1>11, <2>2, <3>1
    <3>3. e[k] = c[k + 1]
      BY <1>10, <3>2
    <3> QED
      BY <1>11, <1>12, <2>2, <3>1, <3>2, <3>3
  <2>3. CASE i > na + nc
    BY <1>11, <1>12, <2>3
  <2> QED
    BY <1>11, <2>1, <2>2, <2>3
<1>15. Keeps(L, M, Len(L) + 1)
  BY <1>11, <1>14 DEF Keeps
<1>16. ASSUME Head(c).task = NoTask PROVE Keeps(L, N, Len(a) + 1)
  <2>1. L[na + 1] = Head(c)
    BY <1>1, <1>11, <1>12
  <2>2. ASSUME NEW i \in 1 .. Len(N) PROVE N[i] = IF i < na + 1 THEN L[i] ELSE L[i + 1]
    <3>1. CASE i <= na
      BY <1>11, <1>12, <1>13, <3>1
    <3>2. CASE i > na /\ i <= na + nc - 1
      <4>1. PICK k : k = i - na
        OBVIOUS
      <4>2. k \in 1 .. nc - 1 /\ k + 1 = (i + 1) - na /\ i + 1 \in 1 .. Len(L)
        BY <1>11, <3>2, <4>1
      <4>3. e[k] = c[k + 1]
        BY <1>10, <4>2
      <4> QED
        BY <1>11, <1>12, <1>13, <3>2, <4>1, <4>2, <4>3
    <3>3. CASE i > na + nc - 1
      BY <1>11, <1>12, <1>13, <3>3
    <3> QED
      BY <1>11, <3>1, <3>2, <3>3
  <2> QED
    BY <1>11, <1>16, <2>1, <2>2 DEF Keeps
<1> QED
  BY <1>15, <1>16 DEF L, M, N
\* drain() takes the first message,
LEMMA ReadMoves ==
    ASSUME NEW a \in Seq(Results), NEW b \in Seq(Results), NEW c \in Seq(Results),
           NEW q \in Seq(Messages), q # <<>>
    PROVE  LET L == LogOf(a, b, c, q)
               n == Len(a) + Len(b) + Len(c) IN
           /\ Keeps(L, LogOf(a, b, Append(c, Answered(Head(q))), Tail(q)), Len(L) + 1)
           /\ Head(q).type # "result" => Keeps(L, LogOf(a, b, c, Tail(q)), n + 1)
<1> DEFINE L == LogOf(a, b, c, q)
           M == LogOf(a, b, Append(c, Answered(Head(q))), Tail(q))
           N == LogOf(a, b, c, Tail(q))
           P(i) == IF i <= Len(a) THEN a[i]
                   ELSE IF i <= Len(a) + Len(b) THEN b[i - Len(a)] ELSE c[i - Len(a) - Len(b)]
           A(k) == Answered(q[k])
<1>1. /\ Head(q) \in Messages /\ Head(q) = q[1] /\ Tail(q) \in Seq(Messages)
      /\ Len(q) \in Nat \ {0} /\ Len(Tail(q)) = Len(q) - 1
      /\ \A i \in 1 .. Len(q) - 1 : Tail(q)[i] = q[i + 1]
  OBVIOUS
<1>2. Answered(Head(q)) \in Results
  BY <1>1 DEF Answered, Messages, Results, Statuses
<1>3. PICK d : d = Append(c, Answered(Head(q)))
  OBVIOUS
<1>4. /\ d \in Seq(Results) /\ Len(d) = Len(c) + 1 /\ d[Len(c) + 1] = Answered(Head(q))
      /\ \A i \in 1 .. Len(c) : d[i] = c[i]
  BY <1>2, <1>3, AppendProperties
<1>5. PICK e : e = Tail(q)
  OBVIOUS
<1>6. /\ e \in Seq(Messages) /\ Len(e) = Len(q) - 1
      /\ \A i \in 1 .. Len(q) - 1 : e[i] = q[i + 1]
  BY <1>1, <1>5
<1>7. L = LogOf(a, b, c, q) /\ M = LogOf(a, b, d, e) /\ N = LogOf(a, b, c, e)
  BY <1>3, <1>5
<1> HIDE DEF L, M, N
<1>8. Spread(a, b, c, q, L) /\ Spread(a, b, d, e, M) /\ Spread(a, b, c, e, N)
  BY <1>4, <1>6, <1>7, LogSpread
<1>0. PICK n : n = Len(a) + Len(b) + Len(c)
  OBVIOUS
<1>9. /\ Len(a) \in Nat /\ Len(b) \in Nat /\ Len(c) \in Nat /\ n \in Nat /\ Len(q) \in Nat \ {0}
      /\ Len(L) = n + Len(q) /\ Len(M) = Len(L) /\ Len(N) = Len(L) - 1
  BY <1>0, <1>1, <1>4, <1>6, <1>8 DEF Spread
<1>10. ASSUME NEW i \in 1 .. Len(L)
       PROVE  /\ L[i] = IF i <= n THEN P(i) ELSE A(i - n)
              /\ M[i] = IF i <= n THEN P(i) ELSE IF i = n + 1 THEN A(1)
                        ELSE Answered(e[i - n - 1])
  <2>1. /\ i - Len(a) - Len(b) - Len(c) = i - n
        /\ i - Len(a) - Len(b) - (Len(c) + 1) = i - n - 1
        /\ Len(a) + Len(b) + (Len(c) + 1) = n + 1
        /\ (n + 1) - Len(a) - Len(b) = Len(c) + 1
        /\ Len(a) + Len(b) + Len(c) = n
        /\ Len(a) + Len(b) <= n /\ Len(a) <= Len(a) + Len(b)
    BY <1>0, <1>9
  <2>2. /\ i \in 1 .. Len(M)
        /\ L[i] = IF i <= Len(a) THEN a[i]
                  ELSE IF i <= Len(a) + Len(b) THEN b[i - Len(a)]
                  ELSE IF i <= Len(a) + Len(b) + Len(c) THEN c[i - Len(a) - Len(b)]
                  ELSE A(i - Len(a) - Len(b) - Len(c))
        /\ M[i] = IF i <= Len(a) THEN a[i]
                  ELSE IF i <= Len(a) + Len(b) THEN b[i - Len(a)]
                  ELSE IF i <= Len(a) + Len(b) + Len(d) THEN d[i - Len(a) - Len(b)]
                  ELSE Answered(e[i - Len(a) - Len(b) - Len(d)])
    BY <1>8, <1>9 DEF Spread
  <2> HIDE DEF A
  <2>3. CASE i <= Len(a) + Len(b)
    BY <1>9, <2>1, <2>2, <2>3
  <2>4. CASE i > Len(a) + Len(b) /\ i <= n
    <3>1. i - Len(a) - Len(b) \in 1 .. Len(c)
      BY <1>9, <2>1, <2>4
    <3>2. d[i - Len(a) - Len(b)] = c[i - Len(a) - Len(b)]
      BY <1>4, <3>1
    <3>3. i > Len(a) /\ i <= Len(a) + Len(b) + Len(d)
      BY <1>4, <1>9, <2>1, <2>4
    <3> QED
      BY <2>1, <2>2, <2>4, <3>2, <3>3, <1>9
  <2>5. CASE i = n + 1
    <3>1. i > Len(a) /\ i > Len(a) + Len(b) /\ i > n /\ i <= Len(a) + Len(b) + Len(d)
      BY <1>0, <1>4, <1>9, <2>5
    <3>2. i - Len(a) - Len(b) = Len(c) + 1 /\ i - n = 1 /\ ~ i <= n
      BY <1>0, <1>9, <2>5
    <3>3. d[Len(c) + 1] = A(1)
      BY <1>1, <1>4 DEF A
    <3>4. M[i] = A(1)
      BY <2>2, <3>1, <3>2, <3>3
    <3>5. L[i] = A(1)
      <4>1. i > Len(a) + Len(b) + Len(c) /\ i - Len(a) - Len(b) - Len(c) = 1
        BY <1>0, <1>9, <2>5
      <4> QED
        BY <2>2, <3>1, <4>1
    <3> QED
      BY <2>5, <3>2, <3>4, <3>5
  <2>6. CASE i > n + 1
    <3>1. /\ i > Len(a) /\ i > Len(a) + Len(b) /\ i > Len(a) + Len(b) + Len(c)
          /\ i > Len(a) + Len(b) + Len(d)
      BY <1>0, <1>4, <1>9, <2>6
    <3>2. /\ i - Len(a) - Len(b) - Len(c) = i - n
          /\ i - Len(a) - Len(b) - Len(d) = i - n - 1
          /\ ~ i <= n /\ i # n + 1
      BY <1>0, <1>4, <1>9, <2>6
    <3>3. L[i] = A(i - n)
      BY <2>2, <3>1, <3>2
    <3>4. M[i] = Answered(e[i - n - 1])
      BY <2>2, <3>1, <3>2
    <3> QED
      BY <3>2, <3>3, <3>4
  <2> QED
    BY <1>9, <2>3, <2>4, <2>5, <2>6
<1>11. ASSUME NEW i \in 1 .. Len(N)
       PROVE  N[i] = IF i <= n THEN P(i) ELSE Answered(e[i - n])
  <2>1. /\ N[i] = IF i <= Len(a) THEN a[i]
                  ELSE IF i <= Len(a) + Len(b) THEN b[i - Len(a)]
                  ELSE IF i <= Len(a) + Len(b) + Len(c) THEN c[i - Len(a) - Len(b)]
                  ELSE Answered(e[i - Len(a) - Len(b) - Len(c)])
    BY <1>8, <1>9 DEF Spread
  <2>2. CASE i <= n
    BY <1>0, <1>9, <2>1, <2>2
  <2>3. CASE i > n
    <3>1. /\ i > Len(a) /\ i > Len(a) + Len(b) /\ i > Len(a) + Len(b) + Len(c)
          /\ i - Len(a) - Len(b) - Len(c) = i - n /\ ~ i <= n
      BY <1>0, <1>9, <2>3
    <3>2. N[i] = Answered(e[i - n])
      BY <2>1, <3>1
    <3> QED
      BY <3>1, <3>2
  <2> QED
    BY <1>9, <2>2, <2>3
<1>12. ASSUME NEW k \in 1 .. Len(q) - 1 PROVE Answered(e[k]) = A(k + 1)
  BY <1>6
<1> HIDE DEF P, A
<1>13. ASSUME NEW i \in 1 .. Len(L) PROVE M[i] = L[i]
  <2>1. CASE i <= n \/ i = n + 1
    BY <1>9, <1>10, <2>1
  <2>2. CASE i > n + 1
    <3>1. PICK k : k = i - n - 1
      OBVIOUS
    <3>2. k \in 1 .. Len(q) - 1 /\ k + 1 = i - n
      BY <1>9, <2>2, <3>1
    <3> QED
      BY <1>9, <1>10, <1>12, <2>2, <3>1, <3>2
  <2> QED
    BY <1>9, <2>1, <2>2
<1>14. Keeps(L, M, Len(L) + 1)
  BY <1>9, <1>13 DEF Keeps
<1>15. ASSUME Head(q).type # "result" PROVE Keeps(L, N, n + 1)
  <2>1. A(1).task = NoTask
    BY <1>1, <1>15 DEF A, Answered
  <2>2. L[n + 1].task = NoTask
    BY <1>9, <1>10, <2>1
  <2>3. ASSUME NEW i \in 1 .. Len(N) PROVE N[i] = IF i < n + 1 THEN L[i] ELSE L[i + 1]
    <3>1. CASE i <= n
      BY <1>9, <1>10, <1>11, <3>1
    <3>2. CASE i > n
      <4>1. PICK k : k = i - n
        OBVIOUS
      <4>2. k \in 1 .. Len(q) - 1 /\ k + 1 = (i + 1) - n /\ i + 1 \in 1 .. Len(L)
        BY <1>9, <3>2, <4>1
      <4> QED
        <5>1. N[i] = Answered(e[k]) /\ L[i + 1] = A((i + 1) - n)
          BY <1>9, <1>10, <1>11, <3>2, <4>1, <4>2
        <5>2. Answered(e[k]) = A(k + 1)
          BY <1>12, <4>2
        <5> QED
          BY <1>9, <3>2, <4>2, <5>1, <5>2
    <3> QED
      BY <1>9, <3>1, <3>2
  <2> QED
    BY <1>9, <2>2, <2>3 DEF Keeps
<1> QED
  BY <1>0, <1>14, <1>15 DEF L, M, N

\* submit() gives what it buffered to accept(), and what it drained to the buffer,
LEMMA BufferMoves ==
    ASSUME NEW a \in Seq(Results), NEW b \in Seq(Results), NEW c \in Seq(Results),
           NEW q \in Seq(Messages)
    PROVE  /\ LogOf(a, <<>>, b, q) = LogOf(a, b, <<>>, q)
           /\ LogOf(a, b \o c, <<>>, q) = LogOf(a, b, c, q)
<1> DEFINE u == [i \in 1 .. Len(q) |-> Answered(q[i])]
<1>1. u \in Seq(Results)
  <2>1. ASSUME NEW i \in 1 .. Len(q) PROVE Answered(q[i]) \in Results
    <3>1. q[i] \in Messages
      OBVIOUS
    <3> QED
      BY <3>1 DEF Answered, Messages, Results, Statuses
  <2>2. u \in [1 .. Len(q) -> Results] /\ Len(q) \in Nat
    BY <2>1
  <2> QED
    BY <2>2, IsASeq
<1>2. /\ LogOf(a, <<>>, b, q) = a \o (<<>> \o (b \o u))
      /\ LogOf(a, b, <<>>, q) = a \o (b \o (<<>> \o u))
      /\ LogOf(a, b \o c, <<>>, q) = a \o ((b \o c) \o (<<>> \o u))
      /\ LogOf(a, b, c, q) = a \o (b \o (c \o u))
  BY DEF LogOf
<1> HIDE DEF u
<1>3. b \o u \in Seq(Results)
  BY <1>1, ConcatProperties
<1>4. <<>> \o (b \o u) = b \o u
  BY <1>3, ConcatEmptySeq
<1>5. <<>> \o u = u
  BY <1>1, ConcatEmptySeq
<1>6. (b \o c) \o u = b \o (c \o u)
  BY <1>1, ConcatAssociative
<1> QED
  BY <1>2, <1>4, <1>5, <1>6

\* and a worker adds an answer of its own.
AppendsTo(L, M, e) ==
    /\ Len(M) = Len(L) + 1 /\ M[Len(L) + 1] = e
    /\ \A i \in 1 .. Len(L) : M[i] = L[i]

LEMMA EmitAppends ==
    ASSUME NEW a \in Seq(Results), NEW b \in Seq(Results), NEW c \in Seq(Results),
           NEW q \in Seq(Messages), NEW m \in Messages
    PROVE  AppendsTo(LogOf(a, b, c, q), LogOf(a, b, c, Append(q, m)), Answered(m))
<1> DEFINE L == LogOf(a, b, c, q)
           M == LogOf(a, b, c, Append(q, m))
<1>1. PICK d : d = Append(q, m)
  OBVIOUS
<1>2. /\ d \in Seq(Messages) /\ Len(d) = Len(q) + 1 /\ d[Len(q) + 1] = m
      /\ \A i \in 1 .. Len(q) : d[i] = q[i]
  BY <1>1, AppendProperties
<1>3. L = LogOf(a, b, c, q) /\ M = LogOf(a, b, c, d)
  BY <1>1
<1> HIDE DEF L, M
<1>4. Spread(a, b, c, q, L) /\ Spread(a, b, c, d, M)
  BY <1>2, <1>3, LogSpread
<1>5. PICK n : n = Len(a) + Len(b) + Len(c)
  OBVIOUS
<1>6. /\ Len(a) \in Nat /\ Len(b) \in Nat /\ Len(c) \in Nat /\ n \in Nat /\ Len(q) \in Nat
      /\ Len(L) = n + Len(q) /\ Len(M) = Len(L) + 1
  BY <1>2, <1>4, <1>5 DEF Spread
<1>7. M[Len(L) + 1] = Answered(d[Len(q) + 1])
  <2>1. /\ Len(L) + 1 \in 1 .. Len(M) /\ Len(L) + 1 > Len(a) /\ Len(L) + 1 > Len(a) + Len(b)
        /\ Len(L) + 1 > Len(a) + Len(b) + Len(c)
        /\ Len(L) + 1 - Len(a) - Len(b) - Len(c) = Len(q) + 1
    BY <1>5, <1>6
  <2> QED
    BY <1>4, <1>6, <2>1 DEF Spread
<1>8. ASSUME NEW i \in 1 .. Len(L) PROVE M[i] = L[i]
  <2>1. i \in 1 .. Len(M)
    BY <1>6
  <2>2. CASE i <= n
    BY <1>4, <1>5, <1>6, <2>1, <2>2 DEF Spread
  <2>3. CASE i > n
    <3>1. PICK k : k = i - Len(a) - Len(b) - Len(c)
      OBVIOUS
    <3>2. k \in 1 .. Len(q) /\ i > Len(a) /\ i > Len(a) + Len(b) /\ i > Len(a) + Len(b) + Len(c)
      BY <1>5, <1>6, <2>3, <3>1
    <3>3. d[k] = q[k]
      BY <1>2, <3>2
    <3> QED
      BY <1>4, <1>6, <2>1, <3>1, <3>2, <3>3 DEF Spread
  <2> QED
    BY <1>6, <2>2, <2>3
<1>9. AppendsTo(L, M, Answered(m))
  BY <1>2, <1>6, <1>7, <1>8 DEF AppendsTo
<1> QED
  BY <1>9 DEF L, M

-----------------------------------------------------------------------------
(* The log under the steps of the pool.                                    *)

LEMMA LogTyped == ASSUME TypeInv PROVE Log \in Seq(Results)
<1>1. /\ resultQueue \in Seq(Messages) /\ results \in Seq(Results)
      /\ buffered \in Seq(Results) /\ drained \in Seq(Results)
  BY DEF TypeInv, TypeOK, WorkerTypeOK, PoolTypeOK, BatchTypeOK
<1> QED
  BY <1>1, LogSpread DEF Spread, Log

LEMMA SameLog ==
    ASSUME Log \in Seq(Results), Log' = Log PROVE Keeps(Log, Log', Len(Log) + 1)
<1> DEFINE L == Log
<1>1. L \in Seq(Results) /\ Log' = L
  OBVIOUS
<1> HIDE DEF L
<1>2. Len(L) \in Nat
  BY <1>1
<1>3. Keeps(L, L, Len(L) + 1)
  BY <1>2 DEF Keeps
<1> QED
  BY <1>3 DEF L

\* A step that adds one answer: to a task that was live and is no more, or to none.
LEMMA GrowsLog ==
    ASSUME Log \in Seq(Results), LogFacts, NEW e \in Results,
           Len(Log') = Len(Log) + 1, Log'[Len(Log) + 1] = e,
           \A i \in 1 .. Len(Log) : Log'[i] = Log[i],
           UNCHANGED <<batch, expected>>, \A t \in Tasks : Live(t)' => Live(t),
           e.task # NoTask => e.task \in expected /\ Live(e.task)
                              /\ \A t \in Tasks : t = e.task => ~ Live(t)',
           e.task # NoTask /\ e.status = "canceled" =>
              \E j \in 1 .. Len(Log) : Success(Log[j], e.task[1]),
           \A w \in Workers : \A problem \in canceled'[w] :
              \/ problem \in canceled[w]
              \/ (\E k \in 1 .. batch : problem \in Problems(k)) /\ Success(e, problem)
    PROVE  LogFacts'
<1>1. Len(Log) \in Nat
  OBVIOUS
<1>2. ASSUME NEW i \in 1 .. Len(Log')
      PROVE  i \in 1 .. Len(Log) \/ i = Len(Log) + 1
  BY <1>1
<1>3. Settled(Log)'
  <2>1. ASSUME NEW i \in 1 .. Len(Log'), NEW t \in Tasks, Log'[i].task = t
        PROVE  t \in expected' /\ ~ Live(t)'
    <3>1. CASE i \in 1 .. Len(Log)
      <4>1. Log[i].task = t /\ t # NoTask
        BY <2>1, <3>1, NoTaskAssumption
      <4>2. t \in expected /\ ~ Live(t)
        BY <3>1, <4>1 DEF LogFacts, Settled, Live, InQueue
      <4> QED
        BY <4>2
    <3>2. CASE i = Len(Log) + 1
      BY <2>1, <3>2, NoTaskAssumption
    <3> QED
      BY <1>2, <3>1, <3>2
  <2>2. ASSUME NEW i \in 1 .. Len(Log')
        PROVE  (Log[i].task # NoTask => Log[i].task \in expected /\ ~ Live(Log[i].task))'
    <3>1. Log'[i].task \in Tasks \/ Log'[i].task = NoTask
      <4>1. Log'[i] \in Results
        <5>1. CASE i \in 1 .. Len(Log)
          <6>1. Log[i] \in Results
            BY <5>1
          <6> QED
            BY <5>1, <6>1
        <5> QED
          BY <1>2, <5>1
      <4> QED
        BY <4>1 DEF Results
    <3> QED
      BY <2>1, <3>1 DEF Live, InQueue
  <2> QED
    BY <2>2 DEF Settled
<1>4. LiveAwaited'
  BY DEF LogFacts, LiveAwaited
<1>5. OneEach(Log')
  <2> SUFFICES ASSUME NEW i \in 1 .. Len(Log'), NEW j \in 1 .. Len(Log'),
                      Log'[i].task = Log'[j].task, Log'[i].task # NoTask
               PROVE  i = j
    BY DEF OneEach
  <2>1. ASSUME NEW k \in 1 .. Len(Log), e.task # NoTask PROVE Log[k].task # e.task
    <3>1. Log[k].task # NoTask => ~ Live(Log[k].task)
      BY DEF LogFacts, Settled
    <3>2. Live(e.task)
      BY <2>1
    <3> QED
      BY <2>1, <3>1, <3>2 DEF Live, InQueue
  <2>2. CASE i \in 1 .. Len(Log) /\ j \in 1 .. Len(Log)
    BY <2>2 DEF LogFacts, OneEach
  <2>3. CASE i \in 1 .. Len(Log) /\ j = Len(Log) + 1
    BY <2>1, <2>3
  <2>4. CASE j \in 1 .. Len(Log) /\ i = Len(Log) + 1
    BY <2>1, <2>4
  <2> QED
    BY <1>2, <2>2, <2>3, <2>4
<1>6. InOrder(Log')
  <2> SUFFICES ASSUME NEW i \in 1 .. Len(Log'), Log'[i].task # NoTask,
                      Log'[i].status = "canceled"
               PROVE  \E j \in 1 .. i - 1 : Success(Log'[j], Log'[i].task[1])
    BY DEF InOrder
  <2>1. PICK j \in 1 .. i - 1 : j \in 1 .. Len(Log) /\ Success(Log[j], Log'[i].task[1])
    <3>1. CASE i \in 1 .. Len(Log)
      <4>1. PICK j \in 1 .. i - 1 : Success(Log[j], Log'[i].task[1])
        BY <3>1 DEF LogFacts, InOrder
      <4> QED
        BY <1>1, <3>1, <4>1
    <3>2. CASE i = Len(Log) + 1
      BY <1>1, <3>2
    <3> QED
      BY <1>2, <3>1, <3>2
  <2> QED
    BY <2>1
<1>7. CancelsTold(Log)'
  <2>1. ASSUME NEW w \in Workers, NEW problem \in canceled'[w]
        PROVE  /\ \E k \in 1 .. batch : problem \in Problems(k)
               /\ problem \in Problems(batch) =>
                    \E i \in 1 .. Len(Log') : Success(Log'[i], problem)
    <3>1. CASE problem \in canceled[w]
      <4>1. /\ \E k \in 1 .. batch : problem \in Problems(k)
            /\ problem \in Problems(batch) =>
                 \E i \in 1 .. Len(Log) : Success(Log[i], problem)
        BY <3>1 DEF LogFacts, CancelsTold
      <4>2. \A i \in 1 .. Len(Log) : i \in 1 .. Len(Log')
        BY <1>1
      <4> QED
        BY <4>1, <4>2
    <3>2. CASE (\E k \in 1 .. batch : problem \in Problems(k)) /\ Success(e, problem)
      <4>1. Len(Log) + 1 \in 1 .. Len(Log')
        BY <1>1
      <4> QED
        BY <3>2, <4>1
    <3> QED
      BY <2>1, <3>1, <3>2
  <2> QED
    BY <2>1 DEF CancelsTold, Problems
<1> QED
  BY <1>3, <1>4, <1>5, <1>6, <1>7 DEF LogFacts, OneEach, InOrder

\* A step after which no task is live or answered.
LEMMA EmptiesLog ==
    ASSUME \A i \in 1 .. Len(Log') : Log'[i].task = NoTask, \A t \in Tasks : ~ Live(t)',
           \A w \in Workers : \A problem \in canceled'[w] :
              /\ \E k \in 1 .. batch' : problem \in Problems(k)
              /\ problem \notin Problems(batch')
    PROVE  LogFacts'
<1>1. Settled(Log)' /\ LiveAwaited'
  BY DEF Settled, LiveAwaited
<1>2. OneEach(Log') /\ InOrder(Log')
  BY DEF OneEach, InOrder
<1>3. CancelsTold(Log)'
  BY DEF CancelsTold, Problems
<1> QED
  BY <1>1, <1>2, <1>3 DEF LogFacts, OneEach, InOrder
LEMMA QuietKeepsLog ==
    ASSUME TypeInv, LogFacts,
           UNCHANGED <<results, buffered, drained, resultQueue, canceled, batch, expected,
                       submitting, held, taskQueue>>
    PROVE  LogFacts'
<1>1. Log \in Seq(Results)
  BY LogTyped
<1>2. Log' = Log
  BY DEF Log
<1>3. Keeps(Log, Log', Len(Log) + 1) /\ Log' \in Seq(Results)
  BY <1>1, <1>2, SameLog
<1>4. \A t \in Tasks : Live(t)' => Live(t) \/ t \in expected' \ expected
  BY DEF Live, InQueue
<1> QED
  BY <1>1, <1>3, <1>4, KeepsLog

LEMMA SubmitKeepsLog ==
    ASSUME TypeInv, DeliveryInv, LogFacts, NEW t \in todo, Submit(t) PROVE LogFacts'
<1>1. /\ expected' = expected \cup {t} /\ submitting' = t
      /\ UNCHANGED <<results, buffered, drained, resultQueue, canceled, batch, held, taskQueue>>
  BY DEF Submit
<1>2. Log \in Seq(Results)
  BY LogTyped
<1>3. Log' = Log
  BY <1>1 DEF Log
<1>4. Keeps(Log, Log', Len(Log) + 1) /\ Log' \in Seq(Results)
  BY <1>2, <1>3, SameLog
<1>5. t \notin expected
  BY DEF DeliveryInv, BatchSplit
<1>6. \A u \in Tasks : Live(u)' => Live(u) \/ u \in expected' \ expected
  BY <1>1, <1>5 DEF Live, InQueue
<1> QED
  BY <1>1, <1>2, <1>4, <1>6, KeepsLog

LEMMA PutKeepsLog ==
    ASSUME TypeInv, HandedOn, LogFacts, Put PROVE LogFacts'
<1> DEFINE w == ShardOf(submitting)
<1>1. /\ taskQueue' = [taskQueue EXCEPT ![w] = Append(@, submitting)]
      /\ submitting' = NoTask /\ drained' = buffered /\ buffered' = <<>>
      /\ UNCHANGED <<results, resultQueue, canceled, batch, held, expected>>
  BY DEF Put
<1>2. drained = <<>> /\ submitting # NoTask
  BY DEF Put, HandedOn
<1>3. Log \in Seq(Results)
  BY LogTyped
<1>4. Log' = Log
  <2>1. /\ resultQueue \in Seq(Messages) /\ results \in Seq(Results)
        /\ buffered \in Seq(Results) /\ drained \in Seq(Results)
    BY DEF TypeInv, TypeOK, WorkerTypeOK, PoolTypeOK, BatchTypeOK
  <2>2. LogOf(results, <<>>, buffered, resultQueue) = LogOf(results, buffered, <<>>, resultQueue)
    BY <2>1, BufferMoves
  <2> QED
    BY <1>1, <1>2, <2>2 DEF Log
<1>5. Keeps(Log, Log', Len(Log) + 1) /\ Log' \in Seq(Results)
  BY <1>3, <1>4, SameLog
<1>6. ASSUME NEW u \in Tasks, Live(u)' PROVE Live(u)
  <2>1. submitting' # u
    BY <1>1, NoTaskAssumption
  <2>2. CASE \E v \in Workers : held'[v] = u
    BY <1>1, <2>2 DEF Live
  <2>3. ASSUME NEW v \in Workers, InQueue(v, u)' PROVE Live(u)
    <3>1. /\ taskQueue[v] \in Seq(Tasks \cup {NoTask}) /\ submitting \in Tasks \cup {NoTask}
          /\ \/ taskQueue'[v] = taskQueue[v]
             \/ taskQueue'[v] = Append(taskQueue[v], submitting)
      BY <1>1 DEF TypeInv, TypeOK, WorkerTypeOK, BatchTypeOK
    <3>2. PICK i \in 1 .. Len(taskQueue'[v]) : taskQueue'[v][i] = u
      BY <2>3 DEF InQueue
    <3>3. CASE taskQueue'[v] = taskQueue[v]
      BY <3>2, <3>3 DEF Live, InQueue
    <3>4. CASE taskQueue'[v] = Append(taskQueue[v], submitting)
      <4>1. /\ Len(taskQueue[v]) \in Nat /\ Len(taskQueue'[v]) = Len(taskQueue[v]) + 1
            /\ taskQueue'[v][Len(taskQueue[v]) + 1] = submitting
            /\ \A k \in 1 .. Len(taskQueue[v]) : taskQueue'[v][k] = taskQueue[v][k]
        BY <3>1, <3>4, AppendProperties, LenProperties
      <4>2. CASE i \in 1 .. Len(taskQueue[v])
        BY <3>2, <4>1, <4>2 DEF Live, InQueue
      <4>3. CASE i = Len(taskQueue[v]) + 1
        BY <3>2, <4>1, <4>3 DEF Live
      <4> QED
        BY <3>2, <4>1, <4>2, <4>3
    <3> QED
      BY <3>1, <3>3, <3>4
  <2> QED
    BY <1>6, <2>1, <2>2, <2>3 DEF Live
<1> QED
  BY <1>1, <1>3, <1>5, <1>6, KeepsLog

LEMMA AcceptKeepsLog ==
    ASSUME TypeInv, DeliveryInv, HandedOn, LogFacts, Accept PROVE LogFacts'
<1>1. /\ pc = "accept" /\ drained # <<>> /\ drained' = Tail(drained)
      /\ UNCHANGED <<buffered, resultQueue, canceled, batch, held, expected, submitting, taskQueue>>
      /\ IF IsNew(Head(drained)) THEN results' = Append(results, Head(drained))
                                 ELSE results' = results
  BY DEF Accept, workerVars
<1>2. buffered = <<>>
  BY <1>1 DEF HandedOn
<1>3. /\ resultQueue \in Seq(Messages) /\ results \in Seq(Results) /\ drained \in Seq(Results)
      /\ Log \in Seq(Results)
  BY LogTyped DEF TypeInv, TypeOK, WorkerTypeOK, PoolTypeOK, BatchTypeOK
<1>4. Log = LogOf(results, <<>>, drained, resultQueue)
  BY <1>2 DEF Log
<1>5. /\ Keeps(Log, LogOf(Append(results, Head(drained)), <<>>, Tail(drained), resultQueue),
               Len(Log) + 1)
      /\ Head(drained).task = NoTask =>
           Keeps(Log, LogOf(results, <<>>, Tail(drained), resultQueue), Len(results) + 1)
  BY <1>1, <1>3, <1>4, AcceptMoves
<1>6. Log' = LogOf(results', <<>>, Tail(drained), resultQueue)
  BY <1>1, <1>2 DEF Log
<1>7. Log' \in Seq(Results)
  <2>1. Tail(drained) \in Seq(Results) /\ Head(drained) \in Results
    BY <1>1, <1>3
  <2>2. results' \in Seq(Results) /\ <<>> \in Seq(Results)
    <3>1. CASE results' = Append(results, Head(drained))
      BY <1>3, <2>1, <3>1, AppendProperties
    <3>2. CASE results' = results
      BY <1>3, <3>2
    <3> QED
      BY <1>1, <3>1, <3>2
  <2> QED
    BY <1>3, <1>6, <2>1, <2>2, LogSpread DEF Spread
<1>8. \A t \in Tasks : Live(t)' => Live(t) \/ t \in expected' \ expected
  BY <1>1 DEF Live, InQueue
<1>9. CASE IsNew(Head(drained))
  <2>1. Keeps(Log, Log', Len(Log) + 1)
    BY <1>1, <1>5, <1>6, <1>9
  <2> QED
    BY <1>1, <1>3, <1>7, <1>8, <2>1, KeepsLog
<1>10. CASE ~ IsNew(Head(drained))
  <2>1. Spread(results, <<>>, drained, resultQueue, Log)
    <3>1. <<>> \in Seq(Results)
      OBVIOUS
    <3> QED
      BY <1>3, <1>4, <3>1, LogSpread
  <2>2. PICK b : b = <<>>
    OBVIOUS
  <2>3. Spread(results, b, drained, resultQueue, Log) /\ Len(b) = 0
    BY <2>1, <2>2
  <2>4. /\ Len(results) \in Nat /\ Len(drained) \in Nat \ {0} /\ Head(drained) = drained[1]
        /\ Len(resultQueue) \in Nat
    BY <1>1, <1>3
  <2>5. /\ Len(results) + 1 \in 1 .. Len(Log) /\ Log[Len(results) + 1] = Head(drained)
        /\ \A i \in 1 .. Len(results) : i \in 1 .. Len(Log) /\ Log[i] = results[i]
    BY <2>3, <2>4 DEF Spread
  <2>6. Head(drained).task = NoTask
    <3> SUFFICES ASSUME Head(drained).task # NoTask PROVE FALSE
      OBVIOUS
    <3>1. Head(drained).task \in expected
      BY <2>5 DEF LogFacts, Settled
    <3>2. Head(drained).task \in completed
      BY <1>10, <3>1 DEF IsNew
    <3>3. PICK i \in 1 .. Len(results) : results[i].task = Head(drained).task
      BY <3>2 DEF DeliveryInv, CompletedDelivered
    <3>4. i = Len(results) + 1
      BY <2>5, <3>3 DEF LogFacts, OneEach
    <3> QED
      BY <2>4, <3>4
  <2>7. Keeps(Log, Log', Len(results) + 1)
    BY <1>1, <1>5, <1>6, <1>10, <2>6
  <2> QED
    BY <1>1, <1>3, <1>7, <1>8, <2>7, KeepsLog
<1> QED
  BY <1>9, <1>10
LEMMA FullKeepsLog ==
    ASSUME TypeInv, Calm, LogFacts, FullReturns PROVE LogFacts'
<1>1. /\ buffered' = buffered \o drained /\ drained' = <<>>
      /\ UNCHANGED <<results, resultQueue, canceled, batch, held, expected, submitting, taskQueue>>
  BY DEF Calm, FullReturns, Extended, workerVars, batchVars
<1>2. Log \in Seq(Results)
  BY LogTyped
<1>3. Log' = Log
  <2>1. /\ resultQueue \in Seq(Messages) /\ results \in Seq(Results)
        /\ buffered \in Seq(Results) /\ drained \in Seq(Results)
    BY DEF TypeInv, TypeOK, WorkerTypeOK, PoolTypeOK, BatchTypeOK
  <2>2. LogOf(results, buffered \o drained, <<>>, resultQueue)
          = LogOf(results, buffered, drained, resultQueue)
    BY <2>1, BufferMoves
  <2> QED
    BY <1>1, <2>2 DEF Log
<1>4. Keeps(Log, Log', Len(Log) + 1) /\ Log' \in Seq(Results)
  BY <1>2, <1>3, SameLog
<1>5. \A t \in Tasks : Live(t)' => Live(t) \/ t \in expected' \ expected
  BY <1>1 DEF Live, InQueue
<1> QED
  BY <1>1, <1>2, <1>4, <1>5, KeepsLog

LEMMA ReadKeepsLog ==
    ASSUME TypeInv, TypeInv', LogFacts, Reads PROVE LogFacts'
<1>1. /\ resultQueue # <<>> /\ resultQueue' = Tail(resultQueue)
      /\ UNCHANGED <<results, buffered, canceled, batch, held, expected, submitting, taskQueue>>
      /\ \/ /\ Message.type = "result"
            /\ drained' = Append(drained, [task |-> Message.task, status |-> Message.status])
         \/ Message.type # "result" /\ drained' = drained
  <2>1. CASE ReceiveResult
    BY <2>1 DEF ReceiveResult, Receive, batchVars
  <2>2. CASE ReceiveStale \/ ReceiveWarmup \/ ReceiveStarted \/ ReceiveDone
    BY <2>2
    DEF ReceiveStale, ReceiveWarmup, ReceiveStarted, ReceiveDone, Receive, poolVars, batchVars
  <2> QED
    BY <2>1, <2>2 DEF Reads
<1>2. /\ resultQueue \in Seq(Messages) /\ results \in Seq(Results)
      /\ buffered \in Seq(Results) /\ drained \in Seq(Results)
  BY DEF TypeInv, TypeOK, WorkerTypeOK, PoolTypeOK, BatchTypeOK
<1>3. Log \in Seq(Results)
  BY LogTyped
<1>4. Log = LogOf(results, buffered, drained, resultQueue)
  BY DEF Log
<1>5. /\ Keeps(Log, LogOf(results, buffered, Append(drained, Answered(Message)), Tail(resultQueue)),
               Len(Log) + 1)
      /\ Message.type # "result" =>
           Keeps(Log, LogOf(results, buffered, drained, Tail(resultQueue)),
                 Len(results) + Len(buffered) + Len(drained) + 1)
  BY <1>1, <1>2, <1>4, ReadMoves DEF Message
<1>6. Log' = LogOf(results, buffered, drained', Tail(resultQueue))
  BY <1>1 DEF Log
<1>7. Log' \in Seq(Results)
  <2>1. /\ resultQueue' \in Seq(Messages) /\ results' \in Seq(Results)
        /\ buffered' \in Seq(Results) /\ drained' \in Seq(Results)
    BY DEF TypeInv, TypeOK, WorkerTypeOK, PoolTypeOK, BatchTypeOK
  <2> QED
    BY <2>1, LogSpread DEF Spread, Log
<1>8. PICK k : Keeps(Log, Log', k)
  <2>1. CASE Message.type = "result"
            /\ drained' = Append(drained, [task |-> Message.task, status |-> Message.status])
    <3>1. Answered(Message) = [task |-> Message.task, status |-> Message.status]
      BY <2>1 DEF Answered
    <3> QED
      BY <1>5, <1>6, <2>1, <3>1
  <2>2. CASE Message.type # "result" /\ drained' = drained
    BY <1>5, <1>6, <2>2
  <2> QED
    BY <1>1, <2>1, <2>2
<1>9. \A t \in Tasks : Live(t)' => Live(t) \/ t \in expected' \ expected
  BY <1>1 DEF Live, InQueue
<1> QED
  BY <1>1, <1>3, <1>7, <1>8, <1>9, KeepsLog

\* No answer is left of a batch that is done, or before the first.
LEMMA DoneLeavesNothing ==
    ASSUME TypeInv, DeliveryInv, LogFacts, completed = expected
    PROVE  /\ \A t \in Tasks : ~ Live(t)
           /\ \A i \in 1 .. Len(Log) : i > Len(results) => Log[i].task = NoTask
<1>1. /\ resultQueue \in Seq(Messages) /\ results \in Seq(Results)
      /\ buffered \in Seq(Results) /\ drained \in Seq(Results)
  BY DEF TypeInv, TypeOK, WorkerTypeOK, PoolTypeOK, BatchTypeOK
<1>2. Spread(results, buffered, drained, resultQueue, Log)
  BY <1>1, LogSpread DEF Log
<1>3. Len(results) \in Nat /\ \A i \in 1 .. Len(results) : i \in 1 .. Len(Log) /\ Log[i] = results[i]
  BY <1>2 DEF Spread
<1>4. ASSUME NEW t \in expected
      PROVE  \E i \in 1 .. Len(results) : i \in 1 .. Len(Log) /\ Log[i].task = t /\ t # NoTask
  <2>1. t \in completed /\ t # NoTask
    BY NoTaskAssumption DEF TypeInv, TypeOK, BatchTypeOK
  <2>2. PICK i \in 1 .. Len(results) : results[i].task = t
    BY <2>1 DEF DeliveryInv, CompletedDelivered
  <2> QED
    BY <1>3, <2>1, <2>2
<1>5. ASSUME NEW t \in Tasks, Live(t) PROVE FALSE
  <2>1. t \in expected
    BY <1>5 DEF LogFacts, LiveAwaited
  <2>2. PICK i \in 1 .. Len(results) : i \in 1 .. Len(Log) /\ Log[i].task = t /\ t # NoTask
    BY <1>4, <2>1
  <2> QED
    BY <1>5, <2>2 DEF LogFacts, Settled, Live, InQueue
<1>6. ASSUME NEW i \in 1 .. Len(Log), i > Len(results), Log[i].task # NoTask PROVE FALSE
  <2>1. Log[i].task \in expected
    BY <1>6 DEF LogFacts, Settled
  <2>2. PICK j \in 1 .. Len(results) : j \in 1 .. Len(Log) /\ Log[j].task = Log[i].task
    BY <1>4, <2>1
  <2>3. j = i
    BY <1>6, <2>2 DEF LogFacts, OneEach
  <2> QED
    BY <1>3, <1>6, <2>3
<1> QED
  BY <1>5, <1>6

LEMMA StartKeepsLog ==
    ASSUME TypeInv, DeliveryInv, HandedOn, LogFacts, StartMonitors PROVE LogFacts'
<1>1. /\ pc = "monitor" /\ caller = "start" /\ drained' = <<>>
      /\ UNCHANGED <<results, buffered, resultQueue, canceled, batch, held, expected, submitting,
                     taskQueue>>
  BY DEF StartMonitors, workerVars, batchVars
<1>2. expected = {} /\ completed = {} /\ buffered = <<>>
  BY <1>1 DEF HandedOn, DeliveryInv, CompletedDelivered
<1>3. /\ \A t \in Tasks : ~ Live(t)
      /\ \A i \in 1 .. Len(Log) : Log[i].task = NoTask
  BY <1>2, DoneLeavesNothing DEF LogFacts, Settled
<1>4. /\ resultQueue \in Seq(Messages) /\ results \in Seq(Results)
      /\ drained \in Seq(Results) /\ <<>> \in Seq(Results)
  BY DEF TypeInv, TypeOK, WorkerTypeOK, PoolTypeOK, BatchTypeOK
<1>5. results = <<>>
  <2>1. \A i \in 1 .. Len(results) : results[i].task \in completed
    BY DEF DeliveryInv, CompletedDelivered
  <2>2. Len(results) = 0
    <3>1. Len(results) \in Nat
      BY <1>4
    <3>2. 1 \notin 1 .. Len(results)
      BY <1>2, <2>1
    <3> QED
      BY <3>1, <3>2
  <2> QED
    BY <1>4, <2>2
<1>6. PICK b : b = <<>>
  OBVIOUS
<1>7. /\ Spread(b, b, drained, resultQueue, Log) /\ Spread(b, b, b, resultQueue, Log')
      /\ Len(b) = 0
  BY <1>1, <1>2, <1>4, <1>5, <1>6, LogSpread DEF Log
<1>8. ASSUME NEW i \in 1 .. Len(Log') PROVE Log'[i].task = NoTask
  <2>1. Len(drained) \in Nat /\ Len(resultQueue) \in Nat
    BY <1>4
  <2>2. Log'[i] = Answered(resultQueue[i]) /\ i \in 1 .. Len(resultQueue)
    BY <1>7, <1>8, <2>1 DEF Spread
  <2>3. PICK k : k = Len(drained) + i
    OBVIOUS
  <2>4. k \in 1 .. Len(Log) /\ k > Len(drained) /\ k - Len(drained) = i
    BY <1>7, <2>1, <2>2, <2>3 DEF Spread
  <2>5. Log[k] = Answered(resultQueue[i])
    BY <1>7, <2>1, <2>4 DEF Spread
  <2> QED
    BY <1>3, <2>2, <2>4, <2>5
<1>9. \A t \in Tasks : ~ Live(t)'
  BY <1>1, <1>3 DEF Live, InQueue
<1>10. ASSUME NEW w \in Workers, NEW problem \in canceled[w]
       PROVE  (\E k \in 1 .. batch : problem \in Problems(k)) /\ problem \notin Problems(batch)
  <2>1. /\ \E k \in 1 .. batch : problem \in Problems(k)
        /\ problem \in Problems(batch) => \E i \in 1 .. Len(Log) : Success(Log[i], problem)
    BY <1>10 DEF LogFacts, CancelsTold
  <2> QED
    BY <1>3, <2>1 DEF Success
<1>11. \A w \in Workers : \A problem \in canceled'[w] :
         (\E k \in 1 .. batch' : problem \in Problems(k)) /\ problem \notin Problems(batch')
  BY <1>1, <1>10 DEF Problems
<1> QED
  BY <1>8, <1>9, <1>11, EmptiesLog

\* The attempts at a problem are in one batch: what was canceled before is not called.
LEMMA CallKeepsLog ==
    ASSUME ProblemsApart, TypeInv, TypeInv', DeliveryInv, HandedOn, LogFacts, RunBatch
    PROVE  LogFacts'
<1>1. /\ pc \in {"down", "returned"} /\ batch < Len(Batches) /\ batch' = batch + 1
      /\ results' = <<>>
      /\ UNCHANGED <<held, canceled, taskQueue, resultQueue, submitting, drained, buffered>>
  BY DEF RunBatch
<1>2. completed = expected
  BY <1>1 DEF HandedOn, DeliveryInv, CompletedDelivered
<1>3. /\ resultQueue \in Seq(Messages) /\ results \in Seq(Results)
      /\ buffered \in Seq(Results) /\ drained \in Seq(Results)
      /\ <<>> \in Seq(Results) /\ batch \in Nat /\ Len(Batches) \in Nat
  BY BatchesAssumption DEF TypeInv, TypeOK, WorkerTypeOK, PoolTypeOK, BatchTypeOK
<1>4. /\ \A t \in Tasks : ~ Live(t)
      /\ \A i \in 1 .. Len(Log) : i > Len(results) => Log[i].task = NoTask
  BY <1>2, DoneLeavesNothing
<1>5. PICK a : a = <<>>
  OBVIOUS
<1>6. /\ Spread(results, buffered, drained, resultQueue, Log)
      /\ Spread(a, buffered, drained, resultQueue, Log') /\ Len(a) = 0
  BY <1>1, <1>3, <1>5, LogSpread DEF Log
<1>7. ASSUME NEW i \in 1 .. Len(Log') PROVE Log'[i].task = NoTask
  <2>1. /\ Len(results) \in Nat /\ Len(buffered) \in Nat /\ Len(drained) \in Nat
        /\ Len(resultQueue) \in Nat
    BY <1>3
  <2>2. PICK k : k = Len(results) + i
    OBVIOUS
  <2>3. k \in 1 .. Len(Log) /\ k > Len(results)
    BY <1>6, <2>1, <2>2 DEF Spread
  <2>4. Log[k] = Log'[i]
    <3>1. CASE i <= Len(buffered)
      <4>1. ~ i <= 0 /\ i <= 0 + Len(buffered) /\ k - Len(results) = i /\ ~ k <= Len(results)
            /\ k <= Len(results) + Len(buffered) /\ i - 0 = i
        BY <2>1, <2>2, <3>1
      <4> QED
        BY <1>6, <2>3, <4>1 DEF Spread
    <3>2. CASE i > Len(buffered) /\ i <= Len(buffered) + Len(drained)
      <4>1. /\ ~ i <= 0 /\ ~ i <= 0 + Len(buffered) /\ i <= 0 + Len(buffered) + Len(drained)
            /\ k - Len(results) - Len(buffered) = i - 0 - Len(buffered)
            /\ ~ k <= Len(results) /\ ~ k <= Len(results) + Len(buffered)
            /\ k <= Len(results) + Len(buffered) + Len(drained)
        BY <2>1, <2>2, <3>2
      <4> QED
        BY <1>6, <2>3, <4>1 DEF Spread
    <3>3. CASE i > Len(buffered) + Len(drained)
      <4>1. /\ ~ i <= 0 /\ ~ i <= 0 + Len(buffered) /\ ~ i <= 0 + Len(buffered) + Len(drained)
            /\ k - Len(results) - Len(buffered) - Len(drained) = i - 0 - Len(buffered) - Len(drained)
            /\ ~ k <= Len(results) /\ ~ k <= Len(results) + Len(buffered)
            /\ ~ k <= Len(results) + Len(buffered) + Len(drained)
        BY <2>1, <2>2, <3>3
      <4> QED
        BY <1>6, <2>3, <4>1 DEF Spread
    <3> QED
      BY <2>1, <3>1, <3>2, <3>3
  <2> QED
    BY <1>4, <2>3, <2>4
<1>8. \A t \in Tasks : ~ Live(t)'
  BY <1>1, <1>4 DEF Live, InQueue
<1>9. ASSUME NEW w \in Workers, NEW problem \in canceled[w]
      PROVE  /\ \E k \in 1 .. batch + 1 : problem \in Problems(k)
             /\ problem \notin Problems(batch + 1)
  <2>1. PICK k \in 1 .. batch : problem \in Problems(k)
    BY <1>9 DEF LogFacts, CancelsTold
  <2>2. k \in 1 .. Len(Batches) /\ batch + 1 \in 1 .. Len(Batches) /\ k # batch + 1
        /\ k \in 1 .. batch + 1
    BY <1>1, <1>3
  <2>3. problem \notin Problems(batch + 1)
    BY <2>1, <2>2 DEF ProblemsApart, Problems
  <2> QED
    BY <2>1, <2>2, <2>3
<1>10. \A w \in Workers : \A problem \in canceled'[w] :
         (\E k \in 1 .. batch' : problem \in Problems(k)) /\ problem \notin Problems(batch')
  BY <1>1, <1>9 DEF Problems
<1> QED
  BY <1>7, <1>8, <1>10, EmptiesLog

\* A task that a process holds is nowhere else.
LEMMA HeldOnce ==
    ASSUME CopyInv, NEW w \in Workers, NEW t \in Tasks, held[w] = t
    PROVE  /\ submitting # t
           /\ \A v \in Workers : ~ InQueue(v, t) /\ (held[v] = t => v = w)
<1>1. t # NoTask
  BY NoTaskAssumption
<1>2. ASSUME NEW v \in Workers
      PROVE  /\ \A i \in 1 .. Len(taskQueue[v]) : taskQueue[v][i] = t =>
                  v = ShardOf(t) /\ held[v] # t
             /\ held[v] = t => v = ShardOf(t) /\ submitting # t
  <2>1. /\ Copies(taskQueue[v], resultQueue, v, generation[v], inFlight[v],
                  held[v], state[v], requeued, submitting)
        /\ QueuePlaced(Unused, v, taskQueue[v]) /\ Placed(Unused, v, held[v])
    BY DEF CopyInv, CopiesApart, TasksPlaced
  <2> QED
    BY <1>1, <2>1 DEF Copies, QueuedOnce, InHandOnce, Taken, QueuePlaced, Placed
<1>3. w = ShardOf(t) /\ submitting # t
  BY <1>2
<1>4. \A v \in Workers : ~ InQueue(v, t)
  BY <1>2, <1>3 DEF InQueue
<1>5. \A v \in Workers : held[v] = t => v = w
  BY <1>2, <1>3
<1> QED
  BY <1>3, <1>4, <1>5

LEMMA TakeKeepsLog ==
    ASSUME TypeInv, LogFacts, NEW w \in Workers, Worker(w), Dequeue(w), Takes(w),
           Moves(w, {"idle"}, {"loaded"}, Head(taskQueue[w]))
    PROVE  LogFacts'
<1>1. /\ taskQueue[w] # <<>> /\ taskQueue' = [taskQueue EXCEPT ![w] = Tail(@)]
      /\ held'[w] = Head(taskQueue[w])
      /\ UNCHANGED <<canceled, resultQueue>>
  BY DEF Dequeue, Moves
<1>2. /\ \A v \in Workers \ {w} : held'[v] = held[v]
      /\ UNCHANGED <<results, buffered, drained, batch, expected, submitting>>
  BY WorkerSteps DEF poolVars
<1>3. Log \in Seq(Results)
  BY LogTyped
<1>4. Log' = Log
  BY <1>1, <1>2 DEF Log
<1>5. Keeps(Log, Log', Len(Log) + 1) /\ Log' \in Seq(Results)
  BY <1>3, <1>4, SameLog
<1> DEFINE d == taskQueue[w]
<1>6. d \in Seq(Tasks \cup {NoTask}) /\ d # <<>> /\ taskQueue'[w] = Tail(d)
      /\ \A v \in Workers \ {w} : taskQueue'[v] = taskQueue[v]
  BY <1>1 DEF TypeInv, TypeOK, WorkerTypeOK
<1> HIDE DEF d
<1>7. /\ Len(d) \in Nat \ {0} /\ Head(d) = d[1] /\ Len(Tail(d)) = Len(d) - 1
      /\ \A i \in 1 .. Len(Tail(d)) : Tail(d)[i] = d[i + 1]
  BY <1>6
<1>8. ASSUME NEW u \in Tasks, Live(u)' PROVE Live(u)
  <2>1. CASE submitting' = u
    BY <1>2, <2>1 DEF Live
  <2>2. ASSUME NEW v \in Workers, held'[v] = u PROVE Live(u)
    <3>1. CASE v = w
      <4>1. d[1] = u /\ 1 \in 1 .. Len(d)
        BY <1>1, <1>7, <2>2, <3>1 DEF d
      <4> QED
        BY <4>1 DEF Live, InQueue, d
    <3>2. CASE v # w
      BY <1>2, <2>2, <3>2 DEF Live
    <3> QED
      BY <3>1, <3>2
  <2>3. ASSUME NEW v \in Workers, InQueue(v, u)' PROVE Live(u)
    <3>1. PICK i \in 1 .. Len(taskQueue'[v]) : taskQueue'[v][i] = u
      BY <2>3 DEF InQueue
    <3>2. CASE v = w
      <4>1. i + 1 \in 1 .. Len(d) /\ d[i + 1] = u
        BY <1>6, <1>7, <3>1, <3>2
      <4> QED
        BY <4>1 DEF Live, InQueue, d
    <3>3. CASE v # w
      BY <1>6, <3>1, <3>3 DEF Live, InQueue
    <3> QED
      BY <3>2, <3>3
  <2> QED
    BY <1>8, <2>1, <2>2, <2>3 DEF Live
<1> QED
  BY <1>1, <1>2, <1>3, <1>5, <1>8, KeepsLog

LEMMA EmitGrowsLog ==
    ASSUME TypeInv, NEW m \in Messages, resultQueue' = Append(resultQueue, m),
           UNCHANGED <<results, buffered, drained>>
    PROVE  /\ Log \in Seq(Results) /\ Answered(m) \in Results
           /\ Len(Log') = Len(Log) + 1 /\ Log'[Len(Log) + 1] = Answered(m)
           /\ \A i \in 1 .. Len(Log) : Log'[i] = Log[i]
<1>1. /\ resultQueue \in Seq(Messages) /\ results \in Seq(Results)
      /\ buffered \in Seq(Results) /\ drained \in Seq(Results)
  BY DEF TypeInv, TypeOK, WorkerTypeOK, PoolTypeOK, BatchTypeOK
<1>2. Log' = LogOf(results, buffered, drained, Append(resultQueue, m))
  BY DEF Log
<1>3. Answered(m) \in Results
  BY DEF Answered, Messages, Results, Statuses
<1>4. /\ Len(Log') = Len(Log) + 1 /\ Log'[Len(Log) + 1] = Answered(m)
      /\ \A i \in 1 .. Len(Log) : Log'[i] = Log[i]
  <2>1. AppendsTo(LogOf(results, buffered, drained, resultQueue),
                  LogOf(results, buffered, drained, Append(resultQueue, m)), Answered(m))
    BY <1>1, EmitAppends
  <2>2. AppendsTo(Log, Log', Answered(m))
    BY <1>2, <2>1 DEF Log
  <2> QED
    BY <2>2 DEF AppendsTo
<1> QED
  BY <1>3, <1>4, LogTyped

LEMMA SignalKeepsLog ==
    ASSUME TypeInv, LogFacts, NEW w \in Workers, Worker(w), WarmUp(w) \/ EmitStarted(w),
           taskQueue' = taskQueue, held'[w] \in {held[w], NoTask},
           NEW m \in Messages, resultQueue' = Append(resultQueue, m), m.type # "result"
    PROVE  LogFacts'
<1>1. /\ \A v \in Workers \ {w} : held'[v] = held[v]
      /\ UNCHANGED <<results, buffered, drained, batch, expected, submitting, canceled>>
  BY WorkerSteps DEF WarmUp, EmitStarted, poolVars
<1>2. /\ Log \in Seq(Results) /\ Answered(m) \in Results
      /\ Len(Log') = Len(Log) + 1 /\ Log'[Len(Log) + 1] = Answered(m)
      /\ \A i \in 1 .. Len(Log) : Log'[i] = Log[i]
  BY <1>1, EmitGrowsLog
<1>3. Answered(m).task = NoTask
  BY DEF Answered
<1>4. \A t \in Tasks : Live(t)' => Live(t)
  BY <1>1, NoTaskAssumption DEF Live, InQueue
<1> QED
  BY <1>1, <1>2, <1>3, <1>4, GrowsLog

\* An answer is the first to its task, and cancels or is canceled with cause.
LEMMA FinishKeepsLog ==
    ASSUME TypeInv, CopyInv, DeliveryInv, HandedOn, LogFacts, pc \notin Ending,
           NEW w \in Workers, Worker(w), Finish(w)
    PROVE  LogFacts'
<1>1. /\ \A v \in Workers \ {w} : held'[v] = held[v]
      /\ UNCHANGED <<results, buffered, drained, batch, expected, submitting, taskQueue>>
  BY WorkerSteps DEF Finish, poolVars
<1>2. held[w] \in Tasks /\ Goto(w, "idle", NoTask) /\ WorkerTypeOK
  BY DEF Finish, TypeInv, TypeOK, HoldsTask
<1>3. held'[w] = NoTask
  BY <1>2, GotoType DEF States, LiveStates
<1>4. PICK status \in {"success", "failed", "canceled"} :
         /\ status = "canceled" <=> IsCanceled(w)
         /\ Emit(w, "result", held[w], status)
         /\ canceled' = IF Cancels(status)
                        THEN [canceled EXCEPT ![w] = @ \cup {held[w][1]}] ELSE canceled
  BY DEF Finish
<1>5. PICK m \in Messages : /\ resultQueue' = Append(resultQueue, m)
                            /\ m.type = "result" /\ m.task = held[w] /\ m.status = status
  <2>1. status \in Statuses /\ "result" \in MessageTypes /\ TypeOK
    BY DEF Statuses, MessageTypes, TypeInv
  <2> QED
    BY <1>2, <1>4, <2>1, EmittedMessage
<1> DEFINE e == Answered(m)
<1>0. PICK t \in Tasks : t = held[w]
  BY <1>2
<1>6. e.task = t /\ e.status = status /\ t # NoTask /\ t \in Tasks
  BY <1>0, <1>5, NoTaskAssumption DEF Answered
<1>7. /\ Log \in Seq(Results) /\ e \in Results
      /\ Len(Log') = Len(Log) + 1 /\ Log'[Len(Log) + 1] = e
      /\ \A i \in 1 .. Len(Log) : Log'[i] = Log[i]
  BY <1>1, <1>5, EmitGrowsLog
<1>8. Live(t) /\ t \in expected
  BY <1>0 DEF Live, LogFacts, LiveAwaited
<1>9. ~ Live(t)'
  <2>1. /\ submitting # t
        /\ \A v \in Workers : ~ InQueue(v, t) /\ (held[v] = t => v = w)
    BY <1>0, HeldOnce
  <2>2. submitting' # t
    BY <1>1, <2>1
  <2>3. \A v \in Workers : held'[v] # t
    BY <1>1, <1>3, <1>6, <2>1
  <2>4. \A v \in Workers : ~ \E i \in 1 .. Len(taskQueue'[v]) : taskQueue'[v][i] = t
    BY <1>1, <2>1 DEF InQueue
  <2> QED
    BY <2>2, <2>3, <2>4 DEF Live, InQueue
<1>10. \A u \in Tasks : Live(u)' => Live(u)
  BY <1>1, <1>3, NoTaskAssumption DEF Live, InQueue
<1>11. batch \in 1 .. batch /\ t[1] \in Problems(batch)
  <2>1. batch \in Nat /\ batch > 0
    <3>1. CASE pc \in Running
      BY <3>1 DEF DeliveryInv, OutcomeKnown, TypeInv, TypeOK, BatchTypeOK
    <3>2. CASE pc \notin Running
      <4>1. pc \in {"down", "returned"}
        BY <3>2 DEF Running, Ending, TypeInv, TypeOK, ControlTypeOK, PCs
      <4>2. completed = expected
        BY <4>1 DEF HandedOn, DeliveryInv, CompletedDelivered
      <4> QED
        BY <1>6, <1>8, <4>2, DoneLeavesNothing
    <3> QED
      BY <3>1, <3>2
  <2>2. t \in Batches[batch]
    BY <1>8, <2>1 DEF DeliveryInv, BatchSplit
  <2> QED
    BY <2>1, <2>2 DEF Problems
<1>12. ASSUME e.status = "canceled"
       PROVE  \E j \in 1 .. Len(Log) : Success(Log[j], e.task[1])
  <2>1. t[1] \in canceled[w]
    BY <1>0, <1>4, <1>6, <1>12 DEF IsCanceled
  <2> QED
    BY <1>6, <1>11, <2>1 DEF LogFacts, CancelsTold
<1>13. ASSUME NEW v \in Workers, NEW problem \in canceled'[v]
       PROVE  \/ problem \in canceled[v]
              \/ (\E k \in 1 .. batch : problem \in Problems(k)) /\ Success(e, problem)
  <2>1. CASE Cancels(status) /\ problem \notin canceled[v]
    <3>1. v = w /\ problem = t[1]
      BY <1>0, <1>2, <1>4, <1>13, <2>1 DEF WorkerTypeOK
    <3>2. status = "success"
      BY <2>1 DEF Cancels
    <3>3. Success(e, problem)
      BY <1>6, <3>1, <3>2 DEF Success
    <3> QED
      BY <1>11, <3>1, <3>3
  <2>2. CASE ~ Cancels(status)
    BY <1>4, <1>13, <2>2
  <2> QED
    BY <2>1, <2>2
<1>14. \A u \in Tasks : u = e.task => ~ Live(u)'
  BY <1>6, <1>9 DEF Live, InQueue
<1>15. Live(e.task) /\ e.task \in expected
  BY <1>6, <1>8 DEF Live, InQueue
<1> HIDE DEF e
<1> QED
  BY <1>1, <1>7, <1>10, <1>12, <1>13, <1>14, <1>15, GrowsLog
LEMMA WorkerKeepsLog ==
    ASSUME TypeInv, SpoolBacked, CopyInv, DeliveryInv, Calm, HandedOn, LogFacts, ~ Fault,
           pc \notin Ending, NEW w \in Workers, Worker(w)
    PROVE  LogFacts'
<1>1. /\ WarmUp(w) \/ Dequeue(w) \/ EmitStarted(w) \/ Finish(w)
      /\ \/ /\ Takes(w) /\ Moves(w, {"idle"}, {"loaded"}, Head(taskQueue[w]))
         \/ /\ taskQueue' = taskQueue
            /\ \E m \in Messages :
                 /\ resultQueue' = Append(resultQueue, m)
                 /\ \/ m.type = "warmup" /\ Moves(w, {"booting"}, {"idle"}, NoTask)
                    \/ m.type = "started" /\ Begins(w)
                    \/ m.type = "result" /\ m.task = held[w] /\ Answers(w)
  BY CalmWorkers
<1>2. CASE Finish(w)
  BY <1>2, FinishKeepsLog
<1>3. CASE Dequeue(w)
  <2>1. Takes(w) /\ Moves(w, {"idle"}, {"loaded"}, Head(taskQueue[w]))
    BY <1>1, <1>3 DEF Dequeue, Begins, Answers, Moves
  <2> QED
    BY <1>3, <2>1, TakeKeepsLog
<1>4. CASE WarmUp(w) \/ EmitStarted(w)
  <2>1. state[w] \in {"booting", "loaded"}
    BY <1>4 DEF WarmUp, EmitStarted
  <2>2. PICK m \in Messages :
          /\ resultQueue' = Append(resultQueue, m)
          /\ \/ m.type = "warmup" /\ Moves(w, {"booting"}, {"idle"}, NoTask)
             \/ m.type = "started" /\ Begins(w)
    BY <1>1, <2>1 DEF Takes, Answers, Moves
  <2>3. held'[w] \in {held[w], NoTask} /\ taskQueue' = taskQueue
    BY <1>1, <2>1, <2>2 DEF Begins, Moves
  <2> QED
    BY <1>4, <2>2, <2>3, SignalKeepsLog
<1> QED
  BY <1>1, <1>2, <1>3, <1>4

LEMMA NextKeepsLog ==
    ASSUME ProblemsApart, TypeInv, TypeInv', SpoolBacked, CopyInv, DeliveryInv, StrandInv,
           LogInv, [Next]_vars
    PROVE  LogInv'
<1> SUFFICES ASSUME faults' = 0, pc' \notin Ending PROVE LogFacts'
  BY DEF LogInv, LogFacts
<1>1. /\ Calm /\ HandedOn /\ ~ Fault
      /\ ~ ReceiveFatal /\ ~ MonitorDead /\ ~ MonitorStale /\ ~ Requeue /\ faults = 0
  BY CalmSteps
<1>2. CASE pc \in Ending
  <2>1. CASE \E w \in Workers : Worker(w)
    BY <1>2, <2>1 DEF Worker, poolVars
  <2>2. CASE UNCHANGED vars
    BY <1>2, <2>2 DEF vars, poolVars
  <2>3. CASE RunBatch \/ Close \/ (\E t \in todo : Submit(t)) \/ Put \/ Accept
             \/ FullReturns \/ CloseSignals \/ CloseJoins \/ Closed
    BY <1>2, <2>3
    DEF RunBatch, Close, Submit, Put, Accept, FullReturns, CloseSignals, CloseJoins,
        Closed, Ending
  <2>4. CASE Reads
    BY <1>2, <2>4
    DEF Reads, ReceiveStale, ReceiveWarmup, ReceiveStarted, ReceiveResult, ReceiveDone,
        Receive, Ending
  <2>5. CASE StartDrains \/ Started \/ PutFull \/ AllSubmitted \/ WaitDrains \/ Return
             \/ Accepted \/ DrainedAll \/ MonitorHealthy \/ DrainReturns
             \/ StartMonitors \/ StartContinues
    BY <1>2, <2>5
    DEF StartDrains, Started, PutFull, AllSubmitted, WaitDrains, Return, Accepted,
        DrainedAll, MonitorHealthy, DrainReturns, StartMonitors, StartContinues, Ending
  <2> QED
    BY <1>1, <2>1, <2>2, <2>3, <2>4, <2>5 DEF Next, Coordinator, Reads, Terminated
<1>3. CASE pc \notin Ending
  <2>1. LogFacts
    BY <1>1, <1>3 DEF LogInv, LogFacts
  <2>2. CASE \E w \in Workers : Worker(w)
    BY <1>1, <1>3, <2>1, <2>2, WorkerKeepsLog
  <2>3. CASE Reads
    BY <2>1, <2>3, ReadKeepsLog
  <2>4. CASE RunBatch
    BY <1>1, <2>1, <2>4, CallKeepsLog
  <2>5. CASE \E t \in todo : Submit(t)
    BY <2>1, <2>5, SubmitKeepsLog
  <2>6. CASE Put
    BY <1>1, <2>1, <2>6, PutKeepsLog
  <2>7. CASE Accept
    BY <1>1, <2>1, <2>7, AcceptKeepsLog
  <2>8. CASE FullReturns
    BY <1>1, <2>1, <2>8, FullKeepsLog
  <2>9. CASE StartMonitors
    BY <1>1, <2>1, <2>9, StartKeepsLog
  <2>10. CASE Close \/ CloseSignals \/ CloseJoins \/ Closed
    BY <2>10 DEF Close, CloseSignals, CloseJoins, Closed, Ending
  <2>11. CASE Passes \/ UNCHANGED vars
    <3>1. UNCHANGED <<results, buffered, drained, resultQueue, canceled, batch, expected,
                      submitting, held, taskQueue>>
      <4>1. CASE Passes
        BY <4>1, PassesBy
      <4>2. CASE UNCHANGED vars
        BY <4>2 DEF vars, workerVars, poolVars
      <4> QED
        BY <2>11, <4>1, <4>2
    <3> QED
      BY <2>1, <3>1, QuietKeepsLog
  <2>12. CASE StartContinues
    <3>1. pc' = "start"
      BY <1>1, <2>12 DEF StartContinues, Calm
    <3> QED
      BY <2>11, <2>12, <3>1 DEF Passes
  <2> QED
    BY <1>1, <2>2, <2>3, <2>4, <2>5, <2>6, <2>7, <2>8, <2>9, <2>10, <2>11, <2>12
    DEF Next, Coordinator, Passes, Reads, Terminated
<1> QED
  BY <1>2, <1>3

LEMMA InitLog == Init => LogInv
<1> SUFFICES ASSUME Init PROVE LogFacts
  BY DEF LogInv, LogFacts
<1>1. /\ results = <<>> /\ buffered = <<>> /\ drained = <<>> /\ resultQueue = <<>>
      /\ canceled = [w \in Workers |-> {}] /\ submitting = NoTask
      /\ held = [w \in Workers |-> NoTask] /\ taskQueue = [w \in Workers |-> <<>>]
  BY DEF Init, WorkerInit
<1>2. Len(Log) = 0 /\ Log \in Seq(Results)
  <2>1. PICK b : b = <<>>
    OBVIOUS
  <2>2. b \in Seq(Results) /\ b \in Seq(Messages) /\ Len(b) = 0
    BY <2>1
  <2>3. Spread(b, b, b, b, Log)
    BY <1>1, <2>1, <2>2, LogSpread DEF Log
  <2> QED
    BY <2>2, <2>3 DEF Spread
<1>3. Settled(Log) /\ OneEach(Log) /\ InOrder(Log)
  BY <1>2 DEF Settled, OneEach, InOrder
<1>4. CancelsTold(Log)
  BY <1>1 DEF CancelsTold
<1>5. LiveAwaited
  BY <1>1, NoTaskAssumption DEF LiveAwaited, Live, InQueue
<1> QED
  BY <1>3, <1>4, <1>5 DEF LogFacts

\* What holds of the log holds of the results delivered, and stays when the pool ends.
LEMMA DeliveredInOrder ==
    ASSUME TypeInv, DeliveryInv, LogInv, faults = 0, pc \notin Ending
    PROVE  CanceledAfterSuccess
<1>1. /\ resultQueue \in Seq(Messages) /\ results \in Seq(Results)
      /\ buffered \in Seq(Results) /\ drained \in Seq(Results)
  BY DEF TypeInv, TypeOK, WorkerTypeOK, PoolTypeOK, BatchTypeOK
<1>2. Spread(results, buffered, drained, resultQueue, Log)
  BY <1>1, LogSpread DEF Log
<1>3. \A i \in 1 .. Len(results) : i \in 1 .. Len(Log) /\ Log[i] = results[i]
  BY <1>2 DEF Spread
<1> SUFFICES ASSUME NEW i \in 1 .. Len(results), results[i].status = "canceled"
             PROVE  \E j \in 1 .. i - 1 : /\ results[j].status = "success"
                                          /\ results[j].task[1] = results[i].task[1]
  BY DEF CanceledAfterSuccess
<1>4. results[i].task # NoTask
  <2>1. results[i].task \in completed
    BY DEF DeliveryInv, CompletedDelivered
  <2> QED
    BY <2>1, NoTaskAssumption DEF TypeInv, TypeOK, BatchTypeOK
<1>5. PICK j \in 1 .. i - 1 : Success(Log[j], results[i].task[1])
  BY <1>3, <1>4 DEF LogInv, InOrder
<1>6. j \in 1 .. Len(results) /\ Log[j] = results[j]
  <2>1. Len(results) \in Nat
    BY <1>1
  <2>2. j \in 1 .. Len(results)
    BY <1>5, <2>1
  <2> QED
    BY <1>3, <2>2
<1> QED
  BY <1>5, <1>6 DEF Success

LEMMA OrderStays ==
    ASSUME [Next]_vars, pc' \in Ending, CanceledAfterSuccess PROVE CanceledAfterSuccess'
<1>1. results' = results
  <2>1. CASE \E w \in Workers : Worker(w)
    BY <2>1 DEF Worker, poolVars
  <2>2. CASE UNCHANGED vars
    BY <2>2 DEF vars, poolVars
  <2>3. CASE RunBatch \/ Accept
    BY <2>3 DEF RunBatch, Accept, controlVars, Ending
  <2>4. CASE Reads \/ ReceiveFatal \/ MonitorDead \/ MonitorStale \/ Requeue
    BY <2>4
    DEF Reads, ReceiveStale, ReceiveWarmup, ReceiveStarted, ReceiveResult, ReceiveDone,
        ReceiveFatal, MonitorDead, MonitorStale, Requeue, poolVars, batchVars
  <2>5. CASE Close \/ (\E t \in todo : Submit(t)) \/ Put \/ FullReturns \/ CloseSignals
             \/ CloseJoins \/ Closed \/ StartMonitors \/ StartContinues
    BY <2>5
    DEF Close, Submit, Put, FullReturns, CloseSignals, CloseJoins, Closed, StartMonitors,
        StartContinues, RaiseError, batchVars
  <2>6. CASE StartDrains \/ Started \/ PutFull \/ AllSubmitted \/ WaitDrains \/ Return
             \/ Accepted \/ DrainedAll \/ MonitorHealthy \/ DrainReturns
    BY <2>6
    DEF StartDrains, Started, PutFull, AllSubmitted, WaitDrains, Return, Accepted,
        DrainedAll, MonitorHealthy, DrainReturns, batchVars
  <2> QED
    BY <2>1, <2>2, <2>3, <2>4, <2>5, <2>6 DEF Next, Coordinator, Reads, Terminated
<1> QED
  BY <1>1 DEF CanceledAfterSuccess

LEMMA ApartIsDisjoint == ASSUME ProblemsApart PROVE DisjointBatches
  BY DEF ProblemsApart, DisjointBatches

\* Until the first fault run_batch reports an attempt as canceled only after a success
\* of the same problem, when the attempts at a problem are handed over in one batch.
THEOREM CancelsFollowSuccess ==
    ASSUME ProblemsApart PROVE Spec => [](faults = 0 => CanceledAfterSuccess)
<1> DEFINE Told == faults = 0 => CanceledAfterSuccess
           AtEnd == pc \in Ending
<1>0. DisjointBatches
  BY ApartIsDisjoint
<1>1. Init => DeliveryInv /\ SpoolInv /\ StrandInv /\ LogInv /\ Told
  <2>1. Init => Told
    BY DEF Init, CanceledAfterSuccess
  <2> QED
    BY <2>1, InitDelivers, InitSpool, InitStrand, InitLog
<1>2. TypeInv /\ DeliveryInv /\ [Next]_vars => DeliveryInv'
  BY NextKeepsDelivery
<1>3. TypeInv /\ StaleInv /\ CopyInv /\ SpoolInv /\ [Next]_vars => SpoolInv'
  BY NextKeepsSpool
<1>4. TypeInv /\ SpoolInv /\ DeliveryInv /\ StrandInv /\ [Next]_vars => StrandInv'
  BY NextKeepsStrand DEF SpoolInv
<1>5. TypeInv /\ TypeInv' /\ SpoolInv /\ CopyInv /\ DeliveryInv /\ StrandInv /\ LogInv
        /\ [Next]_vars => LogInv'
  BY NextKeepsLog DEF SpoolInv
<1>6. TypeInv /\ DeliveryInv /\ LogInv /\ ~ AtEnd => Told
  BY DeliveredInOrder
<1>7. TypeInv /\ Told /\ [Next]_vars /\ AtEnd' => Told'
  BY OrderStays, FaultsStay
<1>8. Spec => [](TypeInv /\ StaleInv /\ AccountInv /\ CopyInv)
  BY <1>0, CopyInvariant
<1> HIDE DEF Told, AtEnd
<1>9. Spec => []Told
  BY <1>1, <1>2, <1>3, <1>4, <1>5, <1>6, <1>7, <1>8, PTL DEF Spec
<1> QED
  BY <1>9 DEF Told

-----------------------------------------------------------------------------
(* The pool with hard deadlines (HardTimeoutPool).  The actions it shares  *)
(* with VerificationPool are steps of Next, and keep the invariants by     *)
(* what is proved above; what is proved here is that the actions of its    *)
(* own keep them too: workers spawned one after the other, a replacement   *)
(* spawned before its task is put back, deadlines, and the hand-over of    *)
(* buffered results.                                                       *)

\* The steps the two coordinators share.
Shared ==
    \/ Close \/ (\E t \in todo : Submit(t)) \/ Put \/ PutFull \/ AllSubmitted
    \/ WaitDrains \/ Return \/ Accept \/ Accepted \/ ReceiveStale \/ ReceiveWarmup
    \/ ReceiveStarted \/ ReceiveResult \/ ReceiveDone \/ DrainedAll
    \/ MonitorHealthy \/ StartMonitors \/ StartContinues \/ CloseSignals
    \/ CloseJoins \/ Closed \/ Terminated \/ \E w \in Workers : Worker(w)

\* The steps in which a worker is replaced.
Replaces ==
    \/ FatalReplaces \/ DeadReplaced \/ StaleReplaced
    \/ \E w \in Workers : WedgedTimesOut(w) \/ SlowTimesOut(w)

LEMMA StepsOfHardPool ==
    ASSUME [HardNext]_vars
    PROVE  \/ Shared \/ UNCHANGED vars \/ CallRunBatch \/ SerialWaits
           \/ SerialAdvances \/ Replaces \/ PutBack \/ HandsOver \/ FullHandsOver
  BY DEF HardNext, HardCoordinator, Shared, Replaces

LEMMA SharedSteps == ASSUME Shared PROVE Next
  BY DEF Shared, Next, Coordinator

-----------------------------------------------------------------------------
(* Type correctness.                                                       *)

\* A worker is replaced: by _restart_worker, or at its deadline.
LEMMA ReplaceKeepsTypes ==
    ASSUME TypeInv, NEW w \in Workers, NEW from \in {"drain", "monitor"},
           from = "monitor" => scan < NumWorkers,
           Kill(w), ReplaceWorker(w, from),
           resultQueue' \in Seq(Messages), faults' \in Nat,
           UNCHANGED <<drained, batchVars>>
    PROVE  TypeInv'
<1>1. TypeOK /\ HoldsTask /\ BatchTypeOK'
  BY DEF TypeInv, TypeOK, BatchTypeOK, batchVars
<1>2. UNCHANGED <<taskQueue, spool, buffered, caller>>
  BY DEF ReplaceWorker
<1> DEFINE t == inFlight[w]
<1>3. t \in Tasks \cup {NoTask}
  BY <1>1 DEF TypeOK, PoolTypeOK
<1>4. retries' \in [Tasks -> Nat]
  <2>1. retries' = IF t = NoTask THEN retries ELSE [retries EXCEPT ![t] = @ + 1]
    BY DEF ReplaceWorker
  <2> QED
    BY <1>1, <1>3, <2>1 DEF TypeOK, PoolTypeOK
<1>5. \/ Respawn(w)
      \/ /\ fatal' = TRUE /\ state' = [state EXCEPT ![w] = "exited"]
         /\ UNCHANGED <<canceled, generation, ready, restarts>>
  BY DEF ReplaceWorker
<1>6. \/ Continue(from) /\ UNCHANGED <<target, requeued>>
      \/ /\ pc' = "requeue" /\ site' = from
         /\ target' = w /\ requeued' = t /\ UNCHANGED scan
  BY DEF ReplaceWorker
<1>7. /\ restarts' \in [Workers -> Nat]
      /\ fatal' \in BOOLEAN
      /\ state' \in [Workers -> States]
      /\ canceled' \in [Workers -> SUBSET Nat]
      /\ generation' \in [Workers -> Nat]
      /\ ready' \in [Workers -> {"no"} \cup Statuses]
      /\ state'[w] \in {"exited", "booting"}
      /\ \A v \in Workers \ {w} : state'[v] = state[v]
  <2>1. CASE Respawn(w)
    BY <1>1, <2>1, RespawnType
  <2>2. CASE /\ fatal' = TRUE /\ state' = [state EXCEPT ![w] = "exited"]
             /\ UNCHANGED <<canceled, generation, ready, restarts>>
    BY <1>1, <2>2 DEF TypeOK, WorkerTypeOK, PoolTypeOK, States
  <2> QED
    BY <1>5, <2>1, <2>2
<1>8. WorkerTypeOK' /\ HoldsTask'
  BY <1>1, <1>2, <1>7, KillType DEF TypeOK, WorkerTypeOK, HoldsTask
<1>9. PoolTypeOK'
  BY <1>1, <1>2, <1>4, <1>7, KillType DEF TypeOK, PoolTypeOK
<1>10. ControlTypeOK' /\ RequeueReturns'
  <2>1. CASE Continue(from) /\ UNCHANGED <<target, requeued>>
    BY <1>1, <1>2, <2>1, ContinueType DEF TypeOK, ControlTypeOK, RequeueReturns
  <2>2. CASE /\ pc' = "requeue" /\ site' = from
             /\ target' = w /\ requeued' = t /\ UNCHANGED scan
    BY <1>1, <1>2, <1>3, <2>2 DEF TypeOK, ControlTypeOK, RequeueReturns, PCs
  <2> QED
    BY <1>6, <2>1, <2>2
<1> QED
  BY <1>1, <1>8, <1>9, <1>10 DEF TypeInv, TypeOK

LEMMA DeadlineKeepsTypes ==
    ASSUME TypeInv, NEW w \in Workers, DeadlinePassed(w), faults' \in Nat
    PROVE  TypeInv'
<1>1. TypeOK /\ HoldsTask /\ scan = w /\ scan < NumWorkers
  BY NumWorkersAssumption DEF TypeInv, DeadlinePassed, Workers
<1>2. Kill(w) /\ Continue("monitor")
  BY DEF DeadlinePassed
<1>3. /\ restarts' \in [Workers -> Nat]
      /\ state' \in [Workers -> States]
      /\ canceled' \in [Workers -> SUBSET Nat]
      /\ generation' \in [Workers -> Nat]
      /\ ready' \in [Workers -> {"no"} \cup Statuses]
      /\ state'[w] = "booting" /\ \A v \in Workers \ {w} : state'[v] = state[v]
  <2>1. restarts' \in [Workers -> Nat] /\ generation' \in [Workers -> Nat]
    BY <1>1 DEF DeadlinePassed, TypeOK, WorkerTypeOK, PoolTypeOK
  <2>2. canceled' \in [Workers -> SUBSET Nat]
    BY <1>1 DEF DeadlinePassed, TypeOK, WorkerTypeOK
  <2>3. ready' \in [Workers -> {"no"} \cup Statuses]
    BY <1>1 DEF DeadlinePassed, TypeOK, PoolTypeOK
  <2>4. /\ state' \in [Workers -> States]
        /\ state'[w] = "booting" /\ \A v \in Workers \ {w} : state'[v] = state[v]
    BY <1>1 DEF DeadlinePassed, TypeOK, WorkerTypeOK, States, LiveStates
  <2> QED
    BY <2>1, <2>2, <2>3, <2>4
<1>4. buffered' \in Seq(Results)
  <2>1. [task |-> inFlight[w], status |-> "failed"] \in Results
    BY <1>1 DEF Results, Statuses, TypeOK, PoolTypeOK
  <2> QED
    BY <1>1, <2>1 DEF DeadlinePassed, TypeOK, PoolTypeOK
<1>5. WorkerTypeOK' /\ HoldsTask'
  BY <1>1, <1>2, <1>3, KillType DEF DeadlinePassed, TypeOK, WorkerTypeOK, HoldsTask
<1>6. PoolTypeOK'
  BY <1>1, <1>2, <1>3, <1>4, KillType DEF DeadlinePassed, TypeOK, PoolTypeOK
<1>7. ControlTypeOK' /\ RequeueReturns'
  BY <1>1, <1>2, ContinueType DEF DeadlinePassed, TypeOK, ControlTypeOK, RequeueReturns
<1>8. BatchTypeOK'
  BY <1>1 DEF DeadlinePassed, TypeOK, BatchTypeOK, batchVars
<1> QED
  BY <1>5, <1>6, <1>7, <1>8 DEF TypeInv, TypeOK

LEMMA ReplacesKeepsTypes ==
    ASSUME TypeInv, Replaces PROVE TypeInv'
<1>1. TypeOK /\ faults \in Nat /\ resultQueue \in Seq(Messages)
  BY DEF TypeInv, TypeOK, WorkerTypeOK
<1>2. CASE FatalReplaces
  <2>1. resultQueue' \in Seq(Messages) /\ Message.worker \in Workers
    BY <1>1, <1>2, ReceiveType DEF FatalReplaces, MessageTypes
  <2>2. ReplaceWorker(Message.worker, "drain") /\ UNCHANGED <<faults, drained, batchVars>>
    BY <1>2 DEF FatalReplaces
  <2> QED
    BY <1>1, <2>1, <2>2, ReplaceKeepsTypes DEF ReplaceWorker
<1>3. CASE DeadReplaced \/ StaleReplaced
  <2>1. /\ ReplaceWorker(scan, "monitor") /\ UNCHANGED <<resultQueue, drained, batchVars>>
        /\ scan < NumWorkers
    BY <1>3 DEF DeadReplaced, StaleReplaced
  <2>2. scan \in Workers /\ faults' \in Nat
    BY <1>1, <1>3, <2>1, NumWorkersAssumption, FaultType
    DEF DeadReplaced, StaleReplaced, TypeOK, ControlTypeOK, Workers
  <2> QED
    BY <1>1, <2>1, <2>2, ReplaceKeepsTypes DEF ReplaceWorker
<1>4. ASSUME NEW w \in Workers, WedgedTimesOut(w) \/ SlowTimesOut(w) PROVE TypeInv'
  <2>1. DeadlinePassed(w) /\ (UNCHANGED faults \/ Fault)
    BY <1>4 DEF WedgedTimesOut, SlowTimesOut
  <2>2. faults' \in Nat
    BY <1>1, <2>1, FaultType DEF TypeOK
  <2> QED
    BY <2>1, <2>2, DeadlineKeepsTypes
<1> QED
  BY <1>2, <1>3, <1>4 DEF Replaces

\* Starting a batch, spawning the workers one by one, putting a task back, and the
\* end of drain().
LEMMA OwnKeepsTypes ==
    ASSUME TypeInv,
           \/ CallRunBatch \/ SerialWaits \/ SerialAdvances \/ PutBack
           \/ HandsOver \/ FullHandsOver
    PROVE  TypeInv'
<1>1. /\ TypeOK /\ HoldsTask /\ RequeueReturns /\ "booting" \in States
      /\ state \in [Workers -> States]
  BY DEF TypeInv, TypeOK, WorkerTypeOK, States, LiveStates
<1>2. ASSUME NEW w, state' = [state EXCEPT ![w] = "booting"]
      PROVE  /\ state' \in [Workers -> States]
             /\ \A v \in Workers : state'[v] \in {state[v], "booting"}
  BY <1>1, <1>2
<1>3. CASE CallRunBatch
  <2>1. batch \in Nat /\ batch < Len(Batches) /\ Len(Batches) \in Nat
    BY <1>1, <1>3, BatchesAssumption DEF CallRunBatch, TypeOK, BatchTypeOK
  <2>2. Batches[batch + 1] \subseteq Tasks /\ <<>> \in Seq(Results)
    BY <2>1, BatchesAssumption
  <2>3. BatchTypeOK'
    BY <1>1, <1>3, <2>1, <2>2 DEF CallRunBatch, TypeOK, BatchTypeOK
  <2>4. /\ state' \in [Workers -> States]
        /\ \A v \in Workers : state'[v] \in {state[v], "booting"}
    BY <1>1, <1>2, <1>3 DEF CallRunBatch
  <2> QED
    BY <1>3, <2>3, <2>4
    DEF CallRunBatch, TypeInv, TypeOK, WorkerTypeOK, PoolTypeOK, ControlTypeOK,
        HoldsTask, RequeueReturns, PCs
<1>4. CASE SerialWaits
  BY <1>4
  DEF SerialWaits, TypeInv, TypeOK, WorkerTypeOK, PoolTypeOK, ControlTypeOK,
      BatchTypeOK, HoldsTask, RequeueReturns, PCs, Callers, workerVars, batchVars
<1>5. CASE SerialAdvances
  <2>1. /\ state' \in [Workers -> States]
        /\ \A v \in Workers : state'[v] \in {state[v], "booting"}
    BY <1>1, <1>2, <1>5 DEF SerialAdvances
  <2>2. pc' \in {"start", "batch"}
    BY <1>5 DEF SerialAdvances
  <2> QED
    BY <1>5, <2>1, <2>2
    DEF SerialAdvances, TypeInv, TypeOK, WorkerTypeOK, PoolTypeOK, ControlTypeOK,
        BatchTypeOK, HoldsTask, RequeueReturns, PCs, batchVars
<1>6. CASE PutBack
  <2>1. /\ site \in {"drain", "monitor"} /\ (site = "monitor" => scan < NumWorkers)
        /\ Continue(site) /\ target \in Workers
    BY <1>1, <1>6 DEF PutBack, RequeueReturns, TypeOK, ControlTypeOK
  <2>2. taskQueue' \in [Workers -> Seq(Tasks \cup {NoTask})]
    <3>1. \/ taskQueue' = [taskQueue EXCEPT ![target] = Append(@, requeued)]
          \/ UNCHANGED taskQueue
      BY <1>6 DEF PutBack
    <3>2. /\ taskQueue \in [Workers -> Seq(Tasks \cup {NoTask})]
          /\ Append(taskQueue[target], requeued) \in Seq(Tasks \cup {NoTask})
      BY <1>1, <2>1 DEF TypeOK, WorkerTypeOK, ControlTypeOK
    <3> QED
      BY <3>1, <3>2
  <2>3. fatal' \in BOOLEAN
    BY <1>1, <1>6 DEF PutBack, TypeOK, PoolTypeOK
  <2>4. ControlTypeOK' /\ RequeueReturns'
    BY <1>1, <1>6, <2>1, ContinueType DEF PutBack, TypeOK, ControlTypeOK, RequeueReturns
  <2> QED
    BY <1>1, <1>6, <2>2, <2>3, <2>4
    DEF PutBack, TypeInv, TypeOK, WorkerTypeOK, PoolTypeOK, BatchTypeOK, HoldsTask,
        batchVars
<1>7. CASE HandsOver \/ FullHandsOver
  <2>1. Flushed \in Seq(Results) /\ <<>> \in Seq(Results) /\ drained \in Seq(Results)
    BY <1>1 DEF Flushed, TypeOK, PoolTypeOK
  <2>2. buffered' \in Seq(Results) /\ drained' \in Seq(Results)
    BY <1>7, <2>1 DEF HandsOver, FullHandsOver
  <2>3. ControlTypeOK' /\ BatchTypeOK' /\ RequeueReturns'
    BY <1>1, <1>7, NumWorkersAssumption
    DEF HandsOver, FullHandsOver, RaiseError, batchVars, TypeOK, ControlTypeOK,
        BatchTypeOK, RequeueReturns, PCs, Callers
  <2> QED
    BY <1>1, <1>7, <2>2, <2>3
    DEF HandsOver, FullHandsOver, workerVars, TypeInv, TypeOK, WorkerTypeOK,
        PoolTypeOK, HoldsTask
<1> QED
  BY <1>3, <1>4, <1>5, <1>6, <1>7

LEMMA HardKeepsTypes ==
    ASSUME TypeInv, [HardNext]_vars PROVE TypeInv'
<1>1. CASE Shared \/ UNCHANGED vars
  BY <1>1, SharedSteps, NextKeepsTypes
<1> QED
  BY <1>1, StepsOfHardPool, ReplacesKeepsTypes, OwnKeepsTypes

\* Every state of the pool with hard deadlines is well typed, the failed results it
\* makes up itself included.
THEOREM HardTypeCorrect == HardSpec => []TypeOK
<1>1. TypeInv /\ [HardNext]_vars => TypeInv'
  BY HardKeepsTypes
<1>2. TypeInv => TypeOK
  BY DEF TypeInv
<1> QED
  BY <1>1, <1>2, InitTypes, PTL DEF HardSpec
-----------------------------------------------------------------------------
(* A worker is replaced: the same as in the other coordinator, but that its *)
(* successor may run before the task is put back.                          *)

LEMMA ReplaceRestarts ==
    ASSUME TypeOK, NEW w \in Workers, NEW from, ReplaceWorker(w, from)
    PROVE  Restarts(w, from)
<1>1. Kill(w) /\ UNCHANGED <<taskQueue, spool, caller>>
  BY DEF ReplaceWorker
<1>2. \/ pc' = from /\ UNCHANGED <<target, requeued>>
      \/ /\ pc' = "requeue" /\ target' = w
         /\ inFlight[w] # NoTask /\ requeued' = inFlight[w]
  BY DEF ReplaceWorker, Continue
<1>3. \/ Respawn(w)
      \/ state' = [state EXCEPT ![w] = "exited"] /\ UNCHANGED generation
  BY DEF ReplaceWorker
<1>4. Replaced(w)
  <2>1. CASE Respawn(w)
    BY <2>1, RespawnReplaces
  <2>2. CASE state' = [state EXCEPT ![w] = "exited"] /\ UNCHANGED generation
    BY <2>2 DEF Replaced, TypeOK, WorkerTypeOK
  <2> QED
    BY <1>3, <2>1, <2>2
<1>5. held'[w] = NoTask
  BY <1>1 DEF Kill, TypeOK, WorkerTypeOK
<1> QED
  BY <1>1, <1>2, <1>4, <1>5, KillType DEF Restarts

LEMMA DeadlineRestarts ==
    ASSUME TypeOK, NEW w \in Workers, DeadlinePassed(w)
    PROVE  Restarts(w, "monitor")
<1>1. Kill(w) /\ UNCHANGED <<taskQueue, spool, caller, target, requeued>> /\ pc' = "monitor"
  BY DEF DeadlinePassed, Continue
<1>2. /\ generation' = [generation EXCEPT ![w] = @ + 1]
      /\ state' = [state EXCEPT ![w] = "booting"]
  BY DEF DeadlinePassed
<1>3. Replaced(w)
  BY <1>2 DEF Replaced, TypeOK, WorkerTypeOK
<1>4. held'[w] = NoTask
  BY <1>1 DEF Kill, TypeOK, WorkerTypeOK
<1> QED
  BY <1>1, <1>3, <1>4, KillType DEF Restarts

LEMMA HardRestartCalls ==
    ASSUME TypeOK, Replaces PROVE FatalRestarts \/ MonitorRestarts
<1>1. CASE FatalReplaces
  <2>1. Message.worker \in Workers
    BY <1>1, ReceiveType DEF FatalReplaces, MessageTypes
  <2> QED
    BY <1>1, <2>1, ReplaceRestarts DEF FatalReplaces, FatalRestarts
<1>2. CASE DeadReplaced \/ StaleReplaced
  <2>1. /\ pc = "monitor" /\ scan < NumWorkers
        /\ ReplaceWorker(scan, "monitor") /\ UNCHANGED <<resultQueue, batchVars>>
    BY <1>2 DEF DeadReplaced, StaleReplaced
  <2>2. scan \in Workers
    BY <2>1, NumWorkersAssumption DEF TypeOK, ControlTypeOK, Workers
  <2> QED
    BY <2>1, <2>2, ReplaceRestarts DEF MonitorRestarts
<1>3. ASSUME NEW w \in Workers, WedgedTimesOut(w) \/ SlowTimesOut(w)
      PROVE  MonitorRestarts
  <2>1. DeadlinePassed(w)
    BY <1>3 DEF WedgedTimesOut, SlowTimesOut
  <2>2. pc = "monitor" /\ scan = w /\ UNCHANGED <<resultQueue, batchVars>>
    BY <2>1 DEF DeadlinePassed
  <2> QED
    BY <2>1, <2>2, DeadlineRestarts DEF MonitorRestarts
<1> QED
  BY <1>1, <1>2, <1>3 DEF Replaces

\* The other steps of its own touch neither a message nor what is in flight.
Bystands ==
    /\ UNCHANGED <<resultQueue, generation, inFlight, held, canceled>>
    /\ pc' # "requeue" /\ pc \notin {"close", "join", "closed"}
    /\ pc' \notin {"down", "closed"}

LEMMA OwnBystands ==
    ASSUME TypeInv,
           \/ CallRunBatch \/ SerialWaits \/ SerialAdvances \/ PutBack
           \/ HandsOver \/ FullHandsOver
    PROVE  Bystands
<1>1. CASE CallRunBatch \/ SerialWaits \/ SerialAdvances \/ HandsOver \/ FullHandsOver
  BY <1>1
  DEF CallRunBatch, SerialWaits, SerialAdvances, HandsOver, FullHandsOver, RaiseError,
      workerVars, Bystands
<1>2. CASE PutBack
  <2>1. pc' \in {"drain", "monitor"}
    BY <1>2 DEF PutBack, Continue, TypeInv, RequeueReturns
  <2> QED
    BY <1>2, <2>1 DEF PutBack, Bystands
<1> QED
  BY <1>1, <1>2

LEMMA HardKeepsOrder ==
    ASSUME TypeInv, StaleInv, [HardNext]_vars PROVE StaleInv'
<1>1. TypeOK
  BY DEF TypeInv
<1>2. CASE Shared \/ UNCHANGED vars
  BY <1>2, SharedSteps, NextKeepsOrder
<1>3. CASE Replaces
  BY <1>1, <1>3, HardRestartCalls, FatalKeepsOrder, MonitorKeepsOrder
<1>4. CASE \/ CallRunBatch \/ SerialWaits \/ SerialAdvances \/ PutBack
           \/ HandsOver \/ FullHandsOver
  BY <1>1, <1>4, OwnBystands, QuietKeepsOrder DEF Bystands
<1> QED
  BY <1>2, <1>3, <1>4, StepsOfHardPool

-----------------------------------------------------------------------------
(* start() spawns the workers in order.                                    *)

\* The worker after the newest one has not been spawned, and all before it have.
LEMMA NewestIsNext ==
    ASSUME TypeOK, SpawnedInOrder, Unstarted # {}
    PROVE  /\ Newest + 1 \in Workers /\ state[Newest + 1] = "none"
           /\ \A v \in Workers : v < Newest + 1 => state[v] # "none"
<1> DEFINE n == Cardinality(Unstarted)
           k == NumWorkers - n
<1>1. NumWorkers \in Nat /\ Workers = 0 .. NumWorkers - 1
  BY NumWorkersAssumption DEF Workers
<1>2. IsFiniteSet(Workers) /\ Cardinality(Workers) = NumWorkers
  BY <1>1, FS_Interval
<1>3. Unstarted \subseteq Workers
  BY DEF Unstarted
<1>4. n \in Nat /\ n <= NumWorkers /\ n # 0
  BY <1>2, <1>3, FS_Subset, FS_CardinalityType, FS_EmptySet
<1>5. k \in Workers /\ Newest + 1 = k
  BY <1>1, <1>4 DEF Newest
<1> HIDE DEF n
<1>6. state[k] = "none"
  <2> SUFFICES ASSUME state[k] # "none" PROVE FALSE
    OBVIOUS
  <2>1. ASSUME NEW v \in Unstarted PROVE v \in k + 1 .. NumWorkers - 1
    <3>1. v \in Workers /\ ~(v < k) /\ v # k
      BY <1>5, <2>1 DEF SpawnedInOrder, Unstarted
    <3> QED
      BY <1>1, <1>4, <3>1
  <2>2. /\ IsFiniteSet(k + 1 .. NumWorkers - 1)
        /\ Cardinality(k + 1 .. NumWorkers - 1) = n - 1
    <3>1. /\ k + 1 \in Int /\ NumWorkers - 1 \in Int
          /\ ~(k + 1 > NumWorkers - 1) => NumWorkers - 1 - (k + 1) + 1 = n - 1
          /\ k + 1 > NumWorkers - 1 => 0 = n - 1
      BY <1>1, <1>4
    <3> HIDE DEF k
    <3> QED
      BY <3>1, FS_Interval
  <2>3. Cardinality(Unstarted) <= n - 1
    BY <2>1, <2>2, FS_Subset
  <2> QED
    BY <1>4, <2>3 DEF n
<1>7. ASSUME NEW v \in Workers, v < k, state[v] = "none" PROVE FALSE
  <2>1. ASSUME NEW u \in v .. NumWorkers - 1 PROVE u \in Unstarted
    <3>1. u \in Workers /\ (v < u \/ v = u)
      BY <1>1, <1>7, <2>1
    <3> QED
      BY <1>7, <3>1 DEF SpawnedInOrder, Unstarted
  <2>2. Cardinality(v .. NumWorkers - 1) = NumWorkers - v
    BY <1>1, <1>4, <1>7, FS_Interval
  <2>3. NumWorkers - v <= n
    <3>1. v .. NumWorkers - 1 \subseteq Unstarted /\ IsFiniteSet(Unstarted)
      BY <1>2, <1>3, <2>1, FS_Subset
    <3>2. Cardinality(v .. NumWorkers - 1) <= Cardinality(Unstarted)
      BY <3>1, FS_Subset
    <3> QED
      BY <2>2, <3>2 DEF n
  <2> QED
    BY <1>1, <1>4, <1>7, <2>3
<1> QED
  BY <1>5, <1>6, <1>7
\* No other step spawns a worker or forgets one, but that of close().
LEMMA SharedSpawnsNone ==
    ASSUME TypeOK, Shared
    PROVE  \/ \A v \in Workers : state'[v] = "none" <=> state[v] = "none"
           \/ \A v \in Workers : state'[v] = "none"
<1>1. ASSUME NEW w \in Workers, Worker(w)
      PROVE  \A v \in Workers : state'[v] = "none" <=> state[v] = "none"
  <2>1. ASSUME NEW st \in States \ {"none"}, NEW task, Goto(w, st, task),
               state[w] # "none"
        PROVE  \A v \in Workers : state'[v] = "none" <=> state[v] = "none"
    BY <2>1 DEF Goto, TypeOK, WorkerTypeOK
  <2>2. CASE WarmUp(w) \/ WarmUpFails(w) \/ Dequeue(w)
    BY <2>1, <2>2 DEF WarmUp, WarmUpFails, Dequeue, States, LiveStates
  <2>3. CASE EmitStarted(w) \/ Finish(w) \/ Raise(w) \/ Hang(w)
    BY <2>1, <2>3 DEF EmitStarted, Finish, Raise, Hang, States, LiveStates
  <2>4. CASE EmitFatal(w) \/ EmitDone(w) \/ Crash(w)
    BY <2>1, <2>4 DEF EmitFatal, EmitDone, Crash, Alive, States, LiveStates
  <2> QED
    BY <1>1, <2>2, <2>3, <2>4 DEF Worker, WorkerProgress, WorkerFault
<1>2. CASE CloseJoins
  <2>1. UNCHANGED state \/ (Alive(scan) /\ state' = [state EXCEPT ![scan] = "exited"])
    BY <1>2 DEF CloseJoins, Goto
  <2> QED
    BY <2>1 DEF TypeOK, WorkerTypeOK, Alive, LiveStates
<1>3. CASE Closed
  BY <1>3 DEF Closed
<1>4. CASE \/ Close \/ (\E t \in todo : Submit(t)) \/ Put \/ PutFull \/ AllSubmitted
           \/ WaitDrains \/ Return \/ Accept \/ Accepted \/ ReceiveStale \/ ReceiveWarmup
           \/ ReceiveStarted \/ ReceiveResult \/ ReceiveDone \/ DrainedAll
           \/ MonitorHealthy \/ StartMonitors \/ StartContinues \/ CloseSignals
           \/ Terminated
  <2>1. UNCHANGED state
    BY <1>4
    DEF Close, Submit, Put, PutFull, AllSubmitted, WaitDrains, Return, Accept, Accepted,
        ReceiveStale, ReceiveWarmup, ReceiveStarted, ReceiveResult, ReceiveDone,
        DrainedAll, MonitorHealthy, StartMonitors, StartContinues, CloseSignals,
        Terminated, vars, workerVars
  <2> QED
    BY <2>1
<1> QED
  BY <1>1, <1>2, <1>3, <1>4 DEF Shared

\* What a step of its own that spawns a worker does: the next one in the order.
LEMMA OwnSpawns ==
    ASSUME TypeOK, AccountInv, SpawnedInOrder, CallRunBatch \/ SerialAdvances
    PROVE  \/ UNCHANGED state
           \/ \E w \in Workers :
                /\ state[w] = "none" /\ state' = [state EXCEPT ![w] = "booting"]
                /\ \A v \in Workers : v < w => state[v] # "none"
<1>1. CASE CallRunBatch
  <2>1. CASE UNCHANGED state
    BY <2>1
  <2>2. CASE pc = "down" /\ state' = [state EXCEPT ![0] = "booting"]
    <3>1. 0 \in Workers /\ \A v \in Workers : ~(v < 0)
      BY NumWorkersAssumption DEF Workers
    <3>2. state[0] = "none"
      BY <2>2, <3>1 DEF AccountInv, SpawnedFirst
    <3> QED
      BY <2>2, <3>1, <3>2
  <2> QED
    BY <1>1, <2>1, <2>2 DEF CallRunBatch
<1>2. CASE SerialAdvances
  <2>1. CASE UNCHANGED state
    BY <2>1
  <2>2. CASE Unstarted # {} /\ state' = [state EXCEPT ![Newest + 1] = "booting"]
    BY <2>2, NewestIsNext
  <2> QED
    BY <1>2, <2>1, <2>2 DEF SerialAdvances
<1> QED
  BY <1>1, <1>2

\* Only a worker that was spawned is replaced: it is alive, has exited or has sent
\* a message.
LEMMA SpawnedIsReplaced ==
    ASSUME TypeOK, AccountInv, Replaces
    PROVE  \E w \in Workers : Replaced(w) /\ state[w] # "none"
<1>1. CASE FatalReplaces
  <2>1. /\ Message.worker \in Workers /\ pc = "drain" /\ resultQueue # <<>>
        /\ ReplaceWorker(Message.worker, "drain")
    BY <1>1, ReceiveType DEF FatalReplaces, Receive, MessageTypes
  <2>2. 1 \in 1 .. Len(resultQueue) /\ Message = resultQueue[1]
    BY <2>1 DEF Message, TypeOK, WorkerTypeOK
  <2>3. state[Message.worker] # "none"
    BY <2>1, <2>2 DEF AccountInv, SpawnedFirst
  <2> QED
    BY <2>1, <2>3, ReplaceRestarts DEF Restarts
<1>2. CASE DeadReplaced \/ StaleReplaced
  <2>1. /\ scan < NumWorkers /\ ReplaceWorker(scan, "monitor")
        /\ state[scan] # "none"
    BY <1>2 DEF DeadReplaced, StaleReplaced, SeenDead, Alive, LiveStates
  <2>2. scan \in Workers
    BY <2>1, NumWorkersAssumption DEF TypeOK, ControlTypeOK, Workers
  <2> QED
    BY <2>1, <2>2, ReplaceRestarts DEF Restarts
<1>3. ASSUME NEW w \in Workers, WedgedTimesOut(w) \/ SlowTimesOut(w)
      PROVE  Replaced(w) /\ state[w] # "none"
  <2>1. DeadlinePassed(w) /\ state[w] # "none"
    BY <1>3 DEF WedgedTimesOut, SlowTimesOut, DeadlinePassed, Overdue, Alive, LiveStates
  <2> QED
    BY <2>1, DeadlineRestarts DEF Restarts
<1> QED
  BY <1>1, <1>2, <1>3 DEF Replaces

LEMMA HardKeepsSpawned ==
    ASSUME TypeInv, AccountInv, SpawnedInOrder, [HardNext]_vars PROVE SpawnedInOrder'
<1>1. TypeOK /\ state \in [Workers -> States] /\ \A v \in Workers : v \in Int
  BY DEF TypeInv, TypeOK, WorkerTypeOK, Workers
<1>2. ASSUME \A v \in Workers : state'[v] = "none" <=> state[v] = "none"
      PROVE  SpawnedInOrder'
  BY <1>2 DEF SpawnedInOrder
<1>3. CASE Shared
  <2>1. CASE \A v \in Workers : state'[v] = "none"
    BY <2>1 DEF SpawnedInOrder
  <2> QED
    BY <1>1, <1>2, <1>3, <2>1, SharedSpawnsNone
<1>4. CASE UNCHANGED vars
  <2>1. UNCHANGED state
    BY <1>4 DEF vars, workerVars
  <2> QED
    BY <1>2, <2>1
<1>5. CASE Replaces
  <2>1. PICK w \in Workers : Replaced(w) /\ state[w] # "none"
    BY <1>1, <1>5, SpawnedIsReplaced
  <2> QED
    BY <1>2, <2>1 DEF Replaced
<1>6. CASE CallRunBatch \/ SerialAdvances
  <2>1. CASE UNCHANGED state
    BY <1>2, <2>1
  <2>2. ASSUME NEW w \in Workers,
               state' = [state EXCEPT ![w] = "booting"],
               \A v \in Workers : v < w => state[v] # "none"
        PROVE  SpawnedInOrder'
    <3> SUFFICES ASSUME NEW u \in Workers, NEW v \in Workers, u < v, state'[v] # "none"
                 PROVE  state'[u] # "none"
      BY DEF SpawnedInOrder
    <3>1. CASE v = w
      BY <1>1, <2>2, <3>1
    <3>2. CASE v # w
      BY <1>1, <2>2, <3>2 DEF SpawnedInOrder
    <3> QED
      BY <3>1, <3>2
  <2> QED
    BY <1>1, <1>6, <2>1, <2>2, OwnSpawns
<1>7. CASE SerialWaits \/ PutBack \/ HandsOver \/ FullHandsOver
  <2>1. UNCHANGED state
    BY <1>7 DEF SerialWaits, PutBack, HandsOver, FullHandsOver, workerVars
  <2> QED
    BY <1>2, <2>1
<1> QED
  BY <1>3, <1>4, <1>5, <1>6, <1>7, StepsOfHardPool

-----------------------------------------------------------------------------
(* The in-flight table can be trusted here too.                            *)

\* A spawned worker has nothing in flight and has sent nothing.
LEMMA SpawnKeepsAccounts ==
    ASSUME TypeOK, AccountInv, Bystands, NEW w \in Workers, state[w] = "none",
           state' = [state EXCEPT ![w] = "booting"]
    PROVE  AccountInv'
<1>1. /\ pc # "closed" /\ pc' # "down" /\ state'[w] = "booting"
      /\ \A v \in Workers \ {w} : state'[v] = state[v]
      /\ UNCHANGED <<resultQueue, generation, inFlight, held>>
  BY DEF Bystands, TypeOK, WorkerTypeOK
<1>2. /\ inFlight[w] = NoTask
      /\ \A i \in 1 .. Len(resultQueue) : resultQueue[i].worker # w
  BY <1>1 DEF AccountInv, SpawnedFirst
<1>3. SpawnedFirst'
  BY <1>1 DEF AccountInv, SpawnedFirst
<1>4. ASSUME NEW v \in Workers
      PROVE  Accounts(resultQueue, v, generation[v], inFlight[v], held[v], state'[v])
  <2>1. CASE v = w
    BY <1>2, <2>1, ReplacedAccounts
  <2>2. CASE v # w
    BY <1>1, <2>2 DEF AccountInv, TasksAccounted
  <2> QED
    BY <2>1, <2>2
<1> QED
  BY <1>1, <1>3, <1>4 DEF AccountInv, TasksAccounted

LEMMA HardKeepsAccounts ==
    ASSUME TypeInv, StaleInv, AccountInv, SpawnedInOrder, [HardNext]_vars
    PROVE  AccountInv'
<1>1. TypeOK
  BY DEF TypeInv
<1>2. CASE Shared \/ UNCHANGED vars
  BY <1>2, SharedSteps, NextKeepsAccounts
<1>3. CASE Replaces
  BY <1>1, <1>3, HardRestartCalls, RestartKeepsAccounts
<1>4. ASSUME UNCHANGED state, Bystands, pc # "down" PROVE AccountInv'
  BY <1>4, QuietKeepsAccounts DEF Bystands
<1>5. CASE CallRunBatch \/ SerialAdvances
  <2>1. Bystands
    BY <1>5, OwnBystands
  <2>2. CASE pc = "down" /\ UNCHANGED state
    <3>1. FALSE
      <4>1. CallRunBatch /\ state' = [state EXCEPT ![0] = "booting"]
        BY <1>5, <2>2 DEF CallRunBatch, SerialAdvances
      <4>2. 0 \in Workers
        BY NumWorkersAssumption DEF Workers
      <4> QED
        BY <1>1, <2>2, <4>1, <4>2 DEF AccountInv, SpawnedFirst, TypeOK, WorkerTypeOK
    <3> QED
      BY <3>1
  <2> QED
    BY <1>1, <1>4, <1>5, <2>1, <2>2, OwnSpawns, SpawnKeepsAccounts
<1>6. CASE SerialWaits \/ PutBack \/ HandsOver \/ FullHandsOver
  <2>1. Bystands /\ UNCHANGED state /\ pc # "down"
    BY <1>6, OwnBystands
    DEF SerialWaits, PutBack, HandsOver, FullHandsOver, workerVars
  <2> QED
    BY <1>4, <2>1
<1> QED
  BY <1>2, <1>3, <1>5, <1>6, StepsOfHardPool

LEMMA HardPoolInvariant == HardSpec => [](TypeInv /\ StaleInv /\ AccountInv)
<1>1. Init => TypeInv /\ StaleInv /\ AccountInv
  BY InitPool
<1>2. Init => SpawnedInOrder
  BY DEF Init, WorkerInit, SpawnedInOrder
<1>3. ASSUME TypeInv, StaleInv, AccountInv, SpawnedInOrder, [HardNext]_vars
      PROVE  TypeInv' /\ StaleInv' /\ AccountInv' /\ SpawnedInOrder'
  BY <1>3, HardKeepsTypes, HardKeepsOrder, HardKeepsAccounts, HardKeepsSpawned
<1>4. TypeInv /\ StaleInv /\ AccountInv /\ SpawnedInOrder /\ [HardNext]_vars
        => (TypeInv /\ StaleInv /\ AccountInv /\ SpawnedInOrder)'
  BY <1>3
<1> QED
  BY <1>1, <1>2, <1>4, PTL DEF HardSpec

\* What is put back, or given up at the deadline, is what the live process has: the
\* recorded task is being verified by it, its result is still to be read, or the
\* process ended, although here a successor runs before the put.
THEOREM HardInFlightTrusted == HardSpec => []InFlightAccounted
<1>1. AccountInv => InFlightAccounted
  BY AccountsTrusted
<1> QED
  BY <1>1, HardPoolInvariant, PTL
\* A replacement that runs before its task is put back still never meets a message
\* of the process it replaces.
THEOREM HardStaleNeverMeetsSuccessor == HardSpec => []StaleBeforeInFlight
<1>1. StaleInv => StaleBeforeInFlight
  BY DEF StaleInv
<1> QED
  BY <1>1, HardPoolInvariant, PTL

-----------------------------------------------------------------------------
(* run_batch implements BatchVerification here too.                        *)

\* Of its own steps, two concern the caller: the call, and what the queue.Full
\* handler of submit() raises.
Raises == FullHandsOver /\ fatal

LEMMA OwnKeepsBooks ==
    ASSUME TypeInv, DeliveryInv,
           \/ Replaces \/ SerialWaits \/ SerialAdvances \/ PutBack \/ HandsOver
           \/ FullHandsOver /\ ~fatal
    PROVE  UNCHANGED <<Books, todo, completed>> /\ DeliveryInv'
<1>1. TypeOK /\ SubmitsAll
  BY DEF TypeInv, DeliveryInv
<1>2. CASE Replaces
  <2>1. /\ pc \in {"drain", "monitor"} /\ pc' \in {pc, "requeue"}
        /\ UNCHANGED <<caller, batchVars>>
    BY <1>1, <1>2, HardRestartCalls DEF FatalRestarts, MonitorRestarts, Restarts, Receive
  <2>2. /\ UNCHANGED <<Books, todo, completed>>
        /\ pc \in Running /\ pc' \in Running
    BY <2>1 DEF Books, batchVars, Running
  <2>3. /\ pc' = "wait" \/ caller' = "wait" => todo = {}
        /\ caller' # "none" => pc' \in {"drain", "monitor", "requeue", "accept"}
    BY <1>1, <2>1 DEF SubmitsAll
  <2> QED
    BY <2>2, <2>3, MoveKeepsDelivery
<1>3. CASE SerialWaits \/ SerialAdvances \/ HandsOver \/ (FullHandsOver /\ ~fatal)
  <2>1. UNCHANGED <<Books, todo, completed>>
    BY <1>3 DEF SerialWaits, SerialAdvances, HandsOver, FullHandsOver, Books, batchVars
  <2>2. pc \in Running /\ pc' \in Running
    BY <1>3 DEF SerialWaits, SerialAdvances, HandsOver, FullHandsOver, Running
  <2>3. /\ pc' = "wait" \/ caller' = "wait" => todo = {}
        /\ caller' # "none" => pc' \in {"drain", "monitor", "requeue", "accept"}
    BY <1>1, <1>3 DEF SerialWaits, SerialAdvances, HandsOver, FullHandsOver, SubmitsAll
  <2> QED
    BY <2>1, <2>2, <2>3, MoveKeepsDelivery
<1>4. CASE PutBack
  <2>1. /\ pc = "requeue" /\ pc' \in {"drain", "monitor"}
        /\ UNCHANGED <<caller, batchVars>>
    BY <1>4 DEF PutBack, Continue, TypeInv, RequeueReturns
  <2>2. UNCHANGED <<Books, todo, completed>>
    BY <2>1 DEF Books, batchVars
  <2> QED
    BY <1>1, <2>1, <2>2, MoveKeepsDelivery DEF SubmitsAll, Running
<1> QED
  BY <1>2, <1>3, <1>4

LEMMA RaisesKeepsDelivery ==
    ASSUME DeliveryInv, Raises PROVE DeliveryInv'
<1>1. /\ pc = "monitor" /\ pc' = "close" /\ caller' = "none" /\ outcome' = "raised"
      /\ UNCHANGED <<batch, todo, expected, completed, results>>
  BY DEF Raises, FullHandsOver, RaiseError
<1>2. OutcomeKnown' /\ SubmitsAll'
  BY <1>1 DEF OutcomeKnown, SubmitsAll, Running
<1>3. BatchSplit' /\ CompletedDelivered'
  BY <1>1 DEF DeliveryInv, BatchSplit, CompletedDelivered
<1> QED
  BY <1>2, <1>3 DEF DeliveryInv

LEMMA HardKeepsDelivery ==
    ASSUME TypeInv, DeliveryInv, [HardNext]_vars PROVE DeliveryInv'
<1>1. CASE Shared \/ UNCHANGED vars
  BY <1>1, SharedSteps, NextKeepsDelivery
<1>2. CASE CallRunBatch
  BY <1>2, CallKeepsDelivery DEF CallRunBatch, Called, TypeInv
<1> QED
  BY <1>1, <1>2, StepsOfHardPool, OwnKeepsBooks, RaisesKeepsDelivery DEF Raises

LEMMA HardKeepsPromise ==
    ASSUME TypeInv, DeliveryInv, [HardNext]_vars
    PROVE  [Promise!Next]_(Promise!vars)
<1>1. CASE Shared \/ UNCHANGED vars
  BY <1>1, SharedSteps, StepKeepsPromise
<1>2. CASE CallRunBatch
  <2>1. Promise!Call
    BY <1>2 DEF CallRunBatch, Promise!Call, DeliveryInv, OutcomeKnown
  <2> QED
    BY <2>1 DEF Promise!Next
<1>3. CASE Raises
  <2>1. Promise!Return("raised")
    BY <1>3
    DEF Raises, FullHandsOver, RaiseError, Promise!Return, DeliveryInv, OutcomeKnown,
        Running
  <2> QED
    BY <2>1 DEF Promise!Next
<1>4. CASE \/ Replaces \/ SerialWaits \/ SerialAdvances \/ PutBack \/ HandsOver
           \/ FullHandsOver /\ ~fatal
  BY <1>4, OwnKeepsBooks DEF Books, Promise!vars
<1> QED
  BY <1>1, <1>2, <1>3, <1>4, StepsOfHardPool DEF Raises

\* With hard deadlines too, run_batch calls on_result at most once per task of the
\* batch and for nothing else: the failed result of a task past its deadline and the
\* late one of the process that was killed are not both delivered.
THEOREM HardDeliversOnce == HardSpec => DeliversOnce
<1>1. Init => DeliveryInv /\ Promise!Init
  BY InitDelivers
<1>2. TypeInv /\ DeliveryInv /\ [HardNext]_vars
        => TypeInv' /\ DeliveryInv' /\ [Promise!Next]_(Promise!vars)
  BY HardKeepsTypes, HardKeepsDelivery, HardKeepsPromise
<1> QED
  BY <1>1, <1>2, InitTypes, PTL DEF HardSpec, DeliversOnce, Promise!Spec

-----------------------------------------------------------------------------
(* A task is in one place, and has its file.                               *)

LEMMA HardUnusedShrinks ==
    ASSUME TypeInv, [HardNext]_vars PROVE Unused' \subseteq Unused
<1>1. TypeOK
  BY DEF TypeInv
<1>2. CASE Shared \/ UNCHANGED vars
  BY <1>1, <1>2, SharedSteps, UnusedShrinks
<1>3. CASE CallRunBatch
  BY <1>1, <1>3, CallTakesBatch DEF CallRunBatch, Called
<1>4. CASE Replaces
  <2>1. UNCHANGED batchVars
    BY <1>1, <1>4, HardRestartCalls DEF FatalRestarts, MonitorRestarts
  <2> QED
    BY <2>1 DEF batchVars, Unused
<1>5. CASE SerialWaits \/ SerialAdvances \/ PutBack \/ HandsOver \/ FullHandsOver
  <2>1. UNCHANGED <<todo, batch>>
    BY <1>5
    DEF SerialWaits, SerialAdvances, PutBack, HandsOver, FullHandsOver, RaiseError,
        batchVars
  <2> QED
    BY <2>1 DEF Unused
<1> QED
  BY <1>2, <1>3, <1>4, <1>5, StepsOfHardPool

\* The put-back of the task to the replacement, or to nobody: the task is dropped
\* when the replacement is dead and its queue full.
LEMMA PutBackKeepsCopies ==
    ASSUME TypeInv, CopyInv, PutBack PROVE CopyInv'
<1>1. /\ requeued' = NoTask /\ requeued \in Tasks \cup {NoTask}
      /\ UNCHANGED <<state, held, generation, resultQueue, inFlight, target, submitting,
                     batch, todo>>
  BY DEF PutBack, TypeInv, TypeOK, ControlTypeOK, batchVars
<1>2. CASE taskQueue' = [taskQueue EXCEPT ![target] = Append(@, requeued)]
  <2>1. requeued # NoTask => ShardOf(requeued) = target
    BY CopyFacts DEF Placed
  <2> QED
    BY <1>1, <1>2, <2>1, InsertKeepsCopies
<1>3. CASE UNCHANGED taskQueue
  <2>1. Unused' = Unused /\ TodoOnce'
    BY <1>1 DEF Unused, CopyInv, TodoOnce
  <2> QED
    BY <1>1, <1>3, <2>1, LifecycleKeepsCopies
<1> QED
  BY <1>2, <1>3 DEF PutBack

LEMMA HardKeepsCopies ==
    ASSUME DisjointBatches, TypeInv, StaleInv, AccountInv, SpawnedInOrder, CopyInv,
           [HardNext]_vars
    PROVE  CopyInv'
<1>1. TypeOK /\ state \in [Workers -> States]
  BY DEF TypeInv, TypeOK, WorkerTypeOK
<1>2. CASE Shared \/ UNCHANGED vars
  BY <1>2, SharedSteps, NextKeepsCopies
<1>3. CASE Replaces
  BY <1>1, <1>3, HardRestartCalls, FatalKeepsCopies, MonitorKeepsCopies
<1>4. CASE CallRunBatch \/ SerialAdvances
  <2>1. ASSUME NEW v \in Workers, state'[v] = "loaded" PROVE state[v] = "loaded"
    BY <1>1, <1>4, <2>1, OwnSpawns
  <2>2. TodoOnce'
    <3>1. CASE CallRunBatch
      BY <1>1, <3>1, CallTakesBatch DEF CallRunBatch, Called
    <3>2. CASE SerialAdvances
      BY <3>2 DEF SerialAdvances, batchVars, CopyInv, TodoOnce
    <3> QED
      BY <1>4, <3>1, <3>2
  <2>3. UNCHANGED <<held, inFlight, generation, taskQueue, resultQueue, target, requeued,
                    submitting>>
    BY <1>4 DEF CallRunBatch, SerialAdvances, batchVars
  <2> QED
    BY <2>1, <2>2, <2>3, HardUnusedShrinks, LifecycleKeepsCopies
<1>5. CASE SerialWaits \/ HandsOver \/ FullHandsOver
  <2>1. UNCHANGED <<state, held, inFlight, generation, taskQueue, resultQueue,
                    target, requeued, submitting, todo, batch>>
    BY <1>5
    DEF SerialWaits, HandsOver, FullHandsOver, RaiseError, batchVars, workerVars
  <2>2. TodoOnce'
    BY <2>1 DEF CopyInv, TodoOnce
  <2> QED
    BY <2>1, <2>2, HardUnusedShrinks, LifecycleKeepsCopies
<1> QED
  BY <1>2, <1>3, <1>4, <1>5, PutBackKeepsCopies, StepsOfHardPool

LEMMA HardKeepsSpool ==
    ASSUME TypeInv, StaleInv, AccountInv, SpawnedInOrder, CopyInv, SpoolInv,
           [HardNext]_vars
    PROVE  SpoolInv'
<1>1. TypeOK /\ state \in [Workers -> States]
  BY DEF TypeInv, TypeOK, WorkerTypeOK
<1>2. CASE Shared \/ UNCHANGED vars
  BY <1>2, SharedSteps, NextKeepsSpool
<1>3. CASE Replaces
  BY <1>1, <1>3, HardRestartCalls, RestartKeepsSpool
<1>4. CASE CallRunBatch \/ SerialAdvances
  <2>1. \A v \in Workers : state'[v] \in {state[v], "booting"}
    BY <1>1, <1>4, OwnSpawns
  <2>2. UNCHANGED <<held, inFlight, generation, taskQueue, resultQueue, spool, requeued,
                    submitting>>
    BY <1>4 DEF CallRunBatch, SerialAdvances, batchVars
  <2> QED
    BY <2>1, <2>2, SpoolFacts, HandsKeepSpool
<1>5. CASE SerialWaits \/ HandsOver \/ FullHandsOver
  <2>1. UNCHANGED <<state, held, inFlight, generation, taskQueue, resultQueue,
                    requeued, submitting, spool>>
    BY <1>5
    DEF SerialWaits, HandsOver, FullHandsOver, RaiseError, batchVars, workerVars
  <2> QED
    BY <2>1, SpoolFacts, HandsKeepSpool
<1>6. CASE PutBack
  <2>1. /\ requeued' = NoTask
        /\ UNCHANGED <<state, held, inFlight, generation, resultQueue, submitting, spool>>
        /\ \/ taskQueue' = [taskQueue EXCEPT ![target] = Append(@, requeued)]
           \/ UNCHANGED taskQueue
    BY <1>6 DEF PutBack, batchVars
  <2>2. ASSUME NEW v \in Workers
        PROVE  \/ taskQueue'[v] = taskQueue[v]
               \/ \E t \in {submitting, requeued, NoTask} :
                     taskQueue'[v] = Append(taskQueue[v], t)
    BY <2>1, SpoolFacts
  <2> QED
    BY <2>1, <2>2, SpoolFacts, HandsKeepSpool
<1> QED
  BY <1>2, <1>3, <1>4, <1>5, <1>6, StepsOfHardPool

HardInv == TypeInv /\ StaleInv /\ AccountInv /\ SpawnedInOrder /\ CopyInv /\ SpoolInv

LEMMA HardInvariant ==
    ASSUME DisjointBatches PROVE HardSpec => []HardInv
<1>1. Init => HardInv
  <2>1. Init => SpawnedInOrder
    BY DEF Init, WorkerInit, SpawnedInOrder
  <2> QED
    BY <2>1, InitPool, InitCopies, InitSpool DEF HardInv
<1>2. ASSUME HardInv, [HardNext]_vars PROVE HardInv'
  BY <1>2, HardKeepsTypes, HardKeepsOrder, HardKeepsAccounts, HardKeepsSpawned,
     HardKeepsCopies, HardKeepsSpool
  DEF HardInv
<1>3. HardInv /\ [HardNext]_vars => HardInv'
  BY <1>2
<1> QED
  BY <1>1, <1>3, PTL DEF HardSpec

\* A replacement that runs before its task is put back does not get it twice, and a
\* task past its deadline is not queued anywhere: each task is queued once, held by
\* one process or in the coordinator's hands, and nothing else.
THEOREM HardSingleCopy ==
    ASSUME DisjointBatches PROVE HardSpec => []SingleCopy
<1>1. HardInv => SingleCopy
  BY OneCopy DEF HardInv, SingleCopy
<1> QED
  BY <1>1, HardInvariant, PTL

\* What is put back to a replacement that already runs has its spool file.
THEOREM HardSpoolBacked ==
    ASSUME DisjointBatches PROVE HardSpec => []SpoolBacked
<1>1. HardInv => SpoolBacked
  BY DEF HardInv, SpoolInv
<1> QED
  BY <1>1, HardInvariant, PTL
===============================================================================

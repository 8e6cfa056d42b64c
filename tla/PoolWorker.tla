------------------------------ MODULE PoolWorker ------------------------------
(***************************************************************************)
(* The worker processes of a verification pool and the queues they share   *)
(* with the coordinator.  worker_process_loop is the same in pool.py and   *)
(* in pool_hard_timeout_e2.py; the two coordinators (VerificationPool and  *)
(* HardTimeoutPool) extend this module.                                    *)
(*                                                                         *)
(* A task is named by <<problem_index, attempt_index>>.  The feeder thread *)
(* of a multiprocessing queue is merged with the put: a message is visible *)
(* as soon as it is emitted, and a killed process loses nothing it had     *)
(* emitted.  Heartbeat messages only refresh a time stamp and are left     *)
(* out: the coordinator's judgement of staleness is an action of its own.  *)
(***************************************************************************)
EXTENDS Integers, Sequences, FiniteSets

CONSTANTS
    NumWorkers,       \* config.num_workers
    QueueMax,         \* config.queue_maxsize: every task queue, the result queue
    CancelOnSuccess,  \* config.cancel_on_success
    Tasks,            \* the pairs <<problem_index, attempt_index>> in use
    NoTask,           \* no task; also the None that close() puts in a queue
    MaxFaults         \* bound on crashes, hangs, exceptions and time-outs

ASSUME NumWorkersAssumption == NumWorkers \in Nat \ {0}
ASSUME QueueMaxAssumption == QueueMax \in Nat \ {0}
ASSUME CancelAssumption == CancelOnSuccess \in BOOLEAN
ASSUME TasksAssumption == Tasks \subseteq Nat \X Nat
ASSUME NoTaskAssumption == NoTask \notin Tasks
ASSUME MaxFaultsAssumption == MaxFaults \in Nat

Workers == 0 .. NumWorkers - 1

\* The stable shard of a task: problem_index % num_workers.
ShardOf(t) == t[1] % NumWorkers

VARIABLES
    state,        \* worker -> where its process stands in worker_process_loop
    held,         \* worker -> the task between dequeue and emitted result
    canceled,     \* worker -> canceled_problem_ids of the process
    generation,   \* worker -> worker_generations; the live process carries it
    taskQueue,    \* worker -> its bounded task queue
    resultQueue,  \* the bounded queue all workers emit into
    spool,        \* tasks whose JSON file exists in task_spool_dir
    faults        \* environment faults so far (bound only)

workerVars == <<state, held, canceled, generation, taskQueue, resultQueue,
                spool, faults>>

LiveStates == {"booting", "idle", "loaded", "verifying", "hung", "failing",
               "stopping"}
States == {"none", "exited"} \cup LiveStates
Alive(w) == state[w] \in LiveStates

MessageTypes == {"warmup", "started", "result", "fatal", "done"}
Statuses == {"none", "success", "failed", "canceled"}
Messages == [type : MessageTypes, worker : Workers, gen : Nat,
             task : Tasks \cup {NoTask}, status : Statuses]

WorkerTypeOK ==
    /\ state \in [Workers -> States]
    /\ held \in [Workers -> Tasks \cup {NoTask}]
    /\ canceled \in [Workers -> SUBSET Nat]
    /\ generation \in [Workers -> Nat]
    /\ taskQueue \in [Workers -> Seq(Tasks \cup {NoTask})]
    /\ resultQueue \in Seq(Messages)
    /\ spool \subseteq Tasks
    /\ faults \in Nat

WorkerInit ==
    /\ state = [w \in Workers |-> "none"]
    /\ held = [w \in Workers |-> NoTask]
    /\ canceled = [w \in Workers |-> {}]
    /\ generation = [w \in Workers |-> 0]
    /\ taskQueue = [w \in Workers |-> <<>>]
    /\ resultQueue = <<>>
    /\ spool = {}
    /\ faults = 0

Fault == faults < MaxFaults /\ faults' = faults + 1

\* emit(): blocks while the result queue is full.
Emit(w, type, task, status) ==
    /\ Len(resultQueue) < QueueMax
    /\ resultQueue' = Append(resultQueue,
            [type |-> type, worker |-> w, gen |-> generation[w],
             task |-> task, status |-> status])

Goto(w, st, task) ==
    /\ state' = [state EXCEPT ![w] = st]
    /\ held' = [held EXCEPT ![w] = task]

-----------------------------------------------------------------------------
(* Steps of one process, in program order.                                 *)

\* The verifier is up and its warm-up passed.
WarmUp(w) ==
    /\ state[w] = "booting"
    /\ Emit(w, "warmup", NoTask, "success")
    /\ Goto(w, "idle", NoTask)
    /\ UNCHANGED <<canceled, generation, taskQueue, spool, faults>>

\* The warm-up failed: its report is emitted before the error is raised.
WarmUpFails(w) ==
    /\ state[w] = "booting"
    /\ Fault
    /\ Emit(w, "warmup", NoTask, "failed")
    /\ Goto(w, "failing", NoTask)
    /\ UNCHANGED <<canceled, generation, taskQueue, spool>>

\* Take the next item; None ends the loop; the task is loaded from its spool
\* file before "started" is emitted, and a missing file is an exception.
Dequeue(w) ==
    /\ state[w] = "idle"
    /\ taskQueue[w] # <<>>
    /\ LET item == Head(taskQueue[w]) IN
         \/ item = NoTask /\ Goto(w, "stopping", NoTask)
         \/ item \in spool /\ Goto(w, "loaded", item)
         \/ item \notin spool \cup {NoTask} /\ Goto(w, "failing", NoTask)
    /\ taskQueue' = [taskQueue EXCEPT ![w] = Tail(@)]
    /\ UNCHANGED <<canceled, generation, resultQueue, spool, faults>>

EmitStarted(w) ==
    /\ state[w] = "loaded"
    /\ Emit(w, "started", held[w], "none")
    /\ Goto(w, "verifying", held[w])
    /\ UNCHANGED <<canceled, generation, taskQueue, spool, faults>>

IsCanceled(w) == CancelOnSuccess /\ held[w][1] \in canceled[w]

\* Mutant of Cancels: any checked attempt cancels the rest of its problem.
CancelsAlways(status) == CancelOnSuccess

\* Does this result cancel the problem's later attempts at this worker?
Cancels(status) == CancelOnSuccess /\ status = "success"

\* Emit the result: canceled without a check, or what the verifier says.
Finish(w) ==
    /\ state[w] = "verifying"
    /\ \E status \in {"success", "failed", "canceled"} :
         /\ status = "canceled" <=> IsCanceled(w)
         /\ Emit(w, "result", held[w], status)
         /\ canceled' = IF Cancels(status)
                        THEN [canceled EXCEPT ![w] = @ \cup {held[w][1]}]
                        ELSE canceled
    /\ Goto(w, "idle", NoTask)
    /\ UNCHANGED <<generation, taskQueue, spool, faults>>

\* An exception in the verifier's constructor or in verify().
Raise(w) ==
    /\ \/ state[w] = "booting"
       \/ state[w] = "verifying" /\ ~IsCanceled(w)
    /\ Fault
    /\ Goto(w, "failing", NoTask)
    /\ UNCHANGED <<canceled, generation, taskQueue, resultQueue, spool>>

\* The Lean RPC never returns; the heartbeat thread keeps beating.
Hang(w) ==
    /\ state[w] = "verifying" /\ ~IsCanceled(w)
    /\ Fault
    /\ Goto(w, "hung", held[w])
    /\ UNCHANGED <<canceled, generation, taskQueue, resultQueue, spool>>

EmitFatal(w) ==
    /\ state[w] = "failing"
    /\ Emit(w, "fatal", NoTask, "none")
    /\ Goto(w, "stopping", NoTask)
    /\ UNCHANGED <<canceled, generation, taskQueue, spool, faults>>

EmitDone(w) ==
    /\ state[w] = "stopping"
    /\ Emit(w, "done", NoTask, "none")
    /\ Goto(w, "exited", NoTask)
    /\ UNCHANGED <<canceled, generation, taskQueue, spool, faults>>

\* The process dies at any point (OOM kill, segmentation fault).
Crash(w) ==
    /\ Alive(w)
    /\ Fault
    /\ Goto(w, "exited", NoTask)
    /\ UNCHANGED <<canceled, generation, taskQueue, resultQueue, spool>>

WorkerProgress(w) ==
    WarmUp(w) \/ Dequeue(w) \/ EmitStarted(w) \/ Finish(w) \/ EmitFatal(w)
    \/ EmitDone(w)

WorkerFault(w) == WarmUpFails(w) \/ Raise(w) \/ Hang(w) \/ Crash(w)
===============================================================================

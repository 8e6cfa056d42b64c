---------------------------- MODULE HardTimeoutPool ----------------------------
(***************************************************************************)
(* The coordinator of dynamic_grpo_v2_1_2/pool_hard_timeout_e2.py, which   *)
(* replaces pool.py on the verification node.  What the two files share is *)
(* taken from VerificationPool; this module holds what differs: workers    *)
(* are warmed up one after the other, drain() hands over buffered results, *)
(* a replacement is spawned before the task is put back, and a task that   *)
(* outlives its deadline is given a failed result and its worker replaced. *)
(* in_flight_started has an entry exactly when in_flight has one, and how  *)
(* long ago it was made is left open.                                      *)
(***************************************************************************)
EXTENDS VerificationPool

Unstarted == {w \in Workers : state[w] = "none"}

\* start() spawns worker 0 first.
CallRunBatch ==
    /\ pc \in {"down", "returned"}
    /\ batch < Len(Batches)
    /\ batch' = batch + 1
    /\ todo' = Batches[batch + 1]
    /\ expected' = {} /\ completed' = {} /\ results' = <<>>
    /\ outcome' = "running"
    /\ \/ /\ pc = "down"
          /\ state' = [state EXCEPT ![0] = "booting"]
          /\ pc' = "start"
       \/ /\ pc = "returned"
          /\ pc' = "batch"
          /\ UNCHANGED state
    /\ UNCHANGED <<held, canceled, generation, taskQueue, resultQueue, spool,
                   faults, ready, restarts, fatal, inFlight, retries, buffered,
                   caller, site, scan, target, requeued, submitting, drained>>

\* The last worker spawned; each is awaited alone, and all of them at the end.
Newest == NumWorkers - Cardinality(Unstarted) - 1
Warm == IF Unstarted # {} THEN ready[Newest] # "no" ELSE AllReady

SerialWaits ==
    /\ pc = "start" /\ ~Warm
    /\ pc' = "drain" /\ caller' = "start"
    /\ UNCHANGED <<workerVars, ready, restarts, fatal, inFlight, retries,
                   buffered, site, scan, target, requeued, drained, batchVars>>

\* Spawn the next worker, or leave start().
SerialAdvances ==
    /\ pc = "start" /\ Warm
    /\ \/ /\ Unstarted # {}
          /\ state' = [state EXCEPT ![Newest + 1] = "booting"]
          /\ UNCHANGED pc
       \/ /\ Unstarted = {}
          /\ pc' = "batch"
          /\ UNCHANGED state
    /\ UNCHANGED <<held, canceled, generation, taskQueue, resultQueue, spool,
                   faults, ready, restarts, fatal, inFlight, retries, buffered,
                   caller, site, scan, target, requeued, drained, batchVars>>

-----------------------------------------------------------------------------
(* _restart_worker: count, spawn the replacement, then put the task back.  *)

ReplaceWorker(w, from) ==
    /\ Kill(w)
    /\ LET t == inFlight[w]
           retry == t # NoTask /\ retries[t] + 1 <= MaxRetries
       IN /\ retries' = IF t = NoTask THEN retries
                        ELSE [retries EXCEPT ![t] = @ + 1]
          /\ \/ /\ t # NoTask /\ ~retry
                /\ fatal' = TRUE
                /\ state' = [state EXCEPT ![w] = "exited"]
                /\ Continue(from)
                /\ UNCHANGED <<canceled, generation, ready, restarts, target,
                               requeued>>
             \/ /\ t = NoTask \/ (retry /\ restarts[w] + 1 > MaxRestarts)
                /\ Respawn(w)
                /\ Continue(from)
                /\ UNCHANGED <<target, requeued>>
             \/ /\ retry /\ restarts[w] + 1 <= MaxRestarts
                /\ Respawn(w)
                /\ pc' = "requeue" /\ site' = from
                /\ target' = w /\ requeued' = t
                /\ UNCHANGED scan
    /\ UNCHANGED <<taskQueue, spool, buffered, caller>>

\* The put is repeated until it succeeds or the replacement is seen dead.
PutBack ==
    /\ pc = "requeue"
    /\ \/ /\ Len(taskQueue[target]) < QueueMax
          /\ taskQueue' = [taskQueue EXCEPT ![target] = Append(@, requeued)]
          /\ UNCHANGED fatal
       \/ /\ Len(taskQueue[target]) >= QueueMax
          /\ ~Alive(target)
          /\ fatal' = TRUE
          /\ UNCHANGED taskQueue
    /\ requeued' = NoTask
    /\ Continue(site)
    /\ UNCHANGED <<state, held, canceled, generation, resultQueue, spool,
                   faults, ready, restarts, inFlight, retries, buffered, caller,
                   target, drained, batchVars>>

FatalReplaces ==
    /\ Receive("fatal") /\ ~Stale
    /\ ReplaceWorker(Message.worker, "drain")
    /\ UNCHANGED <<faults, drained, batchVars>>

DeadReplaced ==
    /\ pc = "monitor" /\ scan < NumWorkers
    /\ SeenDead(scan)
    /\ ReplaceWorker(scan, "monitor")
    /\ UNCHANGED <<resultQueue, faults, drained, batchVars>>

StaleReplaced ==
    /\ pc = "monitor" /\ scan < NumWorkers
    /\ Alive(scan) /\ ready[scan] # "no"
    /\ caller \notin {"start", "startMonitor"}
    /\ Fault
    /\ ReplaceWorker(scan, "monitor")
    /\ UNCHANGED <<resultQueue, drained, batchVars>>

\* Mutant of Overdue: a worker that beats is never overdue.
OverdueSilent(w) == ~Alive(w) /\ ready[w] # "no" /\ inFlight[w] # NoTask

Overdue(w) == Alive(w) /\ ready[w] # "no" /\ inFlight[w] # NoTask

\* _hard_timeout_worker: the task in flight is past its deadline, because its
\* RPC is wedged or merely slow.  No retry, no restart limit; the failed result
\* goes to buffered_results.
DeadlinePassed(w) ==
    /\ pc = "monitor" /\ scan = w
    /\ Overdue(w)
    /\ Kill(w)
    /\ restarts' = [restarts EXCEPT ![w] = @ + 1]
    /\ generation' = [generation EXCEPT ![w] = @ + 1]
    /\ state' = [state EXCEPT ![w] = "booting"]
    /\ canceled' = [canceled EXCEPT ![w] = {}]
    /\ ready' = [ready EXCEPT ![w] = "no"]
    /\ buffered' = Append(buffered, [task |-> inFlight[w], status |-> "failed"])
    /\ Continue("monitor")
    /\ UNCHANGED <<taskQueue, resultQueue, spool, fatal, retries, caller,
                   target, requeued, drained, batchVars>>

WedgedTimesOut(w) == state[w] = "hung" /\ DeadlinePassed(w) /\ UNCHANGED faults

SlowTimesOut(w) == state[w] # "hung" /\ DeadlinePassed(w) /\ Fault

-----------------------------------------------------------------------------
(* drain() ends by moving buffered_results into what it returns.           *)

Flushed == drained \o buffered

HandsOver ==
    /\ pc = "monitor" /\ scan = NumWorkers
    /\ caller \in {"submitted", "wait"}
    /\ drained' = Flushed /\ buffered' = <<>>
    /\ pc' = "accept"
    /\ UNCHANGED <<workerVars, ready, restarts, fatal, inFlight, retries,
                   caller, site, scan, target, requeued, batchVars>>

\* submit() evaluates self.buffered_results before it calls drain().  When the
\* drain moved that list away, it is this dropped list that gets extended.
FullHandsOver ==
    /\ pc = "monitor" /\ scan = NumWorkers /\ caller = "full"
    /\ buffered' = IF buffered = <<>> THEN drained ELSE <<>>
    /\ drained' = <<>>
    /\ \/ fatal /\ RaiseError
       \/ /\ ~fatal
          /\ pc' = "put" /\ caller' = "none"
          /\ UNCHANGED <<scan, batchVars>>
    /\ UNCHANGED <<workerVars, ready, restarts, fatal, inFlight, retries, site,
                   target, requeued>>

-----------------------------------------------------------------------------
HardCoordinator ==
    \/ SerialWaits \/ SerialAdvances \/ (\E t \in todo : Submit(t)) \/ Put
    \/ PutFull \/ AllSubmitted \/ WaitDrains \/ Return \/ Accept \/ Accepted
    \/ PutBack \/ ReceiveStale \/ ReceiveWarmup \/ ReceiveStarted
    \/ ReceiveResult \/ FatalReplaces \/ ReceiveDone \/ DrainedAll
    \/ DeadReplaced \/ MonitorHealthy \/ HandsOver \/ FullHandsOver
    \/ StartMonitors \/ StartContinues \/ CloseSignals \/ CloseJoins \/ Closed

HardNext ==
    \/ CallRunBatch \/ Close \/ HardCoordinator
    \/ \E w \in Workers : WedgedTimesOut(w) \/ SlowTimesOut(w) \/ Worker(w)
    \/ StaleReplaced \/ Terminated

HardSpec == Init /\ [][HardNext]_vars

\* The coordinator looks at a wedged worker again and again, and its clock
\* advances: one of those looks comes after the deadline.
HardFairSpec ==
    /\ HardSpec
    /\ WF_vars(HardCoordinator)
    /\ \A w \in Workers : /\ WF_vars(WorkerProgress(w) /\ UNCHANGED poolVars)
                          /\ SF_vars(WedgedTimesOut(w))

-----------------------------------------------------------------------------
(* Properties, next to those of VerificationPool.                          *)

\* A wedged Lean RPC does not hold its worker for ever: while a batch runs, the
\* hard deadline ends it although the heartbeat thread keeps beating.
WedgedEnds ==
    \A w \in Workers :
        (state[w] = "hung" /\ outcome = "running")
            ~> (state[w] # "hung" \/ outcome # "running")

\* The put-back loop polls a full task queue whose consumer waits for the full
\* result queue, which only the coordinator reads.
PutBackStalls ==
    /\ pc = "requeue"
    /\ Len(taskQueue[target]) >= QueueMax /\ Len(resultQueue) >= QueueMax
    /\ Alive(target)

\* A dead worker is replaced, or the batch it worked for ends; the one thing that
\* can leave it dead for good is that the coordinator itself stalls while it puts
\* back the task of another worker.
WorkerReplaced ==
    \A w \in Workers :
        (state[w] = "exited" /\ outcome = "running")
            ~> (state[w] # "exited" \/ outcome # "running" \/ []PutBackStalls)

\* Inductive strengthening: start() spawns the workers in order, so the Newest is
\* the last one that runs and the next one has sent nothing yet.
SpawnedInOrder ==
    \A v, w \in Workers : v < w /\ state[w] # "none" => state[v] # "none"
===============================================================================

-------------------------- MODULE BatchVerification --------------------------
(***************************************************************************)
(* What VerificationPool.run_batch promises its caller: tasks are handed   *)
(* over, on_result is called at most once per task of the batch and never  *)
(* for anything else, and the call ends with every result delivered, with  *)
(* fatal errors (a partial run) or by raising.                             *)
(***************************************************************************)
EXTENDS Naturals, Sequences

CONSTANT Batches   \* the successive arguments of run_batch: a sequence of sets

VARIABLES
    batch,      \* number of the current call of run_batch (0: none yet)
    submitted,  \* tasks handed over so far in this call
    delivered,  \* keys on_result was called with, in order
    outcome     \* "none", "running", "complete", "partial" or "raised"

vars == <<batch, submitted, delivered, outcome>>

DeliveredSet == {delivered[i] : i \in 1 .. Len(delivered)}

Init == batch = 0 /\ submitted = {} /\ delivered = <<>> /\ outcome = "none"

Call ==
    /\ outcome \notin {"running", "raised"}
    /\ batch < Len(Batches)
    /\ batch' = batch + 1
    /\ submitted' = {} /\ delivered' = <<>> /\ outcome' = "running"

Submit(t) ==
    /\ outcome = "running"
    /\ t \in Batches[batch] \ submitted
    /\ submitted' = submitted \cup {t}
    /\ UNCHANGED <<batch, delivered, outcome>>

Deliver(t) ==
    /\ outcome = "running"
    /\ t \in submitted \ DeliveredSet
    /\ delivered' = Append(delivered, t)
    /\ UNCHANGED <<batch, submitted, outcome>>

\* A call that says "complete" delivered exactly its batch.
Return(how) ==
    /\ outcome = "running"
    /\ how = "complete" => DeliveredSet = Batches[batch]
    /\ outcome' = how
    /\ UNCHANGED <<batch, submitted, delivered>>

Next ==
    \/ Call
    \/ batch > 0 /\ \E t \in Batches[batch] : Submit(t) \/ Deliver(t)
    \/ \E how \in {"complete", "partial", "raised"} : Return(how)

Spec == Init /\ [][Next]_vars
===============================================================================

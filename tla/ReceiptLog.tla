------------------------------ MODULE ReceiptLog ------------------------------
(***************************************************************************)
(* What the two-phase rollout and the benchmark promise whoever reads      *)
(* their output: every candidate <<problem, attempt>> gets one verdict,    *)
(* which no interruption loses or changes, and the summary counts exactly  *)
(* these verdicts.                                                         *)
(***************************************************************************)
EXTENDS FiniteSets

CONSTANT Keys, NoSummary

VARIABLES
    verdicts,   \* the pairs <<key, success>> on record
    published   \* NoSummary, or the numbers of successes and failures

vars == <<verdicts, published>>

Decided == {v[1] : v \in verdicts}
Counted(ok) == Cardinality({v \in verdicts : v[2] = ok})

Init == verdicts = {} /\ published = NoSummary

Decide(key, ok) ==
    /\ key \in Keys \ Decided
    /\ verdicts' = verdicts \cup {<<key, ok>>}
    /\ UNCHANGED published

Publish ==
    /\ Decided = Keys
    /\ published' = [successes |-> Counted(TRUE), failures |-> Counted(FALSE)]
    /\ UNCHANGED verdicts

Next == Publish \/ \E key \in Keys, ok \in BOOLEAN : Decide(key, ok)

Spec == Init /\ [][Next]_vars
===============================================================================

------------------------------ MODULE MCTwoPhase ------------------------------
(* Instances of TwoPhase.                                                   *)
EXTENDS TwoPhase

\* The precheck rejects the second attempt of problem 0.
RejectsOne == {<<0, 1>>}
===============================================================================

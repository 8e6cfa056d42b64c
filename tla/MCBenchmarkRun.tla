---------------------------- MODULE MCBenchmarkRun ----------------------------
(* Instances of BenchmarkRun.                                               *)
EXTENDS BenchmarkRun

RejectsNone == {}

\* The precheck rejects the second attempt of problem 0.
RejectsOne == {<<0, 1>>}

(* Two statements with two or four attempts for ExpandedValidation.         *)
Pairs == INSTANCE ExpandedValidation WITH Statements <- 2, Attempts <- 2
Fours == INSTANCE ExpandedValidation WITH Statements <- 2, Attempts <- 4
Named == [id : {1, 2}, text : {"p", "q"}]
ASSUME \A rows \in [1 .. 4 -> Named], n \in 2 .. 3 :
    \A rebuilt \in [1 .. n -> Named] : Pairs!RestoreIsBijective(rebuilt, rows)
Attempt(p, i, ok) == [problem |-> p, index |-> i, ok |-> ok]
Complete == {[i \in 1 .. 8 |-> Attempt(IF i <= 4 THEN "a" ELSE "b", (i - 1) % 4, won[i])] :
                won \in [1 .. 8 -> BOOLEAN]}
Repeating == {[i \in 1 .. 4 |-> Attempt("a", n[i], won[i])] :
                n \in [1 .. 4 -> 0 .. 2], won \in [1 .. 4 -> BOOLEAN]}
ASSUME \A rows \in Complete \cup Repeating : Fours!RatesRise(rows)
Early == {rows \in Complete : \A i \in {3, 4, 7, 8} : rows[i].ok = rows[3].ok}
ASSUME \A left, right \in Early : Fours!PairsAgree(left, right)
ASSUME Pairs!TestIsSymmetric(9) /\ Pairs!SeedPerBatch(30, 8)
===============================================================================

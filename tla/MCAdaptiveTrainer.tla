--------------------------- MODULE MCAdaptiveTrainer ---------------------------
(* Cycle 1 in one segment, cycle 2 split by a stop that save_steps skips,    *)
(* as the steps 96 - 108 - 112 of run_dynamic_resume108_to144.sbatch.        *)
EXTENDS AdaptiveTrainer, Sequences
Rewards == INSTANCE RewardShaping

TwoCycles == <<[cycle |-> 1, stop |-> 2], [cycle |-> 2, stop |-> 3],
               [cycle |-> 2, stop |-> 4]>>

(* The groups of eight with scores that tie, differ or are missing.        *)
Trajectories == {[ok |-> ok, score |-> s] : ok \in BOOLEAN, s \in {<<>>, <<1>>, <<2>>}}
Repeated(head, last, n) == head \o [i \in 1 .. n - Len(head) |-> last]
Groups == {Repeated(<<a, b, c>>, d, 8) : a, b, c, d \in Trajectories}
          \cup {Repeated(<<a, b>>, c, n) : a, b, c \in Trajectories, n \in {16, 32}}
ASSUME \A g \in Groups :
    /\ Rewards!Teaches(g, Rewards!DynamicAdvantages(g), Rewards!DynamicEffective(g))
    /\ Len(g) = 8 => Rewards!Teaches(g, Rewards!StaticAdvantages(g), Rewards!StaticEffective(g))
ASSUME Rewards!WeightFalls
ASSUME Rewards!StepWithinFull(16)
Receipt(problem, attempt, lineage) == [problem |-> problem, attempt |-> attempt, lineage |-> lineage]
Whole8 == [i \in 1 .. 8 |-> Receipt("a", i - 1, "now")]
Odd == {Receipt(p, n, l) : p \in {"a", "b"}, n \in {0, 7, 8}, l \in {"now", "screen"}}
ASSUME Rewards!TrainableIsGroup({[Whole8 EXCEPT ![i] = x, ![j] = y] : i, j \in 1 .. 8, x, y \in Odd}, "now")
=============================================================================

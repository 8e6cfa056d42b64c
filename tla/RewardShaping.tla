----------------------------- MODULE RewardShaping -----------------------------
(***************************************************************************)
(* The reward of one problem's group, static (adaptive_grpo_core.py) and   *)
(* dynamic (dynamic_cycle_v2.py), in integers: a value is named with the   *)
(* unit it is counted in.  A group is a sequence of trajectories           *)
(* [ok, score]; score is <<mean log-probability>>, <<>> when not finite.   *)
(***************************************************************************)
EXTENDS Integers, Sequences, FiniteSets, FiniteSetsExt, SequencesExt

Successes(g) == Cardinality({i \in DOMAIN g : g[i].ok})
FiniteScores(g) == {i \in DOMAIN g : g[i].score # <<>>}
Above(g, i) == {j \in FiniteScores(g) : g[j].score[1] > g[i].score[1]}
Level(g, i) == {j \in FiniteScores(g) : g[j].score = g[i].score}

\* _average_tie_ranks_desc, doubled
TieRanks2(g) ==
    [i \in FiniteScores(g) |-> 2 * Cardinality(Above(g, i)) + Cardinality(Level(g, i)) - 1]
\* The dynamic cycle ranks equal scores by their position.
OrderRanks2(g) ==
    [i \in FiniteScores(g) |-> 2 * Cardinality(Above(g, i) \cup {j \in Level(g, i) : j < i})]

\* trajectory_rank_factors with beta = 1/8, in 1 / Whole(g);
\* rank2[i] is twice the rank of the trajectory i
Whole(g) == 16 * (IF FiniteScores(g) = {} THEN 1 ELSE Cardinality(FiniteScores(g)))
Factor(g, i, rank2) ==
    IF i \in FiniteScores(g) THEN 14 * Cardinality(FiniteScores(g)) + rank2[i] ELSE Whole(g)

\* problem_weight, in 1/3200
ProblemWeight(successes, attempts) ==
    CASE successes = 0 \/ (attempts = 8 /\ successes > 4) -> 0
      [] successes \in 1 .. 4 /\ attempts = 8 -> 32 * <<120, 110, 100, 90>>[successes]
      [] successes > 0 /\ attempts # 8 /\ 8 * successes > attempts -> 3200
      [] OTHER -> 3200 + (960 * (attempts - 8 * successes)) \div attempts

\* difficulty_weight, in 1/400: linear between the anchors at whole eighths
Anchor == <<130, 110, 80, 60, 0>>
DifficultyWeight(successes, attempts) ==
    LET quarters == (32 * successes) \div attempts
        low == quarters \div 4
    IN CASE successes = 0 \/ quarters >= 20 -> 0
         [] successes > 0 /\ quarters <= 4 -> 4 * Anchor[1]
         [] OTHER -> Anchor[low] * (4 - (quarters % 4)) + Anchor[low + 1] * (quarters % 4)

\* topup_mass_scale, in 1/4
TopupMass(attempts) == 32 \div attempts
\* effective_step_scale with its cap of 3/2, as a fraction
StepScale(effective, perStep) ==
    CASE effective = 0 -> <<0, 1>>
      [] effective > 0 /\ 2 * perStep > 3 * effective -> <<3, 2>>
      [] OTHER -> <<perStep, effective>>

Shaped(g, weight, rank2) ==
    [i \in DOMAIN g |-> IF g[i].ok THEN weight * Factor(g, i, rank2) ELSE 0]
\* minus the mean, in 1 / Len(g) of the unit of the shaped rewards
Centered(shaped) ==
    LET total == FoldLeft(LAMBDA s, v : s + v, 0, shaped)
    IN [i \in DOMAIN shaped |-> Len(shaped) * shaped[i] - total]

\* shape_group_rewards
StaticAdvantages(g) == Centered(Shaped(g, ProblemWeight(Successes(g), Len(g)), TieRanks2(g)))
StaticEffective(g) == Successes(g) \in 1 .. 4
\* shape_current_cycle_group
DynamicAdvantages(g) ==
    Centered(Shaped(g, DifficultyWeight(Successes(g), Len(g)) * TopupMass(Len(g)), OrderRanks2(g)))
DynamicEffective(g) == DifficultyWeight(Successes(g), Len(g)) > 0

\* validate_training_reward_group: one fresh pass@8 of one problem, by the
\* policy that is about to be updated
Trainable(receipts, lineage) ==
    /\ Len(receipts) = 8
    /\ \A i \in DOMAIN receipts :
        /\ receipts[i].lineage = lineage /\ receipts[i].attempt \in 0 .. 7
        /\ receipts[i].problem = receipts[1].problem
        /\ \A j \in DOMAIN receipts : receipts[j].attempt = receipts[i].attempt => i = j

-------------------------------------------------------------------------------
(* What the rewards are meant for.                                         *)

\* A group teaches something exactly when it is effective; then every success
\* gains and every failure loses, and of two successes the one the old policy
\* found less likely does not gain less.
Teaches(g, advantages, effective) ==
    /\ effective <=> \E i \in DOMAIN g : advantages[i] # 0
    /\ effective => \A i \in DOMAIN g : IF g[i].ok THEN advantages[i] > 0 ELSE advantages[i] < 0
    /\ \A i, j \in DOMAIN g :
        (g[i].ok /\ g[j].ok /\ {i, j} \subseteq FiniteScores(g)
            /\ g[i].score[1] < g[j].score[1]) => advantages[i] >= advantages[j]

\* The weight of a problem never rises with its success rate, over all the
\* sizes of a group, and the mass of a top-up is that of a pass@8 at its rate.
WeightFalls ==
    \A a, b \in {8, 16, 32} : \A s \in 1 .. a, t \in 1 .. b :
        /\ s * b <= t * a => DifficultyWeight(s, a) >= DifficultyWeight(t, b)
        /\ s * b = t * a =>
              s * TopupMass(a) * DifficultyWeight(s, a) = t * TopupMass(b) * DifficultyWeight(t, b)

\* A step with few effective groups is scaled up, never beyond the mass that a
\* step full of effective groups has.
StepWithinFull(perStep) ==
    \A n \in 1 .. perStep : LET scale == StepScale(n, perStep)
                            IN scale[1] * n <= perStep * scale[2] /\ scale[1] >= scale[2]

\* Receipts that pass for a training group are the eight attempts of one problem.
TrainableIsGroup(lists, lineage) ==
    \A r \in lists : Trainable(r, lineage) =>
        /\ {r[i].attempt : i \in DOMAIN r} = 0 .. 7
        /\ Cardinality({r[i].problem : i \in DOMAIN r}) = 1
===============================================================================

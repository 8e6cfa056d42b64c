---------------------------- MODULE MCDynamicCycle ----------------------------
(* A small instance of DynamicCycle. *)
EXTENDS DynamicCycle
Banks == INSTANCE RolloutBanks

CONSTANTS p1, p2, p3
Symmetry == Permutations({p1, p2, p3})

(* Every step of a layout has all its problems, and the records of a       *)
(* bucket, which follow one another, are spread as evenly over the steps   *)
(* as they can be (the layout loop of build_cycle_schedule).               *)
ASSUME BalancedSteps ==
    \A steps \in 1 .. 4, perStep \in 1 .. 3 :
        LET at == Layout(steps, perStep)
            load(v, i, j) == Cardinality({n \in i .. j : at[n] = v})
        IN  \A v, w \in 0 .. steps - 1 :
              /\ load(v, 1, Len(at)) = perStep
              /\ \A i, j \in DOMAIN at : load(v, i, j) <= load(w, i, j) + 1
(* The static rollouts that the dynamic cycle replaced: a round over every *)
(* combination of early, late and absent successes of three problems.      *)
Tie == <<"a", "b", "c">>
Ids == Range(Tie)
SolvedAt(positions) == [i \in 1 .. 32 |-> i \in positions]
Careers == {SolvedAt(w) : w \in {{}, {3}, 1 .. 6, {9, 12}, {20}}}
Pasts == {[p \in Ids |-> [successes |-> s[p], attempts |-> 16]] :
            s \in {[a |-> 0, b |-> 2, c |-> 5], [a |-> 3, b |-> 3, c |-> 1]}}
ASSUME RoundsAreSound ==
    \A past \in Pasts, results \in [Ids -> Careers] :
        Banks!RoundIsSound(past, results, 2, 1, 2, Tie)
ASSUME \A five, six \in [Ids -> {0, 1, 4, 5, 8}] :
    \A quotas \in {<<1, 1, 0, 0>>, <<0, 1, 1, 1>>, <<1, 0, 0, 1>>} :
        Banks!QuotasFill(five, six, quotas, Tie)
Histories == UNION {[S -> {[successes |-> s, attempts |-> 8, route |-> r] :
                              s \in {0, 3}, r \in {"mastered", "hard_bank", "active_pass8"}}] :
                      S \in SUBSET Ids}
ASSUME UnseenAreSelected ==
    \A h \in Histories, budget \in 1 .. 3 : Banks!SelectsUnseen(Ids, h, budget, Tie)
ASSUME Banks!ChancesAddUp(24)
ASSUME \A n \in 1 .. 5, t \in 0 .. 12 : Banks!BudgetIsSpent(n, t)
ASSUME \A n \in 0 .. 7, k \in 1 .. 4 : Banks!ShardsPartition([i \in 1 .. n |-> i], k)
=============================================================================

------------------------------ MODULE RolloutBanks ------------------------------
(***************************************************************************)
(* The static capped rollouts: problems are selected from a history, each  *)
(* is attempted eight times, some without success eight and some of those  *)
(* sixteen times more, and the merged receipts route them into banks.  The *)
(* scripts hand each other files; each is an operator here.  The receipts  *)
(* of a stage are a function from problems to sequences of successes; tie  *)
(* is the sequence of all problems in the order of their hashes.           *)
(***************************************************************************)
EXTENDS Integers, Sequences, FiniteSets, FiniteSetsExt, SequencesExt

Count(results) == Len(SelectSeq(results, LAMBDA ok : ok))
TakeFirst(seq, n) == SubSeq(seq, 1, IF n < Len(seq) THEN n ELSE Len(seq))

Choose(n, k) == FoldLeft(LAMBDA c, i : (c * (n - k + i)) \div i, 1, [i \in 1 .. k |-> i])
\* history_rollout_priority: the chance of one to four successes in the next
\* eight attempts, after a uniform prior
Chance(k, successes, attempts) ==
    Choose(successes + k, k) * Choose(attempts - successes + 8 - k, 8 - k)
Outcomes(attempts) == Choose(attempts + 9, 8)
Useful(h) == MapThenSumSet(LAMBDA k : Chance(k, h.successes, h.attempts), 1 .. 4)
\* a fraction below one by its first decimals, which tell these fractions apart
Decimals(num, den) ==
    FoldLeft(LAMBDA s, i : [rest |-> (10 * s.rest) % den,
                            digits |-> Append(s.digits, (10 * s.rest) \div den)],
             [rest |-> num, digits |-> <<>>], [i \in 1 .. 16 |-> i]).digits
Priority(h) == Decimals(Useful(h), Outcomes(h.attempts))
Higher(p, q) == \E i \in DOMAIN p : p[i] > q[i] /\ \A j \in 1 .. i - 1 : p[j] = q[j]

\* the members of ids, the better ones first, then in the order of tie;
\* better[q, p] says that q comes before p
Ranked(ids, better, tie) ==
    LET behind(p) == Cardinality({q \in ids : better[q, p]})
        of(n) == SelectSeq(tie, LAMBDA p : p \in ids /\ behind(p) = n)
    IN FlattenSeq([n \in 1 .. Cardinality(ids) |-> of(n - 1)])

-------------------------------------------------------------------------------
(* Selection                                                               *)

\* build_round56_selection: from the successes of two rounds of eight
Status(successes) ==
    CASE successes = 0 -> "hard" [] successes \in 1 .. 4 -> "active" [] OTHER -> "mastered"
Strata == <<{"active"}, {"active", "hard"}, {"active", "mastered"}, {"hard"}>>
Stratum(five, six, n) == {p \in DOMAIN five : {Status(five[p]), Status(six[p])} = Strata[n]}
FromTarget(five, six, p) ==
    IF five[p] + six[p] < 4 THEN 4 - five[p] - six[p] ELSE five[p] + six[p] - 4
Enough(five, six, quotas) ==
    \A n \in DOMAIN Strata : Cardinality(Stratum(five, six, n)) >= quotas[n]
Stratified(five, six, quotas, tie) ==
    LET closer == [p, q \in DOMAIN five |-> FromTarget(five, six, p) < FromTarget(five, six, q)]
    IN UNION {Range(TakeFirst(Ranked(Stratum(five, six, n), closer, tie), quotas[n])) :
                n \in DOMAIN Strata}

\* select_rollouts: history has the problems that were seen before
Cooling(history, p) == p \in DOMAIN history /\ history[p].route \in {"mastered", "hard_bank"}
Precedes(history, p, q) ==
    CASE q \notin DOMAIN history -> FALSE
      [] q \in DOMAIN history /\ p \notin DOMAIN history -> TRUE
      [] OTHER -> Higher(Priority(history[p]), Priority(history[q]))
SelectRollouts(source, history, budget, includeCooling, tie) ==
    LET open == {p \in source : includeCooling \/ ~ Cooling(history, p)}
    IN Range(TakeFirst(Ranked(open, [p, q \in open |-> Precedes(history, p, q)], tie), budget))

\* freeze_stage_shards: the rows of one shard, by their global index
Shard(rows, shards, n) ==
    SelectSeq([i \in DOMAIN rows |-> i], LAMBDA i : (i - 1) % shards = n)

-------------------------------------------------------------------------------
(* Attempts and top-ups                                                    *)

Failed(stage) == {p \in DOMAIN stage : Count(stage[p]) = 0}
\* build_topup_selection, on eight attempts of every problem of the pool
Pass16(pass8, past, limit, tie) ==
    LET better == [p, q \in Failed(pass8) |->
            \/ Higher(Priority(past[p]), Priority(past[q]))
            \/ /\ Priority(past[p]) = Priority(past[q])
               /\ past[p].successes > 0 /\ past[q].successes = 0]
    IN Range(TakeFirst(Ranked(Failed(pass8), better, tie), limit))
\* build_pass32_selection, on eight more of those
Hopeful(pass16, past) == {p \in Failed(pass16) : past[p].successes > 0}
Pass32(pass16, past, limit, tie) ==
    LET better == [p, q \in Hopeful(pass16, past) |-> Higher(Priority(past[p]), Priority(past[q]))]
    IN Range(TakeFirst(Ranked(Hopeful(pass16, past), better, tie), limit))

\* merge_capped_receipts: the attempts of a problem in the order of the stages
Of(stage, p) == IF p \in DOMAIN stage THEN stage[p] ELSE <<>>
Merged(pass8, pass16, pass32) ==
    [p \in DOMAIN pass8 \cup DOMAIN pass16 \cup DOMAIN pass32 |->
        Of(pass8, p) \o Of(pass16, p) \o Of(pass32, p)]

-------------------------------------------------------------------------------
(* Routing                                                                 *)

\* route_rollout of the sorted attempts of a problem
Route(attempts) ==
    LET initial == Count(TakeFirst(attempts, 8))
        total == Count(attempts)
    IN CASE initial >= 5 -> "mastered"
         [] initial \in 1 .. 4 -> "active_pass8"
         [] initial = 0 /\ Len(attempts) = 8 -> "need_pass16_topup"
         [] initial = 0 /\ Len(attempts) > 8 /\ total > 0 -> "active_after_topup"
         [] initial = 0 /\ Len(attempts) = 16 /\ total = 0 -> "need_pass32_topup"
         [] initial = 0 /\ Len(attempts) = 32 /\ total = 0 -> "hard_bank"
Routable(attempts) == Len(attempts) \in {8, 16, 32}
TopUpNeeded(route) ==
    CASE route = "need_pass16_topup" -> 8 [] route = "need_pass32_topup" -> 16 [] OTHER -> 0

\* route_receipts: what the history is told of a problem
Snapshot(attempts) ==
    LET counted == IF Route(attempts) \in {"active_pass8", "mastered"}
                   THEN TakeFirst(attempts, 8) ELSE attempts
    IN [route |-> Route(attempts), successes |-> Count(counted), attempts |-> Len(counted)]
\* merge_history
MergeHistory(history, merged) ==
    LET before(p) == IF p \in DOMAIN history THEN history[p]
                     ELSE [successes |-> 0, attempts |-> 0, visits |-> 0]
        now(p) == Snapshot(merged[p])
    IN [p \in DOMAIN history \cup DOMAIN merged |->
          IF p \notin DOMAIN merged THEN history[p]
          ELSE [route |-> now(p).route, visits |-> before(p).visits + 1,
                successes |-> before(p).successes + now(p).successes,
                attempts |-> before(p).attempts + now(p).attempts]]

\* build_pool: whole optimizer windows of the active problems, best first
Active(merged) ==
    {p \in DOMAIN merged : Route(merged[p]) \in {"active_pass8", "active_after_topup"}}
Aligned(n, perUpdate) == (n \div perUpdate) * perUpdate
TrainingOrder(merged, history, byName) ==
    LET better == [p, q \in Active(merged) |-> Higher(Priority(history[p]), Priority(history[q]))]
    IN Ranked(Active(merged), better, byName)
TrainingPool(merged, history, perUpdate, byName) ==
    LET order == TrainingOrder(merged, history, byName)
    IN TakeFirst(order, Aligned(Len(order), perUpdate))
\* expand_training_budget: boosted are the positions that the shuffle picks
Repeats(problems, tickets, boosted) ==
    [i \in 1 .. problems |-> tickets \div problems + IF i \in boosted THEN 1 ELSE 0]
Boosts(problems, tickets) ==
    {b \in SUBSET (1 .. problems) : Cardinality(b) = tickets % problems}

-------------------------------------------------------------------------------
(* What the scripts rely on in one another's files.                        *)

\* A round of the capped rollouts over the given outcomes of the attempts, with
\* past the successes and attempts behind the selection (of rounds 5 and 6, that
\* the history does not hold): every merged problem can be routed; attempts
\* beyond the eighth were spent on failures only, and beyond the sixteenth on
\* problems that were once solved; only such a problem, failed 32 times, cools
\* in the hard bank, and no ticket is trained that was not solved in this round.
RoundIsSound(past, results, limit16, limit32, perUpdate, tie) ==
    LET pass8 == [p \in DOMAIN past |-> SubSeq(results[p], 1, 8)]
        pass16 == [p \in Pass16(pass8, past, limit16, tie) |-> SubSeq(results[p], 9, 16)]
        pass32 == [p \in Pass32(pass16, past, limit32, tie) |-> SubSeq(results[p], 17, 32)]
        merged == Merged(pass8, pass16, pass32)
        history == MergeHistory(<<>>, merged)
        pool == TrainingPool(merged, history, perUpdate, tie)
        hard == {p \in DOMAIN merged : Route(merged[p]) = "hard_bank"}
    IN /\ \A p \in DOMAIN merged :
            Routable(merged[p]) /\ Len(merged[p]) + TopUpNeeded(Route(merged[p])) \in {8, 16, 32}
       /\ \A p \in DOMAIN merged : Len(merged[p]) > 8 => Count(SubSeq(results[p], 1, 8)) = 0
       /\ hard \subseteq {p \in DOMAIN past : past[p].successes > 0 /\ Count(results[p]) = 0}
       /\ \A i \in DOMAIN pool : Count(merged[pool[i]]) > 0
       /\ Len(pool) % perUpdate = 0 /\ IsInjective(pool)
       /\ \A p \in DOMAIN past :
            history[p].attempts = IF Count(SubSeq(results[p], 1, 8)) > 0 THEN 8 ELSE Len(merged[p])

\* The strata do not overlap: when each is large enough, the pool has the size
\* of the quotas together, and only the last one holds problems never solved.
QuotasFill(five, six, quotas, tie) ==
    LET pool == Stratified(five, six, quotas, tie) IN
    Enough(five, six, quotas) =>
        /\ Cardinality(pool) = FoldLeft(LAMBDA s, n : s + n, 0, quotas)
        /\ Cardinality({p \in pool : five[p] + six[p] = 0}) = quotas[4]

\* Problems that were never seen come before all others, cooled ones never, and
\* the budget is spent.
SelectsUnseen(source, history, budget, tie) ==
    LET selected == SelectRollouts(source, history, budget, FALSE, tie)
        unseen == source \ DOMAIN history
        open == {p \in source : ~ Cooling(history, p)}
    IN /\ selected \subseteq open
       /\ unseen \subseteq selected \/ selected \subseteq unseen
       /\ Cardinality(selected) = IF budget < Cardinality(open) THEN budget ELSE Cardinality(open)

\* The chances of nought to eight successes are a distribution, and that of one
\* to four is below the certainty an unseen problem is given.
ChancesAddUp(most) ==
    \A n \in 0 .. most : \A s \in 0 .. n :
        /\ MapThenSumSet(LAMBDA k : Chance(k, s, n), 0 .. 8) = Outcomes(n)
        /\ Useful([successes |-> s, attempts |-> n]) < Outcomes(n)

\* A budget of tickets is spent exactly, on every problem at least as often as
\* on any other but once; every row is in one shard.
BudgetIsSpent(problems, tickets) ==
    \A b \in Boosts(problems, tickets) :
        LET r == Repeats(problems, tickets, b)
        IN /\ FoldLeft(LAMBDA s, n : s + n, 0, r) = tickets
           /\ \A i, j \in DOMAIN r : r[i] <= r[j] + 1
ShardsPartition(rows, shards) ==
    \A i \in DOMAIN rows :
        Cardinality({n \in 0 .. shards - 1 : Contains(Shard(rows, shards, n), i)}) = 1
================================================================================

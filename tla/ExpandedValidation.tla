--------------------------- MODULE ExpandedValidation ---------------------------
(***************************************************************************)
(* evaluation/expanded_validation.py: the rows of an earlier round are     *)
(* found again in a rebuilt dataset, and two models are compared on the    *)
(* attempts of one set of statements.  An attempt is [problem, index, ok]; *)
(* the functions raise where they return <<>> here.                        *)
(***************************************************************************)
EXTENDS Integers, Sequences, FiniteSets, SequencesExt, FiniteSetsExt

CONSTANTS Statements,  \* 500 in the code
          Attempts     \* 4 in the code

------------------------------------------------------------------------------
(* restore_full500_rows                                                    *)

CountOf(rows, id) == Cardinality({i \in DOMAIN rows : rows[i].id = id})
\* stable_full500_ids, over generation rows [id, text]; text is normalized
StableIds(rows) ==
    LET first == SelectSeq([i \in DOMAIN rows |-> i],
                           LAMBDA i : \A j \in 1 .. i - 1 : rows[j].id # rows[i].id)
        ids == [k \in DOMAIN first |-> rows[first[k]].id]
    IN IF /\ Len(ids) = Statements
          /\ \A id \in Range(ids) : CountOf(rows, id) = Attempts
       THEN ids ELSE <<>>
TextsOf(rows, id) == {rows[i].text : i \in {i \in DOMAIN rows : rows[i].id = id}}
\* restore_full500_rows, over rebuilt rows [id, text]
RestoredRows(rebuilt, rows) ==
    LET ids == StableIds(rows)
        matches(id) == {r \in DOMAIN rebuilt : rebuilt[r].text \in TextsOf(rows, id)}
        restored == [k \in DOMAIN ids |->
            [id |-> ids[k], was |-> rebuilt[CHOOSE r \in matches(ids[k]) : TRUE].id]]
    IN IF /\ ids # <<>>
          /\ \A id \in Range(ids) : Cardinality(TextsOf(rows, id)) = 1 /\ Cardinality(matches(id)) = 1
          /\ Cardinality({restored[k].was : k \in DOMAIN ids}) = Statements
       THEN restored ELSE <<>>
\* assert_disjoint
Disjoint(left, right) ==
    /\ {r.id : r \in left} \cap {r.id : r \in right} = {}
    /\ {r.text : r \in left} \cap {r.text : r \in right} = {}

\* seed_map: the batch a row is generated in has one seed
Seed(global, index, batch) == global - 10000000 + ((index \div batch) * batch)

------------------------------------------------------------------------------
(* Metrics and gates                                                       *)

Problems(rows) == {rows[i].problem : i \in DOMAIN rows}
SuccessCount(rows, p) == Cardinality({i \in DOMAIN rows : rows[i].problem = p /\ rows[i].ok})
\* success_counts raises otherwise
FourEach(rows) ==
    \A p \in Problems(rows) : Cardinality({i \in DOMAIN rows : rows[i].problem = p}) = Attempts
\* the last row of attempt 0 decides
First(rows) ==
    {p \in Problems(rows) : \E i \in DOMAIN rows :
        /\ rows[i].problem = p /\ rows[i].index = 0 /\ rows[i].ok
        /\ \A j \in i + 1 .. Len(rows) : rows[j].problem = p => rows[j].index # 0}
FirstTwo(rows) ==
    {rows[i].problem : i \in {i \in DOMAIN rows : rows[i].index < 2 /\ rows[i].ok}}
Solved(rows) == {p \in Problems(rows) : SuccessCount(rows, p) > 0}
\* metric_summary: the numerators of the three rates, and its distribution
Passes(rows) == <<Cardinality(First(rows)), Cardinality(FirstTwo(rows)), Cardinality(Solved(rows))>>
Distribution(rows) ==
    [n \in 0 .. 4 |-> Cardinality({p \in Problems(rows) : SuccessCount(rows, p) = n})]

\* paired_analysis, without its bootstrap
Paired(left, right) ==
    IF ~ (FourEach(left) /\ FourEach(right) /\ Problems(left) = Problems(right)) THEN <<>>
    ELSE LET l == Solved(left)
             r == Solved(right)
         IN <<[both |-> Cardinality(l \cap r), left |-> Cardinality(l \ r),
               right |-> Cardinality(r \ l), neither |-> Cardinality(Problems(left) \ (l \cup r)),
               delta4 |-> Cardinality(r) - Cardinality(l),
               delta1 |-> Cardinality(First(right)) - Cardinality(First(left))]>>
\* exact_mcnemar, times 2^(left + right)
Choose2(n) == [k \in 0 .. n |-> Cardinality({s \in SUBSET (1 .. n) : Cardinality(s) = k})]
McNemar(left, right) ==
    LET n == left + right
        low == IF left < right THEN left ELSE right
        tail == 2 * MapThenSumSet(LAMBDA k : Choose2(n)[k], 0 .. low)
    IN IF n = 0 \/ tail > 2 ^ n THEN 2 ^ n ELSE tail

\* primary_gate and benchmark_gate over the solved counts [m0, b2] of each set
NotLower(x, slack) == x.b2 >= x.m0 - slack
PrimaryGate(strict, nonexpert, monitor) ==
    NotLower(strict, 0) /\ NotLower(nonexpert, 1) /\ NotLower(monitor, 1)
BenchmarkGate(strict, strict2, monitor, monitor2) ==
    NotLower(strict, 0) /\ NotLower(strict2, 0) /\ NotLower(monitor, 1) /\ NotLower(monitor2, 1)

------------------------------------------------------------------------------
(* What the comparison promises                                            *)

\* Either nothing is restored, or every old statement is one new row of its own
\* text, and no new row stands for two.
RestoreIsBijective(rebuilt, rows) ==
    LET s == RestoredRows(rebuilt, rows) IN
    s # <<>> =>
        /\ Len(s) = Statements
        /\ \A i, j \in DOMAIN s : s[i].was = s[j].was <=> i = j
        /\ \A i \in DOMAIN s : \E r \in Range(rebuilt) :
             r.id = s[i].was /\ TextsOf(rows, s[i].id) = {r.text}

\* The rates rise from pass@1 to pass@4, also when the indices of the attempts
\* repeat, which success_counts does not refuse; the distribution counts every
\* problem, and its zero row the unsolved ones.
RatesRise(rows) ==
    LET passes == Passes(rows)
        d == Distribution(rows)
    IN FourEach(rows) =>
        /\ passes[1] <= passes[2] /\ passes[2] <= passes[3]
        /\ MapThenSumSet(LAMBDA n : d[n], 0 .. 4) = Cardinality(Problems(rows))
        /\ d[0] = Cardinality(Problems(rows)) - passes[3]

\* The four cells count every statement once, agree with the difference of the
\* rates, and exchanging the models exchanges them; the test is symmetric, and
\* weaker the nearer the discordant pairs are to even.
PairsAgree(left, right) ==
    LET pair == Paired(left, right)
        back == Paired(right, left)
    IN pair # <<>> =>
        /\ pair[1].both + pair[1].left + pair[1].right + pair[1].neither
             = Cardinality(Problems(left))
        /\ pair[1].delta4 = pair[1].right - pair[1].left
        /\ pair[1].left = back[1].right /\ pair[1].delta1 = - back[1].delta1
TestIsSymmetric(most) ==
    \A a, b \in 0 .. most : a + b <= most =>
        /\ McNemar(a, b) = McNemar(b, a) /\ McNemar(a, b) \in 1 .. 2 ^ (a + b)
        /\ a < b => McNemar(a, b) <= McNemar(a + 1, b - 1)

\* Rows share a seed exactly when they share a batch.
SeedPerBatch(rows, batch) ==
    \A i, j \in 0 .. rows - 1 :
        Seed(20260730, i, batch) = Seed(20260730, j, batch) <=> i \div batch = j \div batch
================================================================================

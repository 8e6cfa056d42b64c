----------------------------- MODULE DynamicCycle -----------------------------
(***************************************************************************)
(* dynamic_cycle_controller.py over dynamic_cycle_v2.py, as the driver     *)
(* run_dynamic48_two_new_screens.sbatch runs it: a cycle freezes a screen  *)
(* pool, binds the receipts of pass@8 and of two capped top-ups, freezes a *)
(* training schedule, appends to the rollout history that ranks the next   *)
(* pool, and is trained.  The job may die inside finalize, whose directory *)
(* has a fixed path (exist_ok=False); a resubmitted job looks only for the *)
(* report.  The other commands write one file that is read, and count as   *)
(* one step.                                                               *)
(*                                                                         *)
(* Attempts are counted by stage.  A hash-ordered choice is any choice.    *)
(***************************************************************************)
EXTENDS Integers, SequencesExt

CONSTANTS
    Problems,             \* the rows of the source dataset
    ScreenProblems,       \* screen_problems
    StepsPerCycle, ProblemsPerStep,
    Pass16Limit, Pass32Limit,
    Counts8, CountsTopup, \* successes a stage may count
    MaxCycle, MaxPolicy, MaxCrashes  \* bounds

TrainingSlots == StepsPerCycle * ProblemsPerStep

ASSUME CycleAssumption ==
    /\ IsFiniteSet(Problems)
    /\ {StepsPerCycle, ProblemsPerStep} \subseteq Nat \ {0}
    /\ {ScreenProblems, Pass16Limit, Pass32Limit} \subseteq Nat
    /\ {MaxCycle, MaxPolicy, MaxCrashes} \subseteq Nat
    /\ ScreenProblems >= TrainingSlots
    /\ Counts8 \subseteq 0 .. 8 /\ CountsTopup \subseteq 0 .. 8

Stages == {"pass8", "pass16", "pass32"}
Limit == [pass16 |-> Pass16Limit, pass32 |-> Pass32Limit]
Earlier == [pass8 |-> {}, pass16 |-> {"pass8"}, pass32 |-> {"pass8", "pass16"}]

VARIABLES
    policy,   \* the policy that generates now; training moves it on
    cycle,    \* identity in CYCLE_FROZEN.json: [id, old, pool]
    bound,    \* bound receipt files: [ident, stage, rows]
    plans,    \* top-up pools: [ident, stage, pool]
    dirs,     \* dirs[c]: cycle c's schedule directory
    finalizing, crashes
vars == <<policy, cycle, bound, plans, dirs, finalizing, crashes>>

------------------------------------------------------------------------------
(* Routing (classify_screen_group)                                         *)

\* F: the bound files given to the command
StagesOf(F, p) == {f.stage : f \in {g \in F : p \in DOMAIN g.rows}}
Rows(F, p, stages) ==
    {f \in F : f.stage \in stages /\ p \in DOMAIN f.rows}
Successes(F, p, stages) ==
    MapThenSumSet(LAMBDA f : f.rows[p].successes, Rows(F, p, stages))
Total(F, p) == Successes(F, p, Stages)
Initial(F, p) == Successes(F, p, {"pass8"})

Canonical(S) == S \in {{"pass8"}, {"pass8", "pass16"}, Stages}

\* Mutant of Route: a problem with exactly five successes stays active.
RouteAbove5(F, p) ==
    IF Initial(F, p) > 5 THEN "mastered"
    ELSE IF Initial(F, p) > 0 THEN "active_pass8"
    ELSE IF Total(F, p) > 0 THEN "active_after_topup"
    ELSE IF StagesOf(F, p) = Stages THEN "hard_bank"
    ELSE "unresolved_zero"

Route(F, p) ==
    IF Initial(F, p) >= 5 THEN "mastered"
    ELSE IF Initial(F, p) > 0 THEN "active_pass8"
    ELSE IF Total(F, p) > 0 THEN "active_after_topup"
    ELSE IF StagesOf(F, p) = Stages THEN "hard_bank"
    ELSE "unresolved_zero"

Bucket(F, p) ==
    IF Route(F, p) = "active_after_topup" \/ Initial(F, p) <= 2 THEN "sparse"
    ELSE IF Initial(F, p) = 3 THEN "middle"
    ELSE "boundary"

Active == {"active_pass8", "active_after_topup"}
Routed(F, pool, routes) == {p \in pool : Route(F, p) \in routes}

\* validate_receipt_set
ValidReceipts(F, ident) ==
    /\ \A f \in F : f.ident = ident
    /\ \A f, g \in F : f # g /\ f.stage = g.stage
                         => DOMAIN f.rows \cap DOMAIN g.rows = {}

------------------------------------------------------------------------------
(* Commands                                                                *)

NoHistory == [p \in Problems |-> [visits |-> <<>>, route |-> "none"]]
NoDir == [report |-> "no directory", schedule |-> <<>>, history |-> NoHistory,
          trained |-> FALSE]

\* Mutant of Rank: an active problem ranks with the unseen ones.
RankActiveFirst(h, p) ==
    IF h[p].visits = <<>> \/ h[p].route \in Active \cup {"unresolved_zero"} THEN 0
    ELSE 1 + Len(h[p].visits)

\* history_rank: the tier, and in the last one the visits
Rank(h, p) ==
    IF h[p].visits = <<>> THEN 0
    ELSE IF h[p].route \in Active \cup {"unresolved_zero"} THEN 1
    ELSE 1 + Len(h[p].visits)

\* The next cycle gets the history of this one; the first one has none.
Prior(c) == IF c = 1 THEN NoHistory ELSE dirs[c - 1].history

freeze_cycle(pool) ==
    LET id == cycle.id + 1
        rank(p) == Rank(Prior(id), p)
    IN  /\ ~ finalizing /\ id <= MaxCycle
        /\ id > 1 => dirs[id - 1].trained /\ Prior(id) # NoHistory
        /\ Cardinality(pool) = ScreenProblems
        /\ \A p \in pool, q \in Problems \ pool : rank(p) <= rank(q)
        /\ cycle' = [id |-> id, old |-> policy, pool |-> pool]
        /\ UNCHANGED <<policy, bound, plans, dirs, finalizing, crashes>>

\* Mutant of bind_receipts: the generating policy is not compared.
bind_unchecked(stage, pool, by, successes) ==
    LET rows == [p \in pool |-> [successes |-> successes[p], by |-> by]] IN
    /\ \A f \in bound : f.ident = cycle => f.stage # stage
    /\ bound' = bound \cup {[ident |-> cycle, stage |-> stage, rows |-> rows]}
    /\ UNCHANGED <<policy, cycle, plans, dirs, finalizing, crashes>>

\* The generation of a stage pool by policy "by" and its compile receipts are
\* inputs, exact for the pool.
bind_receipts(stage, pool, by, successes) ==
    LET rows == [p \in pool |-> [successes |-> successes[p], by |-> by]] IN
    /\ by = cycle.old
    /\ \A f \in bound : f.ident = cycle => f.stage # stage
    /\ bound' = bound \cup {[ident |-> cycle, stage |-> stage, rows |-> rows]}
    /\ UNCHANGED <<policy, cycle, plans, dirs, finalizing, crashes>>

plan_topup(stage, F) ==
    LET eligible == {p \in UNION {DOMAIN f.rows : f \in F} :
                        StagesOf(F, p) = Earlier[stage] /\ Total(F, p) = 0}
    IN  /\ \A q \in plans : q.ident = cycle => q.stage # stage
        /\ ValidReceipts(F, cycle) /\ eligible # {}
        /\ \E pool \in kSubset(Min({Limit[stage], Cardinality(eligible)}), eligible) :
              plans' = plans \cup {[ident |-> cycle, stage |-> stage, pool |-> pool]}
        /\ UNCHANGED <<policy, cycle, bound, dirs, finalizing, crashes>>

\* round(), half to even
Round(n, d) ==
    LET twice == 2 * n + d IN
    IF twice % (2 * d) = 0 /\ (twice \div (2 * d)) % 2 = 1
      THEN (twice \div (2 * d)) - 1 ELSE twice \div (2 * d)

BucketOrder == <<"sparse", "middle", "boundary", "zero">>

\* _select_active: how many of each bucket; have: how many there are
ActiveTaken(have) ==
    LET sparse == Round(TrainingSlots, 2)
        middle == Round(3 * TrainingSlots, 10)
        first == [sparse |-> Min({sparse, have.sparse}),
                  middle |-> Min({middle, have.middle}),
                  boundary |-> Min({TrainingSlots - sparse - middle, have.boundary})]
        free == TrainingSlots - first.sparse - first.middle - first.boundary
        s == Min({free, have.sparse - first.sparse})
        m == Min({free - s, have.middle - first.middle})
        b == Min({free - s - m, have.boundary - first.boundary})
    IN  [sparse |-> first.sparse + s, middle |-> first.middle + m,
         boundary |-> first.boundary + b]

\* the step that receives each record in turn: the shortest one, and the first
\* of these from the cursor on
Layout(steps, perStep) ==
    LET place(at, n) ==
          LET load(v) == Cardinality({j \in DOMAIN at : at[j] = v})
              cursor == IF at = <<>> THEN 0 ELSE (at[Len(at)] + 1) % steps
              key(v) == load(v) * steps + ((v - cursor) % steps)
              open == {v \in 0 .. steps - 1 : load(v) < perStep}
          IN  Append(at, CHOOSE v \in open : \A w \in open : key(v) <= key(w))
    IN  FoldLeftDomain(place, <<>>, [n \in 1 .. steps * perStep |-> n])

\* build_cycle_schedule.  seq: the chosen problems, bucket after bucket
ValidSchedule(F, seq) ==
    LET pool == cycle.pool
        active == Routed(F, pool, Active)
        zero == Routed(F, pool, {"unresolved_zero", "hard_bank"})
        bucket(p) == IF p \in active THEN Bucket(F, p) ELSE "zero"
        have == [b \in {"sparse", "middle", "boundary"} |->
                    Cardinality({p \in active : Bucket(F, p) = b})]
        taken == ActiveTaken(have)
        chosen == {seq[i] : i \in DOMAIN seq}
        place(p) == CHOOSE i \in 1 .. 4 : BucketOrder[i] = bucket(p)
    IN  /\ chosen \subseteq active \cup zero /\ Cardinality(chosen) = Len(seq)
        /\ \A b \in DOMAIN taken :
              Cardinality({p \in chosen : bucket(p) = b}) = taken[b]
        /\ \A p \in chosen \cap zero, q \in zero \ chosen :
              Route(F, p) = "hard_bank" => Route(F, q) = "hard_bank"
        /\ \A i, j \in DOMAIN seq : i < j => place(seq[i]) <= place(seq[j])

ScheduleRows(F, seq) ==
    [p \in {seq[i] : i \in DOMAIN seq} |->
        [step |-> Layout(StepsPerCycle, ProblemsPerStep)
                    [CHOOSE i \in DOMAIN seq : seq[i] = p],
         route |-> Route(F, p),
         role |-> IF Route(F, p) \in Active THEN "active" ELSE "exploration_filler"]]

\* finalize up to mkdir and train_schedule.jsonl
finalize(F) ==
    /\ ~ finalizing /\ dirs[cycle.id] = NoDir
    /\ \A f \in bound : f.ident = cycle => f \in F
    /\ ValidReceipts(F, cycle)
    /\ UNION {DOMAIN f.rows : f \in F} = cycle.pool
    /\ \A p \in cycle.pool : Canonical(StagesOf(F, p))
    /\ \E seq \in [1 .. TrainingSlots -> cycle.pool] :
          /\ ValidSchedule(F, seq)
          /\ dirs' = [dirs EXCEPT ![cycle.id] =
                [ident |-> cycle, receipts |-> F, report |-> "none",
                 schedule |-> ScheduleRows(F, seq), history |-> NoHistory,
                 trained |-> FALSE]]
    /\ finalizing' = TRUE
    /\ UNCHANGED <<policy, cycle, bound, plans, crashes>>

Write(field, value) ==
    /\ dirs' = [dirs EXCEPT ![cycle.id][field] = value]
    /\ UNCHANGED <<policy, cycle, bound, plans, crashes>>

\* write_cycle_artifacts: CYCLE_SCHEDULE_FROZEN.json
WriteReport ==
    /\ finalizing /\ dirs[cycle.id].report = "none"
    /\ Write("report", "schedule") /\ UNCHANGED finalizing

\* A problem of the pool that is not trained is labelled by its counts.
LastRoute(d, p) ==
    IF p \in DOMAIN d.schedule THEN d.schedule[p].route
    ELSE IF Initial(d.receipts, p) >= 5 THEN "mastered"
    ELSE IF Total(d.receipts, p) > 0 THEN "active_after_topup"
    ELSE IF StagesOf(d.receipts, p) = Stages THEN "hard_bank"
    ELSE "unresolved_zero"

Appended(d) ==
    [p \in Problems |->
        LET prior == Prior(d.ident.id)[p] IN
        IF p \in d.ident.pool
          THEN [visits |-> Append(prior.visits,
                    [id |-> d.ident.id, successes |-> Total(d.receipts, p)]),
                route |-> LastRoute(d, p)]
          ELSE prior]

\* rollout_history.jsonl
WriteHistory ==
    /\ finalizing
    /\ dirs[cycle.id].report = "schedule" /\ dirs[cycle.id].history = NoHistory
    /\ Write("history", Appended(dirs[cycle.id])) /\ UNCHANGED finalizing

\* the report again, with the hash of the history
RewriteReport ==
    /\ finalizing /\ dirs[cycle.id].history # NoHistory
    /\ Write("report", "history") /\ finalizing' = FALSE

Crash ==
    /\ finalizing /\ crashes < MaxCrashes
    /\ finalizing' = FALSE /\ crashes' = crashes + 1
    /\ UNCHANGED <<policy, cycle, bound, plans, dirs>>

\* A directory without report stops every later job until it is removed.
RemoveDir ==
    /\ ~ finalizing /\ cycle.id > 0 /\ dirs[cycle.id].report = "none"
    /\ dirs' = [dirs EXCEPT ![cycle.id] = NoDir]
    /\ UNCHANGED <<policy, cycle, bound, plans, finalizing, crashes>>

\* prepare_fresh_cycle: a schedule that has its report is trained, which
\* moves the policy on.
Train ==
    /\ ~ finalizing /\ cycle.id > 0 /\ policy < MaxPolicy
    /\ dirs[cycle.id].report \in {"schedule", "history"}
    /\ ~ dirs[cycle.id].trained
    /\ policy' = policy + 1
    /\ dirs' = [dirs EXCEPT ![cycle.id].trained = TRUE]
    /\ UNCHANGED <<cycle, bound, plans, finalizing, crashes>>

Init ==
    /\ policy = 0
    /\ cycle = [id |-> 0, old |-> 0, pool |-> {}]
    /\ bound = {} /\ plans = {} /\ dirs = [c \in 1 .. MaxCycle |-> NoDir]
    /\ finalizing = FALSE /\ crashes = 0

StagePools(stage) ==
    IF stage = "pass8" THEN {cycle.pool}
    ELSE {q.pool : q \in {r \in plans : r.stage = stage}}

Freeze == \E pool \in SUBSET Problems : freeze_cycle(pool)
Bind ==
    /\ cycle.id > 0 /\ dirs[cycle.id] = NoDir
    /\ \E stage \in Stages, by \in 0 .. policy : \E pool \in StagePools(stage) :
         \E successes \in [pool -> IF stage = "pass8" THEN Counts8 ELSE CountsTopup] :
           bind_receipts(stage, pool, by, successes)
Plan ==
    /\ cycle.id > 0 /\ dirs[cycle.id] = NoDir
    /\ \E stage \in {"pass16", "pass32"}, F \in SUBSET bound : plan_topup(stage, F)
Finalize == cycle.id > 0 /\ \E F \in SUBSET bound : finalize(F)

Next ==
    \/ Freeze \/ Bind \/ Plan \/ Finalize
    \/ WriteReport \/ WriteHistory \/ RewriteReport
    \/ Crash \/ RemoveDir \/ Train

Spec == Init /\ [][Next]_vars

------------------------------------------------------------------------------
(* Properties                                                              *)

\* Every receipt a schedule rests on is the cycle's own and was generated by
\* the policy the cycle froze, whatever files of other cycles, policies and
\* dead commands lie around (assert_receipt_identity, bind_receipts).
ScheduleLineage ==
    \A k \in DOMAIN dirs : \A p \in DOMAIN dirs[k].schedule :
        /\ p \in dirs[k].ident.pool
        /\ \A f \in Rows(dirs[k].receipts, p, Stages) :
              /\ f.ident = dirs[k].ident
              /\ f.rows[p].by = dirs[k].ident.old

\* A schedule never trains a mastered problem, uses a zero-success problem
\* only when no active one is left out, and a hard one (0/32) only when no
\* other zero-success problem is left out (build_cycle_schedule).
RoutedOnEvidence ==
    \A k \in {c \in DOMAIN dirs : dirs[c] # NoDir} :
        LET d == dirs[k]
            rest == d.ident.pool \ DOMAIN d.schedule
            hits(p) == Total(d.receipts, p)
            attempts(p) == Cardinality(StagesOf(d.receipts, p))
        IN  \A p \in DOMAIN d.schedule :
              /\ Initial(d.receipts, p) < 5
              /\ (d.schedule[p].role = "active") = (hits(p) > 0)
              /\ hits(p) = 0 => \A q \in rest :
                    Initial(d.receipts, q) >= 5 \/ hits(q) = 0
              /\ hits(p) = 0 /\ attempts(p) = 3 => \A q \in rest :
                    hits(q) > 0 \/ attempts(q) = 3

\* As long as a problem was never screened, no other one was screened twice
\* (history_rank over the history that finalize extends), and a cycle that
\* was finalized again after a crash counts once.
UnseenFirst ==
    \A k \in DOMAIN dirs :
        LET h == dirs[k].history IN
        /\ \A p, q \in Problems : h[p].visits = <<>> => Len(h[q].visits) <= 1
        /\ \A p \in Problems : \A i, j \in DOMAIN h[p].visits :
              h[p].visits[i].id = h[p].visits[j].id => i = j
=============================================================================

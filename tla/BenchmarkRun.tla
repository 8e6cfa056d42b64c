----------------------------- MODULE BenchmarkRun -----------------------------
(***************************************************************************)
(* benchmark.py, run_pipeline: completions are generated batch by batch,   *)
(* submitted to the verification pool and recorded as their results        *)
(* arrive.  A run may be killed anywhere; the next one is started with     *)
(* --resume on the same output directory.  Early stop is off, its default. *)
(*                                                                         *)
(* The pool is reduced to what submit() and drain() let its caller see:    *)
(* tasks that wait, results that can be drained, and the results submit()  *)
(* itself drains while its queue is full.                                  *)
(***************************************************************************)
EXTENDS Naturals, Sequences, FiniteSetsExt

CONSTANTS
    ProblemCount,  \* number of records
    PassK,         \* pass_k
    BatchSize,     \* generation_batch_size
    QueueSize,     \* tasks the pool takes before put() finds its queue full
    Rejected,      \* completions the precheck rejects
    MaxRuns,       \* bound on the runs on one output directory
    MaxRetries,    \* bound on the tasks whose result arrives twice
    MaxFaults,     \* bound on fatal errors of the pool and tasks it loses
    MaxCuts        \* bound on crashes that cut a line of a file

ASSUME SizesAssumption ==
    /\ {ProblemCount, PassK, BatchSize, QueueSize} \subseteq Nat \ {0}
    /\ {MaxRuns, MaxRetries, MaxFaults, MaxCuts} \subseteq Nat

Problems == 0 .. ProblemCount - 1
Attempts == 0 .. PassK - 1
Keys == Problems \X Attempts
ASSUME RejectedAssumption == Rejected \subseteq Keys

Results == [key : Keys, ok : BOOLEAN]
NoSummary == [successes |-> 0, failures |-> 0]

VARIABLES
    (* output directory *)
    attempts,       \* the rows of attempts.jsonl that can be parsed
    attemptsTail,   \* its last line: "ended", "unended" or "cut"
    problemRows,    \* rows of problem_results.jsonl: [problem, results]
    rowsTail,       \* its last line; "joined" when two share a line
    successRows,    \* keys in success_attempts.jsonl
    summary,        \* the counts of summary.json
    (* run_pipeline *)
    pc, run,
    results,        \* states[p].results: problem -> its results
    seen,           \* seen_result_keys
    written,        \* written_problem_ids
    todo,           \* attempts still to be generated
    current,        \* generated attempts not yet handed over
    drained,        \* results being recorded
    stage,          \* what record_result writes next for "latest"
    latest,
    counter,        \* result_counter
    expected,       \* expected_results
    outcome,        \* how the last run ended: "none", "complete", "failed"
    (* VerificationPool *)
    queued, ready, buffered, fatal, stalled,
    (* bounds *)
    retries, faults, cuts

files == <<attempts, attemptsTail, problemRows, rowsTail, successRows, summary>>
books == <<results, seen, written, counter, expected>>
work == <<todo, current, drained, stage, latest>>
pool == <<queued, ready, buffered, fatal, stalled>>
bounds == <<retries, faults, cuts>>
vars == <<files, pc, run, books, work, outcome, pool, bounds>>

Tails == {"ended", "unended", "cut", "joined"}

TypeOK ==
    /\ attempts \in Seq(Results) /\ attemptsTail \in Tails \ {"joined"}
    /\ problemRows \in Seq([problem : Problems, results : SUBSET Results])
    /\ rowsTail \in Tails
    /\ successRows \subseteq Keys
    /\ summary \in [successes : Nat, failures : Nat]
    /\ pc \in {"down", "generate", "submit", "drain", "wait", "flush"}
    /\ run \in 0 .. MaxRuns
    /\ results \in [Problems -> SUBSET Results]
    /\ seen \subseteq Keys /\ written \subseteq Problems
    /\ todo \subseteq Keys /\ current \subseteq Keys
    /\ drained \subseteq Results
    /\ stage \in {"none", "success", "problem"} /\ latest \in Keys
    /\ counter \in 0 .. expected /\ expected \in 0 .. Cardinality(Keys)
    /\ outcome \in {"none", "complete", "failed"}
    /\ queued \subseteq Keys
    /\ ready \subseteq Results /\ buffered \subseteq Results
    /\ {fatal, stalled} \subseteq BOOLEAN
    /\ retries \in 0 .. MaxRetries /\ faults \in 0 .. MaxFaults
    /\ cuts \in 0 .. MaxCuts

NoPool == /\ queued' = {} /\ ready' = {} /\ buffered' = {}
          /\ fatal' = FALSE /\ stalled' = FALSE
NoWork == /\ todo' = {} /\ current' = {} /\ drained' = {}
          /\ stage' = "none" /\ latest' = <<0, 0>>

Init ==
    /\ attempts = <<>> /\ attemptsTail = "ended"
    /\ problemRows = <<>> /\ rowsTail = "ended"
    /\ successRows = {} /\ summary = NoSummary
    /\ pc = "down" /\ run = 0
    /\ results = [p \in Problems |-> {}]
    /\ seen = {} /\ written = {} /\ counter = 0 /\ expected = 0
    /\ todo = {} /\ current = {} /\ drained = {}
    /\ stage = "none" /\ latest = <<0, 0>>
    /\ outcome = "none"
    /\ queued = {} /\ ready = {} /\ buffered = {}
    /\ fatal = FALSE /\ stalled = FALSE
    /\ retries = 0 /\ faults = 0 /\ cuts = 0

-----------------------------------------------------------------------------
(* Resume.                                                                 *)

Solved(rs) == \E r \in rs : r.ok
Readable == rowsTail \in {"ended", "unended"}

\* A problem row counts as complete if it has all attempts, or a success.
IsCompleteRow(row) == Solved(row.results) \/ Cardinality(row.results) >= PassK

CompletedIds == {p \in Problems : \E i \in DOMAIN problemRows :
                    problemRows[i].problem = p /\ IsCompleteRow(problemRows[i])}

\* load_completed_problem_rows: the last complete row of a problem.
CompletedRow(p) ==
    LET rows == {i \in DOMAIN problemRows :
                    problemRows[i].problem = p /\ IsCompleteRow(problemRows[i])}
    IN problemRows[Max(rows)]

\* load_attempt_rows.
Existing(p) == {r \in Range(attempts) : r.key[1] = p}

\* Mutant of Restored: attempts of incomplete problems are not restored.
RestoredRows(p) == IF p \in CompletedIds THEN CompletedRow(p).results ELSE {}

\* The results a problem starts with.
Restored(p) ==
    IF p \in CompletedIds THEN CompletedRow(p).results ELSE Existing(p)

\* Mutant of Missing: a problem that was begun is not taken up again.
MissingUntouched(p) ==
    {k \in {p} \X Attempts : Existing(p) = {} /\ p \notin CompletedIds}

\* iter_generation_batches: the attempts a problem still needs.
Missing(p) ==
    {k \in {p} \X Attempts :
        p \notin CompletedIds /\ ~\E r \in Existing(p) : r.key = k}

Counts(rs) ==
    LET all == UNION {rs[p] : p \in Problems}
    IN [successes |-> Cardinality({r \in all : r.ok}),
        failures |-> Cardinality({r \in all : ~r.ok})]

\* Load the files.  Nothing to do: summarise at once, without starting a pool.
StartRun ==
    /\ pc = "down" /\ run < MaxRuns /\ Readable
    /\ run' = run + 1
    /\ results' = [p \in Problems |-> Restored(p)]
    /\ seen' = {r.key : r \in Range(attempts)}
    /\ written' = CompletedIds
    /\ counter' = 0 /\ expected' = 0
    /\ \/ /\ CompletedIds # Problems
          /\ pc' = "generate" /\ outcome' = "none"
          /\ todo' = UNION {Missing(p) : p \in Problems}
          /\ UNCHANGED summary
       \/ /\ CompletedIds = Problems
          /\ outcome' = "complete" /\ summary' = Counts(results')
          /\ UNCHANGED <<pc, todo>>
    /\ UNCHANGED <<attempts, attemptsTail, problemRows, rowsTail, successRows,
                   current, drained, stage, latest, pool, bounds>>

-----------------------------------------------------------------------------
(* record_result.                                                          *)

\* Mutant of IsNew: results that arrive twice are recorded twice.
IsAny(key) == TRUE

IsNew(key) == key \notin seen

\* A row is appended; a last line without its newline swallows it and is lost.
AppendAttempt(r) ==
    attempts' = CASE attemptsTail = "ended" -> Append(attempts, r)
                  [] attemptsTail = "cut" -> attempts
                  [] OTHER -> SubSeq(attempts, 1, Len(attempts) - 1)

\* Mutant of IsComplete: off by one.
IsNearlyComplete(p, rs) == Cardinality(rs) >= PassK - 1

IsComplete(p, rs) == Cardinality(rs) >= PassK

AfterSuccess(p, rs) ==
    IF p \notin written /\ IsComplete(p, rs) THEN "problem" ELSE "none"

\* The books, then attempts.jsonl and the shard of the problem.
Record(r) ==
    LET p == r.key[1] IN
    /\ seen' = seen \cup {r.key}
    /\ results' = [results EXCEPT ![p] = @ \cup {r}]
    /\ counter' = counter + 1
    /\ AppendAttempt(r) /\ attemptsTail' = "ended"
    /\ latest' = r.key
    /\ stage' = IF r.ok THEN "success" ELSE AfterSuccess(p, results'[p])

RecordResult(r) ==
    \/ IsNew(r.key) /\ Record(r)
    \/ /\ ~IsNew(r.key)
       /\ UNCHANGED <<attempts, attemptsTail, seen, results, counter, latest, stage>>

\* ... then success_attempts.jsonl,
WriteSuccess ==
    /\ stage = "success"
    /\ successRows' = successRows \cup {latest}
    /\ stage' = AfterSuccess(latest[1], results[latest[1]])
    /\ UNCHANGED <<attempts, attemptsTail, problemRows, rowsTail, summary, pc,
                   run, books, todo, current, drained, latest, outcome, pool,
                   bounds>>

AppendRow(p) ==
    /\ problemRows' = Append(problemRows, [problem |-> p, results |-> results[p]])
    /\ rowsTail' = IF rowsTail = "unended" THEN "joined" ELSE rowsTail
    /\ written' = written \cup {p}

\* ... then problem_results.jsonl, when the problem has all its attempts.
WriteProblem ==
    /\ stage = "problem"
    /\ AppendRow(latest[1])
    /\ stage' = "none"
    /\ UNCHANGED <<attempts, attemptsTail, successRows, summary, pc, run,
                   results, seen, counter, expected, todo, current, drained,
                   latest, outcome, pool, bounds>>

-----------------------------------------------------------------------------
(* Generation and submission.                                              *)

FirstProblems ==
    LET left == {k[1] : k \in todo}
    IN {p \in left : Cardinality({q \in left : q < p}) < BatchSize}

GenerateBatch ==
    /\ pc = "generate" /\ todo # {}
    /\ current' = {k \in todo : k[1] \in FirstProblems}
    /\ todo' = todo \ current'
    /\ pc' = "submit"
    /\ UNCHANGED <<files, run, books, drained, stage, latest, outcome, pool,
                   bounds>>

\* Completions are handed over in order.
IsNext(k) ==
    /\ k \in current
    /\ \A j \in current : k[1] < j[1] \/ (k[1] = j[1] /\ k[2] <= j[2])

RejectGenerated ==
    /\ pc = "submit" /\ stage = "none"
    /\ \E k \in Rejected :
         /\ IsNext(k)
         /\ RecordResult([key |-> k, ok |-> FALSE])
         /\ current' = current \ {k}
    /\ expected' = expected + 1
    /\ UNCHANGED <<problemRows, rowsTail, successRows, summary, pc, run,
                   written, todo, drained, outcome, pool, bounds>>

SubmitTask ==
    /\ pc = "submit" /\ stage = "none" /\ Cardinality(queued) < QueueSize
    /\ \E k \in Keys \ Rejected :
         /\ IsNext(k)
         /\ queued' = queued \cup {k}
         /\ current' = current \ {k}
    /\ expected' = expected + 1
    /\ UNCHANGED <<files, pc, run, results, seen, written, counter, todo,
                   drained, stage, latest, outcome, ready, buffered, fatal,
                   stalled, bounds>>

QueueFull ==
    /\ pc = "submit" /\ stage = "none"
    /\ \E k \in Keys \ Rejected : IsNext(k)
    /\ Cardinality(queued) >= QueueSize

\* submit() found its queue full: it drains into pool.buffered_results.
SubmitFull ==
    /\ QueueFull /\ ~fatal /\ ready # {}
    /\ buffered' = buffered \cup ready
    /\ ready' = {}
    /\ UNCHANGED <<files, pc, run, books, work, outcome, queued, fatal, stalled,
                   bounds>>

\* The batch is handed over: record what the pool has finished by now.
DrainAfterBatch ==
    /\ pc = "submit" /\ stage = "none" /\ current = {}
    /\ drained' = ready /\ ready' = {}
    /\ pc' = "drain"
    /\ UNCHANGED <<files, run, books, todo, current, stage, latest, outcome,
                   queued, buffered, fatal, stalled, bounds>>

RecordDrained ==
    /\ pc \in {"drain", "wait"} /\ stage = "none"
    /\ \E r \in drained : RecordResult(r) /\ drained' = drained \ {r}
    /\ UNCHANGED <<problemRows, rowsTail, successRows, summary, pc, run,
                   written, expected, todo, current, outcome, pool, bounds>>

BatchEnds ==
    /\ \/ pc = "drain" /\ stage = "none" /\ drained = {}
       \/ pc = "generate" /\ todo = {}
    /\ pc' = IF todo = {} THEN "wait" ELSE "generate"
    /\ UNCHANGED <<files, run, books, work, outcome, pool, bounds>>

-----------------------------------------------------------------------------
(* The final loop, and the reports.                                        *)

Waiting == pc = "wait" /\ stage = "none" /\ drained = {}

DrainWaiting ==
    /\ Waiting /\ counter < expected /\ ~fatal /\ ready # {}
    /\ drained' = ready /\ ready' = {}
    /\ UNCHANGED <<files, pc, run, books, todo, current, stage, latest, outcome,
                   queued, buffered, fatal, stalled, bounds>>

\* Mutant of Overdue: the loop has no stall timeout.
NeverOverdue == FALSE

\* No result can come any more: stall_timeout passes.
Overdue == ready = {} /\ queued = {}

Stall ==
    /\ Waiting /\ counter < expected /\ ~fatal /\ Overdue
    /\ fatal' = TRUE /\ stalled' = TRUE
    /\ UNCHANGED <<files, pc, run, books, work, outcome, queued, ready,
                   buffered, bounds>>

\* Problems that have a row in the file, of whatever run, get no other.
WaitEnds ==
    /\ Waiting /\ (counter >= expected \/ fatal)
    /\ Readable
    /\ written' = written \cup {problemRows[i].problem : i \in DOMAIN problemRows}
    /\ pc' = "flush"
    /\ UNCHANGED <<files, run, results, seen, counter, expected, work, outcome,
                   pool, bounds>>

FlushRow ==
    /\ pc = "flush"
    /\ \E p \in Problems \ written :
         (\A q \in Problems \ written : p <= q) /\ AppendRow(p)
    /\ UNCHANGED <<attempts, attemptsTail, successRows, summary, pc, run,
                   results, seen, counter, expected, work, outcome, pool,
                   bounds>>

FlushEnds ==
    /\ pc = "flush" /\ written = Problems
    /\ summary' = Counts(results)
    /\ outcome' = IF fatal THEN "failed" ELSE "complete"
    /\ pc' = "down"
    /\ NoWork /\ NoPool
    /\ UNCHANGED <<attempts, attemptsTail, problemRows, rowsTail, successRows,
                   run, books, bounds>>

-----------------------------------------------------------------------------
(* The pool.                                                               *)

\* A worker verifies a task.  The result of a replaced one may come besides that
\* of the retry.
Verify ==
    /\ \E k \in queued, ok \in BOOLEAN :
         /\ ready' = ready \cup {[key |-> k, ok |-> ok]}
         /\ \/ queued' = queued \ {k} /\ UNCHANGED retries
            \/ retries < MaxRetries /\ retries' = retries + 1 /\ UNCHANGED queued
    /\ UNCHANGED <<files, pc, run, books, work, outcome, buffered, fatal,
                   stalled, faults, cuts>>

\* A task is lost with the worker that had just taken it.
LoseTask ==
    /\ faults < MaxFaults /\ faults' = faults + 1
    /\ \E k \in queued : queued' = queued \ {k}
    /\ UNCHANGED <<files, pc, run, books, work, outcome, ready, buffered, fatal,
                   stalled, retries, cuts>>

PoolFails ==
    /\ pc # "down" /\ ~fatal /\ faults < MaxFaults
    /\ fatal' = TRUE /\ faults' = faults + 1
    /\ UNCHANGED <<files, pc, run, books, work, outcome, queued, ready, buffered,
                   stalled, retries, cuts>>

-----------------------------------------------------------------------------
(* Interruption.                                                           *)

Forget ==
    /\ pc' = "down" /\ outcome' = "none"
    /\ results' = [p \in Problems |-> {}]
    /\ seen' = {} /\ written' = {} /\ counter' = 0 /\ expected' = 0
    /\ NoWork /\ NoPool
    /\ UNCHANGED <<run, retries, faults>>

\* submit() raises when it finds its queue full and the pool failed.
SubmitRaises ==
    /\ QueueFull /\ fatal
    /\ Forget
    /\ UNCHANGED <<files, cuts>>

\* Two rows share a line of problem_results.jsonl: reading it back raises.
FlushRaises ==
    /\ Waiting /\ (counter >= expected \/ fatal)
    /\ ~Readable
    /\ Forget
    /\ UNCHANGED <<files, cuts>>

\* Killed, or an exception.
Crash ==
    /\ pc # "down"
    /\ Forget
    /\ UNCHANGED <<files, cuts>>

\* Killed inside the write of an attempt or of a problem row.
CutLine ==
    /\ pc # "down" /\ cuts < MaxCuts /\ cuts' = cuts + 1
    /\ \/ /\ stage = "none"
          /\ \E r \in drained \cup [key : current \cap Rejected, ok : {FALSE}] :
               /\ IsNew(r.key) /\ (r \in drained \/ IsNext(r.key))
               /\ \/ attemptsTail' = "cut"
                     /\ attempts' = IF attemptsTail = "unended"
                                    THEN SubSeq(attempts, 1, Len(attempts) - 1)
                                    ELSE attempts
                  \/ attemptsTail = "ended" /\ attemptsTail' = "unended"
                     /\ attempts' = Append(attempts, r)
          /\ UNCHANGED <<problemRows, rowsTail>>
       \/ /\ \E p \in Problems :
               /\ \/ stage = "problem" /\ p = latest[1]
                  \/ pc = "flush" /\ p \notin written
               /\ \/ rowsTail' = "cut" /\ UNCHANGED problemRows
                  \/ rowsTail = "ended" /\ rowsTail' = "unended"
                     /\ problemRows' = Append(problemRows,
                            [problem |-> p, results |-> results[p]])
          /\ UNCHANGED <<attempts, attemptsTail>>
    /\ Forget
    /\ UNCHANGED <<successRows, summary>>

-----------------------------------------------------------------------------
Progress ==
    \/ WriteSuccess \/ WriteProblem
    \/ GenerateBatch \/ RejectGenerated \/ SubmitTask \/ SubmitFull
    \/ DrainAfterBatch \/ RecordDrained \/ BatchEnds
    \/ DrainWaiting \/ Stall \/ WaitEnds \/ FlushRow \/ FlushEnds
    \/ SubmitRaises \/ FlushRaises

Next ==
    \/ StartRun \/ Progress \/ Crash \/ CutLine
    \/ Verify \/ LoseTask \/ PoolFails

Spec == Init /\ [][Next]_vars

\* The run is a loop, and the workers of a pool that has not failed go on.
FairSpec == Spec /\ WF_vars(Progress) /\ WF_vars(~fatal /\ Verify)

-----------------------------------------------------------------------------
(* Properties.                                                             *)

\* However often a run is interrupted and resumed, every attempt gets one
\* verdict, none is lost or changed, and the summary counts exactly the rows of
\* attempts.jsonl.
Log == INSTANCE ReceiptLog WITH
    verdicts <- {<<attempts[i].key, attempts[i].ok>> : i \in DOMAIN attempts},
    published <- summary
OneVerdictEach == Log!Spec

\* No attempt has two rows, although the pool may deliver a result twice and
\* lines may be lost.
AttemptsUnique ==
    \A i, j \in DOMAIN attempts : attempts[i].key = attempts[j].key => i = j

\* The run reports pass_k attempts of the problem ...
AllAttempts(p) == {r.key : r \in results[p]} = {p} \X Attempts

\* ... or fewer, with a success among them, from the row of an earlier run:
\* load_completed_problem_rows takes a row with a success for complete, also
\* one that a failed run flushed.
EndedEarly(p) ==
    /\ run > 1 /\ Solved(results[p])
    /\ \E i \in DOMAIN problemRows :
         problemRows[i] = [problem |-> p, results |-> results[p]]

\* A run that reports no fatal error reports pass_k attempts of every problem
\* that no earlier run has solved.
ExactHistogram ==
    outcome = "complete" => \A p \in Problems : AllAttempts(p) \/ EndedEarly(p)

\* When a run has ended, the last row of every problem is what the run reports.
ProblemRowsCurrent ==
    outcome # "none" => \A p \in Problems :
        LET rows == {i \in DOMAIN problemRows : problemRows[i].problem = p}
        IN rows # {} /\ problemRows[Max(rows)].results = results[p]

\* A run that is not interrupted ends, even when results never arrive.
RunEnds == (pc # "down") ~> (pc = "down")
===============================================================================

------------------------------- MODULE TwoPhase -------------------------------
(***************************************************************************)
(* grpo_two_phase_bf16.py: phase A generates pass@k completions, one       *)
(* process per shard, one chunk file per problem; phase B verifies them    *)
(* and appends one receipt per candidate.  Either phase may be killed and  *)
(* started again at any point; what survives is on disk.                   *)
(*                                                                         *)
(* Files that are written with atomic_write_text are there or not there;   *)
(* receipts.jsonl is appended to, and a crash may cut its last line.  A    *)
(* chunk's content is named by the run that generated it.  The pool is     *)
(* taken as BatchVerification promises it.                                 *)
(***************************************************************************)
EXTENDS Naturals, Sequences, FiniteSets

CONSTANTS
    ProblemCount,     \* number of problems in the frozen data
    ShardCount,       \* args.shards
    PassK,            \* attempts_per_problem
    QueueDepth,       \* generation_queue_depth
    VerifyBatchSize,  \* verify_batch_size
    Rejected,         \* candidates the precheck rejects (rejected_reason)
    MaxRuns,          \* bound on the runs of each process
    MaxCuts           \* bound on crashes that cut a receipt line

ASSUME SizesAssumption ==
    /\ {ProblemCount, ShardCount, PassK} \subseteq Nat \ {0}
    /\ {QueueDepth, VerifyBatchSize} \subseteq Nat \ {0}
    /\ MaxRuns \in Nat /\ MaxCuts \in Nat

Problems == 0 .. ProblemCount - 1
Shards == 0 .. ShardCount - 1
Attempts == 0 .. PassK - 1
Keys == Problems \X Attempts
ASSUME RejectedAssumption == Rejected \subseteq Keys

\* plan_shards: row index modulo the number of shards.
PlanShards == [s \in Shards |-> {p \in Problems : p % ShardCount = s}]

NoChunk == 0
NoSummary == [successes |-> 0, failures |-> 0]

VARIABLES
    (* files *)
    chunk,      \* problem -> run that generated its chunk file, or NoChunk
    complete,   \* the shards that have a GENERATION_COMPLETE.json
    hashed,     \* problem -> run of the chunk its shard's report hashes
    audited,    \* audit_generations has written its PASS report
    receipts,   \* the lines of receipts.jsonl: [key, gen, ok]
    tail,       \* "ended", "unended" or "cut" last line, or two lines "joined"
    summary,    \* summary.json
    (* generate_shard, one process per shard *)
    gpc, genRun,
    pending,    \* the shard's problems still to be generated, in row order
    window,     \* how many of them are generated but not written
    (* verify_generations *)
    vpc, verRun,
    rows,       \* generation_rows: problem -> run of the chunk read
    seen,       \* keys of receipt_generation_hashes, with the hash
    counts,     \* result_counts
    position,   \* candidates of generation_rows already walked over
    batch,      \* tasks collected for run_batch, then those without result
    cuts

genVars == <<chunk, complete, hashed, gpc, genRun, pending, window>>
verVars == <<audited, receipts, tail, summary, vpc, verRun, rows, seen, counts,
             position, batch, cuts>>
vars == <<genVars, verVars>>

Receipts == [key : Keys, gen : Nat, ok : BOOLEAN]
Counts == [successes : Nat, failures : Nat]

TypeOK ==
    /\ chunk \in [Problems -> Nat]
    /\ complete \subseteq Shards /\ hashed \in [Problems -> Nat]
    /\ audited \in BOOLEAN
    /\ receipts \in Seq(Receipts)
    /\ tail \in {"ended", "unended", "cut", "joined"}
    /\ summary \in Counts
    /\ gpc \in [Shards -> {"down", "generate"}]
    /\ genRun \in [Shards -> 0 .. MaxRuns]
    /\ pending \in [Shards -> SUBSET Problems]
    /\ window \in [Shards -> 0 .. QueueDepth]
    /\ vpc \in {"down", "load", "rows", "walk", "check", "summary"}
    /\ verRun \in 0 .. MaxRuns
    /\ rows \in [Problems -> Nat]
    /\ seen \in SUBSET (Keys \X Nat)
    /\ counts \in Counts
    /\ position \in 0 .. Cardinality(Keys)
    /\ batch \subseteq Keys
    /\ cuts \in 0 .. MaxCuts

Init ==
    /\ chunk = [p \in Problems |-> NoChunk]
    /\ complete = {} /\ hashed = chunk
    /\ audited = FALSE /\ receipts = <<>> /\ tail = "ended" /\ summary = NoSummary
    /\ gpc = [s \in Shards |-> "down"]
    /\ genRun = [s \in Shards |-> 0]
    /\ pending = [s \in Shards |-> {}]
    /\ window = [s \in Shards |-> 0]
    /\ vpc = "down" /\ verRun = 0 /\ rows = chunk /\ seen = {} /\ counts = NoSummary
    /\ position = 0 /\ batch = {} /\ cuts = 0

-----------------------------------------------------------------------------
(* Phase A.                                                                *)

\* Mutant of Missing: chunks of an earlier run are generated again.
MissingAll(s) == PlanShards[s]

\* The problems of a shard that have no chunk yet.
Missing(s) == {p \in PlanShards[s] : chunk[p] = NoChunk}

\* A run of generate_shard validates the chunks it finds and lists the rest.
Generate(s) ==
    /\ gpc[s] = "down" /\ genRun[s] < MaxRuns
    /\ gpc' = [gpc EXCEPT ![s] = "generate"]
    /\ genRun' = [genRun EXCEPT ![s] = @ + 1]
    /\ pending' = [pending EXCEPT ![s] = Missing(s)]
    /\ window' = [window EXCEPT ![s] = 0]
    /\ UNCHANGED <<chunk, complete, hashed, verVars>>

\* Mutant of NextWindow: the queue depth is ignored.
WholeShard(s) == Cardinality(pending[s])

\* generation_queue_windows: at most QueueDepth problems at once.
NextWindow(s) ==
    IF Cardinality(pending[s]) < QueueDepth THEN Cardinality(pending[s])
                                            ELSE QueueDepth

\* generate_batch returns the completions of the next window, in memory.
GenerateWindow(s) ==
    /\ gpc[s] = "generate" /\ window[s] = 0 /\ pending[s] # {}
    /\ window' = [window EXCEPT ![s] = NextWindow(s)]
    /\ UNCHANGED <<chunk, complete, hashed, gpc, genRun, pending, verVars>>

\* The window's chunks are written in row order, each atomically.
WriteChunk(s) ==
    /\ gpc[s] = "generate" /\ window[s] > 0
    /\ \E p \in pending[s] :
         /\ \A q \in pending[s] : p <= q
         /\ chunk' = [chunk EXCEPT ![p] = genRun[s]]
         /\ pending' = [pending EXCEPT ![s] = @ \ {p}]
    /\ window' = [window EXCEPT ![s] = @ - 1]
    /\ UNCHANGED <<complete, hashed, gpc, genRun, verVars>>

\* Mutant of Generated: the report follows the first window.
FirstWindow(s) == window[s] = 0

Generated(s) == window[s] = 0 /\ pending[s] = {}

\* GENERATION_COMPLETE.json hashes every chunk file of the shard.
CompleteShard(s) ==
    /\ gpc[s] = "generate" /\ Generated(s)
    /\ complete' = complete \cup {s}
    /\ hashed' = [p \in Problems |->
                    IF p \in PlanShards[s] THEN chunk[p] ELSE hashed[p]]
    /\ gpc' = [gpc EXCEPT ![s] = "down"]
    /\ UNCHANGED <<chunk, genRun, pending, window, verVars>>

\* A generation process is killed; what it had not written is lost.
KillGenerator(s) ==
    /\ gpc[s] = "generate"
    /\ gpc' = [gpc EXCEPT ![s] = "down"]
    /\ UNCHANGED <<chunk, complete, hashed, genRun, pending, window, verVars>>

\* _generation_rows accepts the shards: each report is there, its hash is that of
\* the chunk files, and every problem's chunk is valid.
RowsAccepted ==
    \A s \in Shards :
        /\ s \in complete
        /\ \A p \in PlanShards[s] : chunk[p] # NoChunk /\ hashed[p] = chunk[p]

\* audit_generations reads the rows as phase B does, and signs them off.
AuditGenerations ==
    /\ RowsAccepted /\ ~audited
    /\ audited' = TRUE
    /\ UNCHANGED <<genVars, receipts, tail, summary, vpc, verRun, rows, seen,
                   counts, position, batch, cuts>>

-----------------------------------------------------------------------------
(* Phase B.                                                                *)

Total == ProblemCount * PassK

\* generation_rows sorted by problem, then attempt.
KeyAt(i) == <<(i - 1) \div PassK, (i - 1) % PassK>>

SeenKeys == {s[1] : s \in seen}

Lines(ok) == {i \in DOMAIN receipts : receipts[i].ok = ok}

\* Mutant of CountsOnDisk: a resumed run counts its own results only.
CountsOfRun == NoSummary

\* result_counts after the receipts of earlier runs were read.
CountsOnDisk ==
    [successes |-> Cardinality(Lines(TRUE)),
     failures |-> Cardinality(Lines(FALSE))]

\* Mutant of SeenOnDisk: candidates that failed are verified again.
SeenSuccesses == {<<receipts[i].key, receipts[i].gen>> : i \in Lines(TRUE)}

\* The keys with a receipt, and the hash each receipt names.
SeenOnDisk == {<<receipts[i].key, receipts[i].gen>> : i \in DOMAIN receipts}

\* _load_receipts can read the file: every line is one object, no key twice.
Parses ==
    /\ tail \in {"ended", "unended"}
    /\ \A i, j \in DOMAIN receipts : receipts[i].key = receipts[j].key => i = j

StartVerifier ==
    /\ vpc = "down" /\ verRun < MaxRuns
    /\ vpc' = "load" /\ verRun' = verRun + 1
    /\ UNCHANGED <<genVars, audited, receipts, tail, summary, rows, seen,
                   counts, position, batch, cuts>>

LoadReceipts ==
    /\ vpc = "load" /\ Parses
    /\ seen' = SeenOnDisk
    /\ counts' = CountsOnDisk
    /\ position' = 0 /\ batch' = {}
    /\ vpc' = "rows"
    /\ UNCHANGED <<genVars, audited, receipts, tail, summary, verRun, rows,
                   cuts>>

ReadRows ==
    /\ vpc = "rows" /\ RowsAccepted
    /\ rows' = chunk
    /\ vpc' = "walk"
    /\ UNCHANGED <<genVars, audited, receipts, tail, summary, verRun, seen,
                   counts, position, batch, cuts>>

\* record(): one more line, flushed and synced, then the books.
AppendReceipt(key, ok) ==
    LET gen == rows[key[1]] IN
    /\ key \notin SeenKeys
    /\ receipts' = Append(receipts, [key |-> key, gen |-> gen, ok |-> ok])
    /\ seen' = seen \cup {<<key, gen>>}
    /\ counts' = IF ok THEN [counts EXCEPT !.successes = @ + 1]
                 ELSE [counts EXCEPT !.failures = @ + 1]

\* A last line that lacks its newline is continued.
Record(key, ok) ==
    AppendReceipt(key, ok) /\ tail' = IF tail = "unended" THEN "joined" ELSE tail

\* A candidate with a receipt is skipped, if the receipt is about this chunk.
Skip ==
    /\ vpc = "walk" /\ position < Total
    /\ <<KeyAt(position + 1), rows[KeyAt(position + 1)[1]]>> \in seen
    /\ position' = position + 1
    /\ UNCHANGED <<genVars, audited, receipts, tail, summary, vpc, verRun,
                   rows, seen, counts, batch, cuts>>

RecordRejected ==
    /\ vpc = "walk" /\ position < Total
    /\ KeyAt(position + 1) \in Rejected
    /\ Record(KeyAt(position + 1), FALSE)
    /\ position' = position + 1
    /\ UNCHANGED <<genVars, audited, summary, vpc, verRun, rows, batch, cuts>>

\* A full batch is handed to run_batch at once.
AddToBatch ==
    /\ vpc = "walk" /\ position < Total
    /\ KeyAt(position + 1) \notin Rejected \cup SeenKeys
    /\ batch' = batch \cup {KeyAt(position + 1)}
    /\ position' = position + 1
    /\ vpc' = IF Cardinality(batch') >= VerifyBatchSize THEN "check" ELSE "walk"
    /\ UNCHANGED <<genVars, audited, receipts, tail, summary, verRun, rows,
                   seen, counts, cuts>>

\* The last flush, or the end of the walk, where every key must be seen.
WalkEnds ==
    /\ vpc = "walk" /\ position = Total
    /\ \/ batch # {} /\ vpc' = "check"
       \/ batch = {} /\ Cardinality(SeenKeys) = Total /\ vpc' = "summary"
    /\ UNCHANGED <<genVars, audited, receipts, tail, summary, verRun, rows,
                   seen, counts, position, batch, cuts>>

\* run_batch calls on_result, in any order.
OnResult ==
    /\ vpc = "check"
    /\ \E key \in batch, ok \in BOOLEAN :
         Record(key, ok) /\ batch' = batch \ {key}
    /\ UNCHANGED <<genVars, audited, summary, vpc, verRun, rows, position,
                   cuts>>

RunBatchReturns ==
    /\ vpc = "check" /\ batch = {}
    /\ vpc' = "walk"
    /\ UNCHANGED <<genVars, audited, receipts, tail, summary, verRun, rows,
                   seen, counts, position, batch, cuts>>

Summarize ==
    /\ vpc = "summary"
    /\ summary' = counts
    /\ vpc' = "down"
    /\ UNCHANGED <<genVars, audited, receipts, tail, verRun, rows, seen,
                   counts, position, batch, cuts>>

\* The run ends early: killed, an exception (unreadable receipts, rows that are
\* not accepted, a receipt about another chunk), or fatal errors of the pool.
StopVerifier ==
    /\ vpc # "down"
    /\ vpc' = "down"
    /\ UNCHANGED <<genVars, audited, receipts, tail, summary, verRun, rows,
                   seen, counts, position, batch, cuts>>

\* record() is called for a rejected candidate of the walk or by run_batch.
Recording(key, ok) ==
    \/ vpc = "check" /\ key \in batch
    \/ /\ vpc = "walk" /\ position < Total /\ ~ok
       /\ key = KeyAt(position + 1) /\ key \in Rejected \ SeenKeys

\* It ends inside the write of a receipt, whose line is cut somewhere: before
\* its end, or just before the newline.
CutReceipt ==
    /\ cuts < MaxCuts
    /\ cuts' = cuts + 1
    /\ \E key \in Keys, ok \in BOOLEAN :
         /\ Recording(key, ok)
         /\ \/ tail' = "cut" /\ UNCHANGED <<receipts, seen, counts>>
            \/ tail = "ended" /\ AppendReceipt(key, ok) /\ tail' = "unended"
    /\ vpc' = "down"
    /\ UNCHANGED <<genVars, audited, summary, verRun, rows, position, batch>>

-----------------------------------------------------------------------------
PhaseA == \E s \in Shards :
    \/ Generate(s) \/ GenerateWindow(s) \/ WriteChunk(s) \/ CompleteShard(s)
    \/ KillGenerator(s)

PhaseB ==
    \/ StartVerifier \/ LoadReceipts \/ ReadRows \/ Skip \/ RecordRejected
    \/ AddToBatch \/ WalkEnds \/ OnResult \/ RunBatchReturns \/ Summarize
    \/ StopVerifier \/ CutReceipt

Next == PhaseA \/ AuditGenerations \/ PhaseB

Spec == Init /\ [][Next]_vars

-----------------------------------------------------------------------------
(* Properties.                                                             *)

\* However often either phase is interrupted, every candidate gets one verdict,
\* none is lost or changed, and the summary counts exactly the verdicts on disk.
Log == INSTANCE ReceiptLog WITH
    verdicts <- {<<receipts[i].key, receipts[i].ok>> : i \in DOMAIN receipts},
    published <- summary
OneVerdictEach == Log!Spec

\* Each key has one line in the file: a resumed run never verifies again what an
\* earlier run has recorded, in whatever order its results came.
ReceiptsUnique ==
    \A i, j \in DOMAIN receipts : receipts[i].key = receipts[j].key => i = j

\* Every receipt is about the chunk that is on disk now.
ReceiptsMatchChunks ==
    \A i \in DOMAIN receipts : receipts[i].gen = chunk[receipts[i].key[1]]

\* A shard that is reported complete has every chunk, and they are the reported
\* ones, while its generator is run and killed again.
CompleteCoversShard ==
    \A s \in complete : \A p \in PlanShards[s] :
        chunk[p] # NoChunk /\ hashed[p] = chunk[p]

\* Generations that passed the audit stay acceptable to phase B: no later run of a
\* generator touches a chunk that a report hashes.
AuditHolds == audited => RowsAccepted
===============================================================================

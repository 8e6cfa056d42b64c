---------------------------- MODULE BenchmarkProofs ----------------------------
(***************************************************************************)
(* Proofs about BenchmarkRun for every number of problems, attempts, runs, *)
(* interruptions and faults.                                               *)
(***************************************************************************)
EXTENDS BenchmarkRun, FiniteSetTheorems, WellFoundedInduction, TLAPS

\* What keeps a second row of an attempt away: a running process has seen every
\* key that is on disk.
BenchTypeOK ==
    /\ attempts \in Seq(Results) /\ attemptsTail \in Tails \ {"joined"}
    /\ attemptsTail = "unended" => attempts # <<>>
    /\ drained \subseteq Results /\ ready \subseteq Results
    /\ queued \subseteq Keys
SeenOnDisk ==
    pc # "down" => \A i \in DOMAIN attempts : attempts[i].key \in seen
BenchInv == BenchTypeOK /\ SeenOnDisk /\ AttemptsUnique

\* What the end of a file may be after one more write.
LEMMA AppendRows ==
    ASSUME NEW s \in Seq(Results), NEW r \in Results
    PROVE  /\ Append(s, r) \in Seq(Results) /\ Append(s, r) # <<>>
           /\ DOMAIN Append(s, r) = DOMAIN s \cup {Len(s) + 1}
           /\ Len(s) + 1 \notin DOMAIN s
           /\ Append(s, r)[Len(s) + 1] = r
           /\ \A i \in DOMAIN s : Append(s, r)[i] = s[i]
  OBVIOUS

LEMMA DropLast ==
    ASSUME NEW s \in Seq(Results), s # <<>>
    PROVE  /\ SubSeq(s, 1, Len(s) - 1) \in Seq(Results)
           /\ DOMAIN SubSeq(s, 1, Len(s) - 1) \subseteq DOMAIN s
           /\ \A i \in DOMAIN SubSeq(s, 1, Len(s) - 1) :
                SubSeq(s, 1, Len(s) - 1)[i] = s[i]
  OBVIOUS

\* One more row of a key that is not on disk, or the loss of the last line,
\* keeps the rows unique and adds at most that key.
LEMMA OneMoreRow ==
    ASSUME BenchInv, pc # "down", NEW r \in Results, r.key \notin seen,
           \/ attempts' = attempts
           \/ attempts' = Append(attempts, r)
           \/ attempts # <<>> /\ attempts' = SubSeq(attempts, 1, Len(attempts) - 1)
    PROVE  /\ attempts' \in Seq(Results)
           /\ AttemptsUnique'
           /\ \A i \in DOMAIN attempts' : attempts'[i].key \in seen \cup {r.key}
  <1>0. /\ attempts \in Seq(Results) /\ AttemptsUnique
        /\ \A i \in DOMAIN attempts : attempts[i].key \in seen
    BY DEF BenchInv, BenchTypeOK, SeenOnDisk
  <1>1. CASE attempts' = attempts
    BY <1>0, <1>1 DEF AttemptsUnique
  <1>2. CASE attempts' = Append(attempts, r)
    <2>1. /\ attempts' \in Seq(Results)
          /\ DOMAIN attempts' = DOMAIN attempts \cup {Len(attempts) + 1}
          /\ attempts'[Len(attempts) + 1] = r
          /\ \A i \in DOMAIN attempts : attempts'[i] = attempts[i]
      BY <1>0, <1>2, AppendRows
    <2>2. ASSUME NEW i \in DOMAIN attempts', NEW j \in DOMAIN attempts',
                 attempts'[i].key = attempts'[j].key
          PROVE  i = j
      <3>1. CASE i \in DOMAIN attempts /\ j \in DOMAIN attempts
        BY <1>0, <2>1, <2>2, <3>1 DEF AttemptsUnique
      <3>2. CASE i = Len(attempts) + 1 /\ j \in DOMAIN attempts
        BY <1>0, <2>1, <2>2, <3>2
      <3>3. CASE j = Len(attempts) + 1 /\ i \in DOMAIN attempts
        BY <1>0, <2>1, <2>2, <3>3
      <3> QED BY <2>1, <3>1, <3>2, <3>3
    <2> QED BY <1>0, <2>1, <2>2 DEF AttemptsUnique
  <1>3. CASE attempts # <<>> /\ attempts' = SubSeq(attempts, 1, Len(attempts) - 1)
    <2>1. /\ attempts' \in Seq(Results)
          /\ DOMAIN attempts' \subseteq DOMAIN attempts
          /\ \A i \in DOMAIN attempts' : attempts'[i] = attempts[i]
      BY <1>0, <1>3, DropLast
    <2>2. ASSUME NEW i \in DOMAIN attempts', NEW j \in DOMAIN attempts',
                 attempts'[i].key = attempts'[j].key
          PROVE  i = j
      BY <1>0, <2>1, <2>2 DEF AttemptsUnique
    <2> QED BY <1>0, <2>1, <2>2 DEF AttemptsUnique
  <1> QED BY <1>1, <1>2, <1>3

\* record_result keeps a second row away.
LEMMA RecordKeeps ==
    ASSUME BenchInv, pc # "down", NEW r \in Results, RecordResult(r)
    PROVE  /\ attempts' \in Seq(Results)
           /\ attemptsTail' = "unended" => attempts' # <<>>
           /\ AttemptsUnique'
           /\ \A i \in DOMAIN attempts' : attempts'[i].key \in seen'
  <1>0. /\ attempts \in Seq(Results) /\ AttemptsUnique
        /\ attemptsTail = "unended" => attempts # <<>>
        /\ \A i \in DOMAIN attempts : attempts[i].key \in seen
    BY DEF BenchInv, BenchTypeOK, SeenOnDisk
  <1>1. CASE IsNew(r.key) /\ Record(r)
    <2>1. /\ r.key \notin seen /\ seen' = seen \cup {r.key}
          /\ attemptsTail' = "ended" /\ AppendAttempt(r)
      BY <1>1 DEF IsNew, Record
    <2>2. \/ attempts' = attempts
          \/ attempts' = Append(attempts, r)
          \/ attempts # <<>> /\ attempts' = SubSeq(attempts, 1, Len(attempts) - 1)
      <3>1. attemptsTail \in {"ended", "cut", "unended"}
        BY DEF BenchInv, BenchTypeOK, Tails
      <3> QED BY <1>0, <2>1, <3>1 DEF AppendAttempt
    <2> QED BY <2>1, <2>2, OneMoreRow
  <1>2. CASE ~IsNew(r.key) /\ UNCHANGED <<attempts, attemptsTail, seen>>
    BY <1>0, <1>2 DEF AttemptsUnique
  <1> QED BY <1>1, <1>2 DEF RecordResult

\* Where a step starts no run and writes no attempt, only the run's tasks and
\* results can change.
LEMMA SameRows ==
    ASSUME BenchInv, UNCHANGED <<attempts, attemptsTail>>,
           \/ pc' = "down"
           \/ pc # "down" /\ UNCHANGED seen
           \/ UNCHANGED <<pc, seen>>,
           drained' \subseteq Results, ready' \subseteq Results,
           queued' \subseteq Keys
    PROVE  BenchInv'
  BY DEF BenchInv, BenchTypeOK, SeenOnDisk, AttemptsUnique

LEMMA InitEstablishes ==
    ASSUME Init
    PROVE  BenchInv
  BY DEF Init, BenchInv, BenchTypeOK, SeenOnDisk, AttemptsUnique, Tails

LEMMA StartRunPreserves ==
    ASSUME BenchInv, StartRun
    PROVE  BenchInv'
  <1>1. /\ UNCHANGED <<attempts, attemptsTail, drained, ready, queued>>
        /\ seen' = {r.key : r \in Range(attempts)}
    BY DEF StartRun, pool
  <1>2. SeenOnDisk'
    BY <1>1 DEF SeenOnDisk, Range
  <1> QED BY <1>1, <1>2 DEF BenchInv, BenchTypeOK, AttemptsUnique

LEMMA RejectPreserves ==
    ASSUME BenchInv, RejectGenerated
    PROVE  BenchInv'
  <1>1. PICK k \in Rejected : RecordResult([key |-> k, ok |-> FALSE])
    BY DEF RejectGenerated
  <1>2. [key |-> k, ok |-> FALSE] \in Results
    BY <1>1, RejectedAssumption DEF Results
  <1>3. pc # "down" /\ UNCHANGED <<drained, ready, queued>>
    BY DEF RejectGenerated, pool
  <1>4. attemptsTail' \in Tails \ {"joined"}
    BY <1>1 DEF RecordResult, Record, Tails, BenchInv, BenchTypeOK
  <1> QED BY <1>1, <1>2, <1>3, <1>4, RecordKeeps
          DEF BenchInv, BenchTypeOK, SeenOnDisk

LEMMA RecordDrainedPreserves ==
    ASSUME BenchInv, RecordDrained
    PROVE  BenchInv'
  <1>1. PICK r \in drained : RecordResult(r) /\ drained' = drained \ {r}
    BY DEF RecordDrained
  <1>2. r \in Results
    BY <1>1 DEF BenchInv, BenchTypeOK
  <1>3. pc # "down" /\ UNCHANGED <<ready, queued>>
    BY DEF RecordDrained, pool
  <1>4. attemptsTail' \in Tails \ {"joined"}
    BY <1>1 DEF RecordResult, Record, Tails, BenchInv, BenchTypeOK
  <1> QED BY <1>1, <1>2, <1>3, <1>4, RecordKeeps
          DEF BenchInv, BenchTypeOK, SeenOnDisk

LEMMA CutLinePreserves ==
    ASSUME BenchInv, CutLine
    PROVE  BenchInv'
  <1>0. /\ attempts \in Seq(Results) /\ AttemptsUnique
        /\ attemptsTail \in Tails \ {"joined"}
        /\ attemptsTail = "unended" => attempts # <<>>
        /\ drained \subseteq Results
    BY DEF BenchInv, BenchTypeOK
  <1>1. /\ pc # "down" /\ pc' = "down"
        /\ drained' = {} /\ ready' = {} /\ queued' = {}
    BY DEF CutLine, Forget, NoWork, NoPool
  <1>2. CASE UNCHANGED <<attempts, attemptsTail>>
    BY <1>1, <1>2, SameRows
  <1>3. CASE \E r \in drained \cup [key : current \cap Rejected, ok : {FALSE}] :
               /\ IsNew(r.key)
               /\ \/ attemptsTail' = "cut"
                     /\ attempts' = IF attemptsTail = "unended"
                                    THEN SubSeq(attempts, 1, Len(attempts) - 1)
                                    ELSE attempts
                  \/ attemptsTail = "ended" /\ attemptsTail' = "unended"
                     /\ attempts' = Append(attempts, r)
    <2>1. PICK r \in drained \cup [key : current \cap Rejected, ok : {FALSE}] :
               /\ IsNew(r.key)
               /\ \/ attemptsTail' = "cut"
                     /\ attempts' = IF attemptsTail = "unended"
                                    THEN SubSeq(attempts, 1, Len(attempts) - 1)
                                    ELSE attempts
                  \/ attemptsTail = "ended" /\ attemptsTail' = "unended"
                     /\ attempts' = Append(attempts, r)
      BY <1>3
    <2>2. r \in Results
      BY <1>0, RejectedAssumption DEF Results
    <2>3. r.key \notin seen
      BY <2>1 DEF IsNew
    <2>4. /\ attempts' \in Seq(Results) /\ AttemptsUnique'
      BY <1>0, <1>1, <2>1, <2>2, <2>3, OneMoreRow
    <2>5. attemptsTail' = "unended" => attempts' # <<>>
      BY <1>0, <2>1, <2>2, AppendRows
    <2>6. attemptsTail' \in Tails \ {"joined"}
      BY <2>1 DEF Tails
    <2> QED BY <1>1, <2>4, <2>5, <2>6 DEF BenchInv, BenchTypeOK, SeenOnDisk
  <1> QED BY <1>2, <1>3 DEF CutLine

LEMMA ProgressPreserves ==
    ASSUME BenchInv, Progress
    PROVE  BenchInv'
  <1>0. drained \subseteq Results /\ ready \subseteq Results /\ queued \subseteq Keys
    BY DEF BenchInv, BenchTypeOK
  <1>1. CASE WriteSuccess \/ WriteProblem \/ FlushRow \/ FlushEnds
    BY <1>0, <1>1, SameRows
       DEF WriteSuccess, WriteProblem, FlushRow, FlushEnds, AppendRow, NoWork,
           NoPool, books, work, pool
  <1>2. CASE GenerateBatch \/ BatchEnds \/ WaitEnds \/ SubmitFull \/ Stall
    BY <1>0, <1>2, SameRows
       DEF GenerateBatch, BatchEnds, WaitEnds, Waiting, SubmitFull, QueueFull,
           Stall, files, books, work, pool
  <1>3. CASE SubmitTask
    BY <1>0, <1>3, SameRows DEF SubmitTask, files
  <1>4. CASE DrainAfterBatch \/ DrainWaiting
    BY <1>0, <1>4, SameRows
       DEF DrainAfterBatch, DrainWaiting, Waiting, files, books
  <1>5. CASE SubmitRaises \/ FlushRaises
    BY <1>5, SameRows DEF SubmitRaises, FlushRaises, Forget, NoWork, NoPool, files
  <1> QED BY <1>1, <1>2, <1>3, <1>4, <1>5, RejectPreserves,
             RecordDrainedPreserves DEF Progress

LEMMA PoolPreserves ==
    ASSUME BenchInv, Verify \/ LoseTask \/ PoolFails
    PROVE  BenchInv'
  <1>0. drained \subseteq Results /\ ready \subseteq Results /\ queued \subseteq Keys
    BY DEF BenchInv, BenchTypeOK
  <1>1. /\ UNCHANGED <<attempts, attemptsTail, pc, seen, drained>>
        /\ queued' \subseteq queued
    BY DEF Verify, LoseTask, PoolFails, files, books, work
  <1>2. ready' \subseteq Results
    <2>1. CASE Verify
      BY <1>0, <2>1 DEF Verify, Results
    <2>2. CASE LoseTask \/ PoolFails
      BY <1>0, <2>2 DEF LoseTask, PoolFails
    <2> QED BY <2>1, <2>2
  <1> QED BY <1>0, <1>1, <1>2 DEF BenchInv, BenchTypeOK, SeenOnDisk, AttemptsUnique

LEMMA NextPreserves ==
    ASSUME BenchInv, [Next]_vars
    PROVE  BenchInv'
  <1>1. CASE Crash
    BY <1>1, SameRows DEF Crash, Forget, NoWork, NoPool, files
  <1>2. CASE UNCHANGED vars
    BY <1>2 DEF vars, files, books, work, pool, BenchInv, BenchTypeOK,
                SeenOnDisk, AttemptsUnique
  <1> QED BY <1>1, <1>2, StartRunPreserves, ProgressPreserves, CutLinePreserves,
             PoolPreserves DEF Next

\* However often runs are interrupted, lines are lost and results arrive twice,
\* no attempt has two rows in attempts.jsonl: record_result takes up no key that
\* is already on disk.
THEOREM NoSecondRow == Spec => []AttemptsUnique
  <1>1. Init => BenchInv
    BY InitEstablishes
  <1>2. BenchInv /\ [Next]_vars => BenchInv'
    BY NextPreserves
  <1>3. BenchInv => AttemptsUnique
    BY DEF BenchInv
  <1> QED BY <1>1, <1>2, <1>3, PTL DEF Spec
-------------------------------------------------------------------------------
(* Numbers and finite sets.                                                  *)

LEMMA LeastNumber ==
    ASSUME NEW T \in SUBSET Nat, T # {}
    PROVE  \E x \in T : \A y \in T : x <= y
  <1>1. PICK x \in T : \A y \in T : ~ (<<y, x>> \in OpToRel(<, Nat))
    BY NatLessThanWellFounded, WFMin
  <1>2. \A y \in T : ~ (y < x)
    BY <1>1 DEF OpToRel
  <1> QED BY <1>2

\* Max is what its name says.
LEMMA LastOf ==
    ASSUME NEW n \in Nat, NEW S \in SUBSET (1 .. n), S # {}
    PROVE  Max(S) \in S /\ \A y \in S : y <= Max(S)
  <1> DEFINE T == {n - i : i \in S}
  <1>1. \A i \in S : n - i \in Nat
    OBVIOUS
  <1>2. T \in SUBSET Nat /\ T # {}
    BY <1>1
  <1>3. PICK x \in T : \A y \in T : x <= y
    BY <1>2, LeastNumber
  <1>4. PICK m \in S : x = n - m
    OBVIOUS
  <1>5. \A i \in S : n - m <= n - i
    BY <1>3, <1>4
  <1>6. \A i \in S : m >= i
    BY <1>5
  <1> QED BY <1>6 DEF Max

LEMMA SizesAreNumbers ==
    /\ ProblemCount \in Nat \ {0} /\ PassK \in Nat \ {0}
    /\ BatchSize \in Nat \ {0} /\ QueueSize \in Nat \ {0}
    /\ MaxRuns \in Nat /\ MaxRetries \in Nat /\ MaxFaults \in Nat /\ MaxCuts \in Nat
    /\ Rejected \subseteq Keys
  BY SizesAssumption, RejectedAssumption

LEMMA KeysFinite ==
    /\ IsFiniteSet(Keys) /\ Cardinality(Keys) \in Nat
    /\ IsFiniteSet(Problems) /\ IsFiniteSet(Results)
    /\ <<0, 0>> \in Keys
  <1>0. ProblemCount \in Nat \ {0} /\ PassK \in Nat \ {0}
    BY SizesAreNumbers
  <1>1. IsFiniteSet(Problems) /\ IsFiniteSet(Attempts)
    BY <1>0, FS_Interval DEF Problems, Attempts
  <1>2. IsFiniteSet(Keys)
    BY <1>1, FS_Product DEF Keys
  <1>3. IsFiniteSet(Keys \X BOOLEAN)
    <2>1. IsFiniteSet({TRUE} \cup {FALSE})
      BY FS_Singleton, FS_AddElement
    <2>2. BOOLEAN = {TRUE} \cup {FALSE}
      OBVIOUS
    <2> QED BY <1>2, <2>1, <2>2, FS_Product
  <1>4. IsFiniteSet(Results)
    <2> DEFINE f == [r \in Results |-> <<r.key, r.ok>>]
    <2>1. f \in [Results -> Keys \X BOOLEAN]
      BY DEF Results
    <2>2. \A r, s \in Results : f[r] = f[s] => r = s
      BY DEF Results
    <2>3. f \in Injection(Results, Keys \X BOOLEAN)
      BY <2>1, <2>2 DEF Injection, IsInjective
    <2> QED BY <1>3, <2>3, FS_Injection
  <1>5. <<0, 0>> \in Keys
    BY <1>0 DEF Keys, Problems, Attempts
  <1> QED BY <1>1, <1>2, <1>4, <1>5, FS_CardinalityType
-------------------------------------------------------------------------------
(* The types of what BenchInv says nothing about.                            *)

Rows == [problem : Problems, results : SUBSET Results]
FileTypes ==
    /\ problemRows \in Seq(Rows) /\ rowsTail \in Tails
    /\ successRows \subseteq Keys /\ summary \in [successes : Nat, failures : Nat]
BookTypes ==
    /\ pc \in {"down", "generate", "submit", "drain", "wait", "flush"}
    /\ run \in 0 .. MaxRuns
    /\ results \in [Problems -> SUBSET Results]
    /\ seen \subseteq Keys /\ written \subseteq Problems
    /\ counter \in Nat /\ expected \in Nat
    /\ outcome \in {"none", "complete", "failed"}
WorkTypes ==
    /\ todo \subseteq Keys /\ current \subseteq Keys
    /\ stage \in {"none", "success", "problem"} /\ latest \in Keys
PoolTypes ==
    /\ buffered \subseteq Results
    /\ fatal \in BOOLEAN /\ stalled \in BOOLEAN
    /\ retries \in 0 .. MaxRetries /\ faults \in 0 .. MaxFaults /\ cuts \in 0 .. MaxCuts
BenchTypes == BenchInv /\ FileTypes /\ BookTypes /\ WorkTypes /\ PoolTypes

LEMMA CountsAreNumbers ==
    ASSUME NEW rs \in [Problems -> SUBSET Results]
    PROVE  Counts(rs) \in [successes : Nat, failures : Nat]
  <1> DEFINE all == UNION {rs[p] : p \in Problems}
  <1>1. all \subseteq Results
    OBVIOUS
  <1>2. \A S \in SUBSET Results : Cardinality(S) \in Nat
    BY KeysFinite, FS_Subset, FS_CardinalityType
  <1>3. /\ {r \in all : r.ok} \in SUBSET Results
        /\ {r \in all : ~ r.ok} \in SUBSET Results
    BY <1>1
  <1> QED BY <1>2, <1>3 DEF Counts

\* The completed row of a problem is its last complete one.
LEMMA CompletedRowIs ==
    ASSUME problemRows \in Seq(Rows), NEW p \in CompletedIds
    PROVE  \E i \in DOMAIN problemRows :
              /\ CompletedRow(p) = problemRows[i]
              /\ problemRows[i].problem = p /\ IsCompleteRow(problemRows[i])
              /\ \A j \in DOMAIN problemRows :
                    problemRows[j].problem = p /\ IsCompleteRow(problemRows[j]) => j <= i
  <1> DEFINE S == {i \in DOMAIN problemRows :
                      problemRows[i].problem = p /\ IsCompleteRow(problemRows[i])}
  <1>1. S # {} /\ S \subseteq DOMAIN problemRows
    BY DEF CompletedIds
  <1>2. DOMAIN problemRows = 1 .. Len(problemRows) /\ Len(problemRows) \in Nat
    OBVIOUS
  <1>3. Max(S) \in S /\ \A y \in S : y <= Max(S)
    BY <1>1, <1>2, LastOf
  <1>4. CompletedRow(p) = problemRows[Max(S)]
    BY DEF CompletedRow
  <1> QED BY <1>3, <1>4

LEMMA RestoredType ==
    ASSUME BenchTypes, NEW p \in Problems
    PROVE  Restored(p) \in SUBSET Results
  <1>1. CASE p \in CompletedIds
    <2>1. \A i \in DOMAIN problemRows : problemRows[i] \in Rows
      BY DEF BenchTypes, FileTypes
    <2>2. CompletedRow(p) \in Rows
      BY <1>1, <2>1, CompletedRowIs DEF BenchTypes, FileTypes
    <2> QED BY <1>1, <2>2 DEF Restored, Rows
  <1>2. CASE p \notin CompletedIds
    <2>1. \A i \in DOMAIN attempts : attempts[i] \in Results
      BY DEF BenchTypes, BenchInv, BenchTypeOK
    <2>2. Range(attempts) \subseteq Results
      BY <2>1 DEF Range
    <2> QED BY <1>2, <2>2 DEF Restored, Existing
  <1> QED BY <1>1, <1>2

LEMMA MissingType == \A p \in Problems : Missing(p) \subseteq Keys
  BY DEF Missing, Keys

LEMMA RowAppended ==
    ASSUME BenchTypes, NEW p \in Problems
    PROVE  Append(problemRows, [problem |-> p, results |-> results[p]]) \in Seq(Rows)
  BY DEF BenchTypes, FileTypes, BookTypes, Rows

LEMMA RecordTypes ==
    ASSUME BenchTypes, NEW r \in Results, RecordResult(r)
    PROVE  /\ results' \in [Problems -> SUBSET Results]
           /\ seen' \subseteq Keys /\ counter' \in Nat
           /\ stage' \in {"none", "success", "problem"} /\ latest' \in Keys
  <1>0. /\ results \in [Problems -> SUBSET Results] /\ seen \subseteq Keys
        /\ counter \in Nat /\ stage \in {"none", "success", "problem"}
        /\ latest \in Keys
    BY DEF BenchTypes, BookTypes, WorkTypes
  <1>1. CASE IsNew(r.key) /\ Record(r)
    <2>1. r.key \in Keys
      BY DEF Results
    <2>2. r.key[1] \in Problems
      BY <2>1 DEF Keys
    <2>3. /\ results' = [results EXCEPT ![r.key[1]] = @ \cup {r}]
          /\ seen' = seen \cup {r.key} /\ counter' = counter + 1
          /\ latest' = r.key
          /\ stage' = IF r.ok THEN "success" ELSE AfterSuccess(r.key[1], results'[r.key[1]])
      BY <1>1 DEF Record
    <2>4. stage' \in {"none", "success", "problem"}
      BY <2>3 DEF AfterSuccess
    <2> QED BY <1>0, <2>1, <2>2, <2>3, <2>4
  <1>2. CASE UNCHANGED <<attempts, attemptsTail, seen, results, counter, latest, stage>>
    BY <1>0, <1>2
  <1> QED BY <1>1, <1>2 DEF RecordResult
LEMMA InitTypes ==
    ASSUME Init
    PROVE  BenchTypes
  <1>1. BenchInv
    BY InitEstablishes
  <1>2. FileTypes
    BY DEF Init, FileTypes, Tails, NoSummary
  <1>3. BookTypes
    BY SizesAreNumbers DEF Init, BookTypes
  <1>4. WorkTypes
    BY KeysFinite DEF Init, WorkTypes
  <1>5. PoolTypes
    <2>1. retries \in 0 .. MaxRetries /\ faults \in 0 .. MaxFaults /\ cuts \in 0 .. MaxCuts
      BY SizesAreNumbers DEF Init
    <2>2. buffered \subseteq Results /\ fatal \in BOOLEAN /\ stalled \in BOOLEAN
      BY DEF Init
    <2> QED BY <2>1, <2>2 DEF PoolTypes
  <1> QED BY <1>1, <1>2, <1>3, <1>4, <1>5 DEF BenchTypes

LEMMA StartRunTypes ==
    ASSUME BenchTypes, StartRun
    PROVE  FileTypes' /\ BookTypes' /\ WorkTypes' /\ PoolTypes'
  <1>0. FileTypes /\ BookTypes /\ WorkTypes /\ PoolTypes
    BY DEF BenchTypes
  <1>1. /\ run' = run + 1 /\ run < MaxRuns
        /\ results' = [p \in Problems |-> Restored(p)]
        /\ seen' = {r.key : r \in Range(attempts)} /\ written' = CompletedIds
        /\ counter' = 0 /\ expected' = 0
        /\ pc' \in {pc, "generate"} /\ outcome' \in {"none", "complete"}
        /\ todo' \in {todo, UNION {Missing(p) : p \in Problems}}
        /\ summary' \in {summary, Counts(results')}
        /\ UNCHANGED <<problemRows, rowsTail, successRows, current, stage, latest,
                       buffered, fatal, stalled, retries, faults, cuts>>
    BY DEF StartRun, pool, bounds
  <1>2. results' \in [Problems -> SUBSET Results]
    BY <1>1, RestoredType
  <1>3. seen' \subseteq Keys
    <2>1. \A i \in DOMAIN attempts : attempts[i] \in Results
      BY DEF BenchTypes, BenchInv, BenchTypeOK
    <2> QED BY <1>1, <2>1 DEF Range, Results
  <1>4. todo' \subseteq Keys
    BY <1>0, <1>1, MissingType DEF WorkTypes
  <1>5. summary' \in [successes : Nat, failures : Nat]
    BY <1>0, <1>1, <1>2, CountsAreNumbers DEF FileTypes
  <1>6. run' \in 0 .. MaxRuns
    BY <1>0, <1>1, SizesAreNumbers DEF BookTypes
  <1>7. FileTypes'
    BY <1>0, <1>1, <1>5 DEF FileTypes
  <1>8. BookTypes'
    BY <1>0, <1>1, <1>2, <1>3, <1>6 DEF BookTypes, CompletedIds
  <1>9. WorkTypes' /\ PoolTypes'
    BY <1>0, <1>1, <1>4 DEF WorkTypes, PoolTypes
  <1> QED BY <1>7, <1>8, <1>9

LEMMA RecordsTypes ==
    ASSUME BenchTypes, RejectGenerated \/ RecordDrained
    PROVE  FileTypes' /\ BookTypes' /\ WorkTypes' /\ PoolTypes'
  <1>0. FileTypes /\ BookTypes /\ WorkTypes /\ PoolTypes /\ drained \subseteq Results
    BY DEF BenchTypes, BenchInv, BenchTypeOK
  <1>1. PICK r \in Results : RecordResult(r)
    <2>1. CASE RejectGenerated
      BY <2>1, SizesAreNumbers DEF RejectGenerated, Results
    <2>2. CASE RecordDrained
      BY <1>0, <2>2 DEF RecordDrained
    <2> QED BY <2>1, <2>2
  <1>2. /\ expected' \in {expected, expected + 1}
        /\ current' \subseteq current
        /\ UNCHANGED <<problemRows, rowsTail, successRows, summary, pc, run, written,
                       todo, outcome, buffered, fatal, stalled, retries, faults, cuts>>
    BY DEF RejectGenerated, RecordDrained, pool, bounds
  <1>3. FileTypes'
    BY <1>0, <1>2 DEF FileTypes
  <1>4. BookTypes'
    <2>1. expected' \in Nat
      BY <1>0, <1>2 DEF BookTypes
    <2> QED BY <1>0, <1>1, <1>2, <2>1, RecordTypes DEF BookTypes
  <1>5. WorkTypes' /\ PoolTypes'
    BY <1>0, <1>1, <1>2, RecordTypes DEF WorkTypes, PoolTypes
  <1> QED BY <1>3, <1>4, <1>5

LEMMA FilesStepTypes ==
    ASSUME BenchTypes, WriteSuccess \/ WriteProblem \/ FlushRow \/ FlushEnds \/ WaitEnds
    PROVE  FileTypes' /\ BookTypes' /\ WorkTypes' /\ PoolTypes'
  <1>0. FileTypes /\ BookTypes /\ WorkTypes /\ PoolTypes
    BY DEF BenchTypes
  <1>a. latest[1] \in Problems
    BY <1>0 DEF WorkTypes, Keys
  <1>1. CASE WriteSuccess
    BY <1>0, <1>1 DEF WriteSuccess, AfterSuccess, FileTypes, BookTypes, WorkTypes, PoolTypes,
                      books, pool, bounds
  <1>2. ASSUME NEW p \in Problems, AppendRow(p), stage' \in {stage, "none"},
               UNCHANGED <<successRows, summary, pc, run, results, seen, counter, expected,
                           todo, current, latest, outcome, pool, bounds>>
        PROVE  FileTypes' /\ BookTypes' /\ WorkTypes' /\ PoolTypes'
    <2>1. FileTypes'
      BY <1>0, <1>2, RowAppended DEF AppendRow, FileTypes, Tails
    <2>2. BookTypes'
      BY <1>0, <1>2 DEF AppendRow, BookTypes
    <2>3. WorkTypes' /\ PoolTypes'
      BY <1>0, <1>2 DEF WorkTypes, PoolTypes, pool, bounds
    <2> QED BY <2>1, <2>2, <2>3
  <1>3. CASE WriteProblem
    BY <1>a, <1>2, <1>3 DEF WriteProblem
  <1>4. CASE FlushRow
    BY <1>2, <1>4 DEF FlushRow, work
  <1>5. CASE FlushEnds
    <2>1. /\ summary' = Counts(results) /\ outcome' \in {"failed", "complete"} /\ pc' = "down"
          /\ NoWork /\ NoPool
          /\ UNCHANGED <<problemRows, rowsTail, successRows, run, books, bounds>>
      BY <1>5 DEF FlushEnds
    <2>2. FileTypes'
      BY <1>0, <2>1, CountsAreNumbers DEF FileTypes, BookTypes
    <2>3. BookTypes'
      BY <1>0, <2>1 DEF BookTypes, books
    <2>4. WorkTypes' /\ PoolTypes'
      BY <1>0, <2>1, KeysFinite DEF WorkTypes, PoolTypes, NoWork, NoPool, bounds
    <2> QED BY <2>2, <2>3, <2>4
  <1>6. CASE WaitEnds
    <2>1. /\ written' = written \cup {problemRows[i].problem : i \in DOMAIN problemRows}
          /\ pc' = "flush"
          /\ UNCHANGED <<files, run, results, seen, counter, expected, work, outcome,
                         pool, bounds>>
      BY <1>6 DEF WaitEnds
    <2>2. \A i \in DOMAIN problemRows : problemRows[i].problem \in Problems
      <3>1. \A i \in DOMAIN problemRows : problemRows[i] \in Rows
        BY <1>0 DEF FileTypes
      <3> QED BY <3>1 DEF Rows
    <2>3. FileTypes' /\ BookTypes'
      BY <1>0, <2>1, <2>2 DEF FileTypes, BookTypes, files
    <2>4. WorkTypes' /\ PoolTypes'
      BY <1>0, <2>1 DEF WorkTypes, PoolTypes, work, pool, bounds
    <2> QED BY <2>3, <2>4
  <1> QED BY <1>1, <1>3, <1>4, <1>5, <1>6

LEMMA TurnTypes ==
    ASSUME BenchTypes,
           \/ GenerateBatch \/ SubmitTask \/ SubmitFull \/ DrainAfterBatch
           \/ BatchEnds \/ DrainWaiting \/ Stall
    PROVE  FileTypes' /\ BookTypes' /\ WorkTypes' /\ PoolTypes'
  <1>0. /\ FileTypes /\ BookTypes /\ WorkTypes /\ PoolTypes
        /\ ready \subseteq Results
    BY DEF BenchTypes, BenchInv, BenchTypeOK
  <1>1. /\ UNCHANGED <<files, run, results, seen, written, counter, stage, latest,
                       outcome, bounds>>
        /\ pc' \in {pc, "submit", "drain", "wait", "generate"}
        /\ expected' \in {expected, expected + 1}
        /\ todo' \subseteq todo /\ current' \subseteq current \cup todo
        /\ buffered' \in {buffered, buffered \cup ready}
        /\ fatal' \in {fatal, TRUE} /\ stalled' \in {stalled, TRUE}
    BY DEF GenerateBatch, SubmitTask, SubmitFull, DrainAfterBatch, BatchEnds,
           DrainWaiting, Stall, books, work, pool
  <1>2. FileTypes' /\ BookTypes'
    <2>1. expected' \in Nat
      BY <1>0, <1>1 DEF BookTypes
    <2> QED BY <1>0, <1>1, <2>1 DEF FileTypes, BookTypes, files
  <1>3. WorkTypes' /\ PoolTypes'
    BY <1>0, <1>1 DEF WorkTypes, PoolTypes, bounds
  <1> QED BY <1>2, <1>3

LEMMA ForgetTypes ==
    ASSUME BenchTypes, Forget, UNCHANGED <<successRows, summary>>,
           problemRows' \in Seq(Rows), rowsTail' \in Tails, cuts' \in 0 .. MaxCuts
    PROVE  FileTypes' /\ BookTypes' /\ WorkTypes' /\ PoolTypes'
  <1>0. FileTypes /\ BookTypes /\ WorkTypes /\ PoolTypes
    BY DEF BenchTypes
  <1>1. FileTypes' /\ BookTypes'
    BY <1>0 DEF FileTypes, BookTypes, Forget
  <1>2. WorkTypes' /\ PoolTypes'
    BY <1>0, KeysFinite DEF WorkTypes, PoolTypes, Forget, NoWork, NoPool
  <1> QED BY <1>1, <1>2
LEMMA CutLineTypes ==
    ASSUME BenchTypes, CutLine
    PROVE  FileTypes' /\ BookTypes' /\ WorkTypes' /\ PoolTypes'
  <1>0. FileTypes /\ BookTypes /\ WorkTypes /\ PoolTypes
    BY DEF BenchTypes
  <1>1. Forget /\ UNCHANGED <<successRows, summary>> /\ cuts < MaxCuts /\ cuts' = cuts + 1
    BY DEF CutLine
  <1>2. cuts' \in 0 .. MaxCuts
    BY <1>0, <1>1, SizesAreNumbers DEF PoolTypes
  <1>3. \/ UNCHANGED <<problemRows, rowsTail>>
        \/ rowsTail' = "cut" /\ UNCHANGED problemRows
        \/ /\ rowsTail' = "unended"
           /\ \E p \in Problems :
                problemRows' = Append(problemRows, [problem |-> p, results |-> results[p]])
    BY DEF CutLine
  <1>4. problemRows' \in Seq(Rows) /\ rowsTail' \in Tails
    BY <1>0, <1>3, RowAppended DEF FileTypes, Tails
  <1> QED BY <1>1, <1>2, <1>4, ForgetTypes

LEMMA PoolStepTypes ==
    ASSUME BenchTypes, Verify \/ LoseTask \/ PoolFails
    PROVE  FileTypes' /\ BookTypes' /\ WorkTypes' /\ PoolTypes'
  <1>0. FileTypes /\ BookTypes /\ WorkTypes /\ PoolTypes
    BY DEF BenchTypes
  <1>1. /\ UNCHANGED <<files, pc, run, books, work, outcome, buffered, stalled, cuts>>
        /\ fatal' \in {fatal, TRUE}
        /\ \/ retries' = retries
           \/ retries < MaxRetries /\ retries' = retries + 1
        /\ \/ faults' = faults
           \/ faults < MaxFaults /\ faults' = faults + 1
    <2>1. CASE Verify
      BY <2>1 DEF Verify
    <2>2. CASE LoseTask
      BY <2>2 DEF LoseTask
    <2>3. CASE PoolFails
      BY <2>3 DEF PoolFails
    <2> QED BY <2>1, <2>2, <2>3
  <1>2. FileTypes' /\ BookTypes' /\ WorkTypes'
    BY <1>0, <1>1 DEF FileTypes, BookTypes, WorkTypes, files, books, work
  <1>3. retries' \in 0 .. MaxRetries /\ faults' \in 0 .. MaxFaults
    BY <1>0, <1>1, SizesAreNumbers DEF PoolTypes
  <1>4. PoolTypes'
    BY <1>0, <1>1, <1>3 DEF PoolTypes
  <1> QED BY <1>2, <1>4

LEMMA NextTypes ==
    ASSUME BenchTypes, [Next]_vars
    PROVE  BenchTypes'
  <1>0. BenchInv'
    BY NextPreserves DEF BenchTypes
  <1>1. ASSUME Crash \/ SubmitRaises \/ FlushRaises
        PROVE  FileTypes' /\ BookTypes' /\ WorkTypes' /\ PoolTypes'
    <2>1. Forget /\ UNCHANGED <<files, cuts>>
      BY <1>1 DEF Crash, SubmitRaises, FlushRaises
    <2>2. problemRows' \in Seq(Rows) /\ rowsTail' \in Tails /\ cuts' \in 0 .. MaxCuts
      BY <2>1 DEF files, BenchTypes, FileTypes, PoolTypes
    <2> QED BY <2>1, <2>2, ForgetTypes DEF files
  <1>2. ASSUME UNCHANGED vars
        PROVE  FileTypes' /\ BookTypes' /\ WorkTypes' /\ PoolTypes'
    <2>1. FileTypes' /\ BookTypes'
      BY <1>2 DEF vars, files, books, BenchTypes, FileTypes, BookTypes
    <2>2. WorkTypes' /\ PoolTypes'
      BY <1>2 DEF vars, work, pool, bounds, BenchTypes, WorkTypes, PoolTypes
    <2> QED BY <2>1, <2>2
  <1>3. ASSUME Progress
        PROVE  FileTypes' /\ BookTypes' /\ WorkTypes' /\ PoolTypes'
    BY <1>1, <1>3, RecordsTypes, FilesStepTypes, TurnTypes DEF Progress
  <1>4. FileTypes' /\ BookTypes' /\ WorkTypes' /\ PoolTypes'
    BY <1>1, <1>2, <1>3, StartRunTypes, CutLineTypes, PoolStepTypes DEF Next
  <1> QED BY <1>0, <1>4 DEF BenchTypes

-------------------------------------------------------------------------------
(* The ledger: every key is left, awaited or recorded, and the numbers that  *)
(* end the final loop are those of these sets.                               *)

Left == todo \cup current
Held == queued \cup {r.key : r \in ready \cup buffered \cup drained}
Awaited == Held \ seen

\* What a line of run_pipeline is done with when the next one begins.
PhaseInv ==
    /\ pc = "down" => queued = {} /\ ready = {} /\ buffered = {} /\ ~ fatal
    /\ pc # "submit" => current = {}
    /\ pc \in {"down", "wait", "flush"} => todo = {}
    /\ pc \in {"down", "generate", "submit", "flush"} => drained = {}
    /\ pc \in {"down", "generate", "flush"} => stage = "none"

\* t: keys to generate, c: keys to hand over, s: keys seen, h: keys in the pool
\* or drained, n: results recorded, m: results expected
Ledger(t, c, s, h, n, m) ==
    /\ t \cap c = {} /\ (t \cup c) \cap (s \cup h) = {}
    /\ n + Cardinality(h \ s) <= m
    /\ m + Cardinality(t \cup c) <= Cardinality(Keys)
Exact(s, h, n, m) == n + Cardinality(h \ s) = m

LedgerInv == Ledger(todo, current, seen, Held, counter, expected)

LEMMA SubsetOfKeys ==
    ASSUME NEW S \in SUBSET Keys
    PROVE  IsFiniteSet(S) /\ Cardinality(S) \in Nat /\ Cardinality(S) <= Cardinality(Keys)
  BY KeysFinite, FS_Subset, FS_CardinalityType

LEMMA LedgerSums ==
    ASSUME NEW a \in Nat, NEW b \in Nat, NEW n \in Nat, NEW m \in Nat, NEW z \in Nat,
           n + a <= m, m + b <= z
    PROVE  /\ n + (a + 1) <= m + 1 /\ (n + 1) + a <= m + 1
           /\ (n + 1) + (a - 1) <= m
           /\ (m + 1) + (b - 1) <= z
           /\ n + a = m => n + (a + 1) = m + 1 /\ (n + 1) + a = m + 1
                          /\ (n + 1) + (a - 1) = m
  OBVIOUS

LEMMA HandOver ==
    ASSUME NEW t \in SUBSET Keys, NEW c \in SUBSET Keys, NEW s \in SUBSET Keys,
           NEW h \in SUBSET Keys, NEW n \in Nat, NEW m \in Nat,
           Ledger(t, c, s, h, n, m), NEW k \in c
    PROVE  /\ Ledger(t, c \ {k}, s, h \cup {k}, n, m + 1)
           /\ Exact(s, h, n, m) => Exact(s, h \cup {k}, n, m + 1)
  <1>1. k \notin h \ s /\ k \notin s /\ k \notin t /\ k \in t \cup c
    BY DEF Ledger
  <1>2. (h \cup {k}) \ s = (h \ s) \cup {k} /\ t \cup (c \ {k}) = (t \cup c) \ {k}
    BY <1>1
  <1>3. /\ IsFiniteSet(h \ s) /\ Cardinality(h \ s) \in Nat
        /\ IsFiniteSet(t \cup c) /\ Cardinality(t \cup c) \in Nat
    BY SubsetOfKeys
  <1>4. /\ Cardinality((h \ s) \cup {k}) = Cardinality(h \ s) + 1
        /\ Cardinality((t \cup c) \ {k}) = Cardinality(t \cup c) - 1
    BY <1>1, <1>3, FS_AddElement, FS_RemoveElement
  <1>5. Cardinality(Keys) \in Nat
    BY KeysFinite
  <1>6. /\ t \cap (c \ {k}) = {}
        /\ (t \cup (c \ {k})) \cap (s \cup (h \cup {k})) = {}
    BY <1>1 DEF Ledger
  <1>7. /\ n + Cardinality((h \cup {k}) \ s) <= m + 1
        /\ (m + 1) + Cardinality(t \cup (c \ {k})) <= Cardinality(Keys)
        /\ n + Cardinality(h \ s) = m => n + Cardinality((h \cup {k}) \ s) = m + 1
    <2>1. PICK a \in Nat, b \in Nat, z \in Nat :
             /\ a = Cardinality(h \ s) /\ b = Cardinality(t \cup c) /\ z = Cardinality(Keys)
      BY <1>3, <1>5
    <2>2. n + a <= m /\ m + b <= z
      BY <2>1 DEF Ledger
    <2>3. /\ Cardinality((h \cup {k}) \ s) = a + 1
          /\ Cardinality(t \cup (c \ {k})) = b - 1
      BY <1>2, <1>4, <2>1
    <2>4. n + (a + 1) <= m + 1 /\ (m + 1) + (b - 1) <= z /\ (n + a = m => n + (a + 1) = m + 1)
      BY <2>2, LedgerSums
    <2> QED BY <2>1, <2>3, <2>4
  <1> QED BY <1>6, <1>7 DEF Ledger, Exact

LEMMA RejectOne ==
    ASSUME NEW t \in SUBSET Keys, NEW c \in SUBSET Keys, NEW s \in SUBSET Keys,
           NEW h \in SUBSET Keys, NEW n \in Nat, NEW m \in Nat,
           Ledger(t, c, s, h, n, m), NEW k \in c
    PROVE  /\ Ledger(t, c \ {k}, s \cup {k}, h, n + 1, m + 1)
           /\ Exact(s, h, n, m) => Exact(s \cup {k}, h, n + 1, m + 1)
  <1>1. k \notin h /\ k \notin s /\ k \notin t /\ k \in t \cup c
    BY DEF Ledger
  <1>2. h \ (s \cup {k}) = h \ s /\ t \cup (c \ {k}) = (t \cup c) \ {k}
    BY <1>1
  <1>3. /\ IsFiniteSet(h \ s) /\ Cardinality(h \ s) \in Nat
        /\ IsFiniteSet(t \cup c) /\ Cardinality(t \cup c) \in Nat
    BY SubsetOfKeys
  <1>4. Cardinality((t \cup c) \ {k}) = Cardinality(t \cup c) - 1
    BY <1>1, <1>3, FS_RemoveElement
  <1>5. Cardinality(Keys) \in Nat
    BY KeysFinite
  <1>6. /\ t \cap (c \ {k}) = {}
        /\ (t \cup (c \ {k})) \cap ((s \cup {k}) \cup h) = {}
    BY <1>1 DEF Ledger
  <1>7. /\ (n + 1) + Cardinality(h \ (s \cup {k})) <= m + 1
        /\ (m + 1) + Cardinality(t \cup (c \ {k})) <= Cardinality(Keys)
        /\ n + Cardinality(h \ s) = m => (n + 1) + Cardinality(h \ (s \cup {k})) = m + 1
    <2>1. PICK a \in Nat, b \in Nat, z \in Nat :
             /\ a = Cardinality(h \ s) /\ b = Cardinality(t \cup c) /\ z = Cardinality(Keys)
      BY <1>3, <1>5
    <2>2. n + a <= m /\ m + b <= z
      BY <2>1 DEF Ledger
    <2>3. /\ Cardinality(h \ (s \cup {k})) = a
          /\ Cardinality(t \cup (c \ {k})) = b - 1
      BY <1>2, <1>4, <2>1
    <2>4. (n + 1) + a <= m + 1 /\ (m + 1) + (b - 1) <= z /\ (n + a = m => (n + 1) + a = m + 1)
      BY <2>2, LedgerSums
    <2> QED BY <2>1, <2>3, <2>4
  <1> QED BY <1>6, <1>7 DEF Ledger, Exact

LEMMA RecordOne ==
    ASSUME NEW t \in SUBSET Keys, NEW c \in SUBSET Keys, NEW s \in SUBSET Keys,
           NEW h \in SUBSET Keys, NEW n \in Nat, NEW m \in Nat,
           Ledger(t, c, s, h, n, m), NEW k \in h \ s,
           NEW g \in SUBSET h, h \ {k} \subseteq g
    PROVE  /\ Ledger(t, c, s \cup {k}, g, n + 1, m)
           /\ Exact(s, h, n, m) => Exact(s \cup {k}, g, n + 1, m)
  <1>1. g \ (s \cup {k}) = (h \ s) \ {k}
    OBVIOUS
  <1>2. IsFiniteSet(h \ s) /\ Cardinality(h \ s) \in Nat
    BY SubsetOfKeys
  <1>3. Cardinality((h \ s) \ {k}) = Cardinality(h \ s) - 1
    BY <1>2, FS_RemoveElement
  <1>4. (t \cup c) \cap ((s \cup {k}) \cup g) = {}
    BY DEF Ledger
  <1>5. /\ (n + 1) + Cardinality(g \ (s \cup {k})) <= m
        /\ n + Cardinality(h \ s) = m => (n + 1) + Cardinality(g \ (s \cup {k})) = m
    <2>1. PICK a \in Nat : a = Cardinality(h \ s)
      BY <1>2
    <2>2. n + a <= m
      BY <2>1 DEF Ledger
    <2>3. Cardinality(g \ (s \cup {k})) = a - 1
      BY <1>1, <1>3, <2>1
    <2>4. (n + 1) + (a - 1) <= m /\ (n + a = m => (n + 1) + (a - 1) = m)
      BY <2>2
    <2> QED BY <2>1, <2>3, <2>4
  <1>6. t \cap c = {} /\ m + Cardinality(t \cup c) <= Cardinality(Keys)
    BY DEF Ledger
  <1> QED BY <1>4, <1>5, <1>6 DEF Ledger, Exact

LEMMA HoldLess ==
    ASSUME NEW t \in SUBSET Keys, NEW c \in SUBSET Keys, NEW s \in SUBSET Keys,
           NEW h \in SUBSET Keys, NEW n \in Nat, NEW m \in Nat,
           Ledger(t, c, s, h, n, m), NEW g \in SUBSET h
    PROVE  /\ Ledger(t, c, s, g, n, m)
           /\ Exact(s, h, n, m) /\ h \ s = g \ s => Exact(s, g, n, m)
  <1>1. g \ s \in SUBSET (h \ s)
    OBVIOUS
  <1>2. IsFiniteSet(h \ s) /\ Cardinality(h \ s) \in Nat /\ Cardinality(g \ s) \in Nat
    BY SubsetOfKeys
  <1>3. Cardinality(g \ s) <= Cardinality(h \ s)
    BY <1>1, <1>2, FS_Subset
  <1>4. (t \cup c) \cap (s \cup g) = {}
    BY DEF Ledger
  <1> QED BY <1>2, <1>3, <1>4 DEF Ledger, Exact
LEMMA GenerateSome ==
    ASSUME NEW t \in SUBSET Keys, NEW s \in SUBSET Keys,
           NEW h \in SUBSET Keys, NEW n \in Nat, NEW m \in Nat,
           Ledger(t, {}, s, h, n, m), NEW b \in SUBSET t
    PROVE  Ledger(t \ b, b, s, h, n, m)
  <1>1. (t \ b) \cup b = t \cup {}
    OBVIOUS
  <1>2. (t \ b) \cap b = {}
    OBVIOUS
  <1> QED BY <1>1, <1>2 DEF Ledger

LEMMA NewLedger ==
    ASSUME NEW t \in SUBSET Keys, NEW s \in SUBSET Keys, t \cap s = {}
    PROVE  Ledger(t, {}, s, {}, 0, 0) /\ Exact(s, {}, 0, 0)
  <1>1. Cardinality({} \ s) = 0
    <2>1. {} \ s = {}
      OBVIOUS
    <2> QED BY <2>1, FS_EmptySet
  <1>2. t \cup {} = t /\ t \cap {} = {} /\ (t \cup {}) \cap (s \cup {}) = {}
    OBVIOUS
  <1>3. Cardinality(t) <= Cardinality(Keys) /\ Cardinality(t) \in Nat
    BY SubsetOfKeys
  <1> QED BY <1>1, <1>2, <1>3, KeysFinite DEF Ledger, Exact

ExactInv == Exact(seen, Held, counter, expected)

LEMMA LedgerTypes ==
    ASSUME BenchTypes
    PROVE  /\ todo \in SUBSET Keys /\ current \in SUBSET Keys /\ seen \in SUBSET Keys
           /\ Held \in SUBSET Keys /\ counter \in Nat /\ expected \in Nat
  <1>1. /\ todo \in SUBSET Keys /\ current \in SUBSET Keys /\ seen \in SUBSET Keys
        /\ counter \in Nat /\ expected \in Nat
    BY DEF BenchTypes, WorkTypes, BookTypes
  <1>2. queued \subseteq Keys /\ ready \cup buffered \cup drained \subseteq Results
    BY DEF BenchTypes, BenchInv, BenchTypeOK, PoolTypes
  <1>3. Held \in SUBSET Keys
    BY <1>2 DEF Held, Results
  <1> QED BY <1>1, <1>3

\* A step that moves no key from one side of the ledger to another.
LEMMA LedgerSame ==
    ASSUME BenchTypes, LedgerInv, UNCHANGED <<todo, current, seen, counter, expected>>,
           Held' = Held
    PROVE  LedgerInv' /\ (ExactInv => ExactInv')
  BY DEF LedgerInv, ExactInv

LEMMA SubmitLedger ==
    ASSUME BenchTypes, LedgerInv, SubmitTask
    PROVE  LedgerInv' /\ (ExactInv => ExactInv')
  <1>1. PICK k \in current : queued' = queued \cup {k} /\ current' = current \ {k}
    BY DEF SubmitTask, IsNext
  <1>2. /\ expected' = expected + 1
        /\ UNCHANGED <<todo, seen, counter, ready, buffered, drained>>
    BY DEF SubmitTask
  <1>3. Held' = Held \cup {k}
    BY <1>1, <1>2 DEF Held
  <1> QED BY <1>1, <1>2, <1>3, LedgerTypes, HandOver DEF LedgerInv, ExactInv

LEMMA RejectLedger ==
    ASSUME BenchTypes, LedgerInv, RejectGenerated
    PROVE  LedgerInv' /\ (ExactInv => ExactInv')
  <1>1. PICK k \in current : RecordResult([key |-> k, ok |-> FALSE]) /\ current' = current \ {k}
    BY DEF RejectGenerated, IsNext
  <1>2. k \notin seen
    BY <1>1 DEF LedgerInv, Ledger
  <1>3. seen' = seen \cup {k} /\ counter' = counter + 1
    BY <1>1, <1>2 DEF RecordResult, IsNew, Record
  <1>4. /\ expected' = expected + 1
        /\ UNCHANGED <<todo, queued, ready, buffered, drained>>
    BY DEF RejectGenerated, pool
  <1>5. Held' = Held
    BY <1>4 DEF Held
  <1> QED BY <1>1, <1>3, <1>4, <1>5, LedgerTypes, RejectOne DEF LedgerInv, ExactInv

LEMMA RecordLedger ==
    ASSUME BenchTypes, LedgerInv, RecordDrained
    PROVE  LedgerInv' /\ (ExactInv => ExactInv')
  <1>1. PICK r \in drained : RecordResult(r) /\ drained' = drained \ {r}
    BY DEF RecordDrained
  <1>2. UNCHANGED <<expected, todo, current, queued, ready, buffered>>
    BY DEF RecordDrained, pool
  <1>3. r.key \in Held /\ Held' \in SUBSET Held /\ Held \ {r.key} \subseteq Held'
    BY <1>1, <1>2 DEF Held
  <1>4. CASE r.key \notin seen
    <2>1. seen' = seen \cup {r.key} /\ counter' = counter + 1
      BY <1>1, <1>4 DEF RecordResult, IsNew, Record
    <2>2. r.key \in Held \ seen
      BY <1>3, <1>4
    <2> QED BY <1>2, <1>3, <2>1, <2>2, LedgerTypes, RecordOne DEF LedgerInv, ExactInv
  <1>5. CASE r.key \in seen
    <2>1. seen' = seen /\ counter' = counter
      BY <1>1, <1>5 DEF RecordResult, IsNew, Record
    <2>2. Held \ seen = Held' \ seen
      BY <1>3, <1>5
    <2> QED BY <1>2, <1>3, <2>1, <2>2, LedgerTypes, HoldLess DEF LedgerInv, ExactInv
  <1> QED BY <1>4, <1>5

LEMMA GenerateLedger ==
    ASSUME BenchTypes, PhaseInv, LedgerInv, GenerateBatch
    PROVE  LedgerInv' /\ (ExactInv => ExactInv')
  <1>1. /\ current = {} /\ current' \in SUBSET todo /\ todo' = todo \ current'
        /\ UNCHANGED <<seen, counter, expected, queued, ready, buffered, drained>>
    BY DEF GenerateBatch, PhaseInv, books, pool
  <1>2. Held' = Held
    BY <1>1 DEF Held
  <1>3. Ledger(todo, {}, seen, Held, counter, expected)
    BY <1>1 DEF LedgerInv
  <1> DEFINE b == current'
  <1>4. b \in SUBSET todo /\ todo' = todo \ b
    BY <1>1
  <1> HIDE DEF b
  <1>5. Ledger(todo \ b, b, seen, Held, counter, expected)
    BY <1>3, <1>4, LedgerTypes, GenerateSome
  <1> QED BY <1>1, <1>2, <1>4, <1>5 DEF LedgerInv, ExactInv, b

\* The results the pool has move on to its caller.
LEMMA MovesLedger ==
    ASSUME BenchTypes, PhaseInv, LedgerInv,
           SubmitFull \/ DrainAfterBatch \/ DrainWaiting \/ BatchEnds \/ Stall
    PROVE  LedgerInv' /\ (ExactInv => ExactInv')
  <1>1. UNCHANGED <<todo, current, seen, counter, expected, queued>>
    BY DEF SubmitFull, DrainAfterBatch, DrainWaiting, BatchEnds, Stall, books, work, pool
  <1>2. ready' \cup buffered' \cup drained' = ready \cup buffered \cup drained
    <2>1. CASE SubmitFull
      BY <2>1 DEF SubmitFull, work
    <2>2. CASE DrainAfterBatch
      BY <2>2 DEF DrainAfterBatch, PhaseInv
    <2>3. CASE DrainWaiting
      BY <2>3 DEF DrainWaiting, Waiting
    <2>4. CASE BatchEnds \/ Stall
      BY <2>4 DEF BatchEnds, Stall, work, pool
    <2> QED BY <2>1, <2>2, <2>3, <2>4
  <1>3. Held' = Held
    BY <1>1, <1>2 DEF Held
  <1> QED BY <1>1, <1>3, LedgerSame

LEMMA FilesLedger ==
    ASSUME BenchTypes, PhaseInv, LedgerInv,
           WriteSuccess \/ WriteProblem \/ WaitEnds \/ FlushRow \/ PoolFails
    PROVE  LedgerInv' /\ (ExactInv => ExactInv')
  <1>1. UNCHANGED <<todo, current, seen, counter, expected, queued, ready, buffered, drained>>
    BY DEF WriteSuccess, WriteProblem, WaitEnds, FlushRow, PoolFails, books, work, pool
  <1>2. Held' = Held
    BY <1>1 DEF Held
  <1> QED BY <1>1, <1>2, LedgerSame

LEMMA VerifyLedger ==
    ASSUME BenchTypes, LedgerInv, Verify
    PROVE  LedgerInv' /\ (ExactInv => ExactInv')
  <1>1. PICK k \in queued, ok \in BOOLEAN :
           /\ ready' = ready \cup {[key |-> k, ok |-> ok]}
           /\ (queued' = queued \ {k} \/ queued' = queued)
    BY DEF Verify
  <1>2. UNCHANGED <<todo, current, seen, counter, expected, buffered, drained>>
    BY DEF Verify, books, work
  <1> DEFINE old == ready \cup buffered \cup drained
             new == [key |-> k, ok |-> ok]
  <1>3. Held' = Held
    <2>1. Held' = queued' \cup {r.key : r \in old \cup {new}}
      <3>1. ready' \cup buffered' \cup drained' = old \cup {new}
        BY <1>1, <1>2
      <3> QED BY <3>1 DEF Held
    <2>2. new.key = k
      OBVIOUS
    <2> HIDE DEF new, old
    <2>3. {r.key : r \in old \cup {new}} = {r.key : r \in old} \cup {k}
      BY <2>2
    <2>4. queued' \cup {k} = queued
      BY <1>1
    <2> QED BY <2>1, <2>3, <2>4 DEF Held, old
  <1> QED BY <1>2, <1>3, LedgerSame
\* A task that is lost may leave the awaited keys: the numbers no longer agree.
LEMMA LoseLedger ==
    ASSUME BenchTypes, LedgerInv, LoseTask
    PROVE  LedgerInv'
  <1>1. /\ queued' \subseteq queued
        /\ UNCHANGED <<todo, current, seen, counter, expected, ready, buffered, drained>>
    BY DEF LoseTask, books, work
  <1>2. Held' \in SUBSET Held
    BY <1>1 DEF Held
  <1> QED BY <1>1, <1>2, LedgerTypes, HoldLess DEF LedgerInv

LEMMA StartLedger ==
    ASSUME BenchTypes, PhaseInv, LedgerInv, StartRun
    PROVE  LedgerInv' /\ ExactInv'
  <1>1. /\ queued' = {} /\ ready' = {} /\ buffered' = {} /\ drained' = {}
        /\ current' = {} /\ counter' = 0 /\ expected' = 0
        /\ seen' = {r.key : r \in Range(attempts)}
        /\ todo' \in {{}, UNION {Missing(p) : p \in Problems}}
    BY DEF StartRun, PhaseInv, pool
  <1>2. Held' = {}
    BY <1>1 DEF Held
  <1>3. \A p \in Problems : Missing(p) \cap {r.key : r \in Range(attempts)} = {}
    BY DEF Missing, Existing, Attempts
  <1>4. todo' \cap seen' = {}
    BY <1>1, <1>3
  <1>5. todo' \in SUBSET Keys
    BY <1>1, MissingType
  <1>6. seen' \in SUBSET Keys
    BY StartRunTypes DEF BookTypes
  <1> DEFINE t == todo'
             s == seen'
  <1>7. t \in SUBSET Keys /\ s \in SUBSET Keys /\ t \cap s = {}
    BY <1>4, <1>5, <1>6
  <1> HIDE DEF t, s
  <1>8. Ledger(t, {}, s, {}, 0, 0) /\ Exact(s, {}, 0, 0)
    BY <1>7, NewLedger
  <1> QED BY <1>1, <1>2, <1>8 DEF LedgerInv, ExactInv, t, s

LEMMA ForgetLedger ==
    ASSUME Forget
    PROVE  LedgerInv' /\ ExactInv'
  <1>1. /\ queued' = {} /\ ready' = {} /\ buffered' = {} /\ drained' = {}
        /\ todo' = {} /\ current' = {} /\ counter' = 0 /\ expected' = 0 /\ seen' = {}
    BY DEF Forget, NoWork, NoPool
  <1>2. Held' = {}
    BY <1>1 DEF Held
  <1>3. Ledger({}, {}, {}, {}, 0, 0) /\ Exact({}, {}, 0, 0)
    BY NewLedger
  <1> QED BY <1>1, <1>2, <1>3 DEF LedgerInv, ExactInv

LEMMA FlushEndsLedger ==
    ASSUME BenchTypes, PhaseInv, LedgerInv, FlushEnds
    PROVE  LedgerInv' /\ (Awaited = {} /\ ExactInv => ExactInv')
  <1>1. /\ queued' = {} /\ ready' = {} /\ buffered' = {} /\ drained' = {}
        /\ todo' = {} /\ current' = {} /\ todo = {} /\ current = {}
        /\ counter' = counter /\ expected' = expected /\ seen' = seen
    BY DEF FlushEnds, NoWork, NoPool, books, PhaseInv
  <1>2. Held' = {} /\ {} \in SUBSET Held
    BY <1>1 DEF Held
  <1>3. Ledger({}, {}, seen, {}, counter, expected)
    BY <1>1, <1>2, LedgerTypes, HoldLess DEF LedgerInv
  <1>4. Awaited = {} /\ Exact(seen, Held, counter, expected) =>
           Exact(seen, {}, counter, expected)
    <2>1. Awaited = {} => Held \ seen = {} \ seen
      BY DEF Awaited
    <2> QED BY <1>2, <2>1, LedgerTypes, HoldLess DEF LedgerInv
  <1> QED BY <1>1, <1>2, <1>3, <1>4 DEF LedgerInv, ExactInv

LEMMA NextLedger ==
    ASSUME BenchTypes, PhaseInv, LedgerInv, [Next]_vars
    PROVE  /\ LedgerInv'
           /\ ExactInv /\ ~ LoseTask /\ (FlushEnds => Awaited = {}) => ExactInv'
  <1>1. CASE UNCHANGED vars
    <2>1. UNCHANGED <<todo, current, seen, counter, expected, queued, ready, buffered, drained>>
      BY <1>1 DEF vars, books, work, pool
    <2>2. Held' = Held
      BY <2>1 DEF Held
    <2> QED BY <2>1, <2>2, LedgerSame
  <1>2. CASE Crash \/ CutLine \/ SubmitRaises \/ FlushRaises
    BY <1>2, ForgetLedger DEF Crash, CutLine, SubmitRaises, FlushRaises
  <1>3. CASE Progress
    BY <1>2, <1>3, FilesLedger, GenerateLedger, RejectLedger, SubmitLedger, MovesLedger,
       RecordLedger, FlushEndsLedger DEF Progress
  <1> QED BY <1>1, <1>2, <1>3, StartLedger, VerifyLedger, LoseLedger, FilesLedger DEF Next

LEMMA NextPhase ==
    ASSUME BenchTypes, PhaseInv, [Next]_vars
    PROVE  PhaseInv'
  <1>1. CASE UNCHANGED vars
    BY <1>1 DEF PhaseInv, vars, work, pool
  <1>2. CASE Crash \/ CutLine \/ SubmitRaises \/ FlushRaises
    BY <1>2 DEF PhaseInv, Crash, CutLine, SubmitRaises, FlushRaises, Forget, NoWork, NoPool
  <1>3. CASE StartRun
    BY <1>3 DEF PhaseInv, StartRun, pool
  <1>4. CASE WriteSuccess \/ WriteProblem
    BY <1>4 DEF PhaseInv, WriteSuccess, WriteProblem, pool
  <1>5. CASE GenerateBatch \/ SubmitTask
    BY <1>5 DEF PhaseInv, GenerateBatch, SubmitTask, pool
  <1>6. CASE RejectGenerated
    BY <1>6 DEF PhaseInv, RejectGenerated, pool
  <1>7. CASE SubmitFull \/ DrainAfterBatch \/ BatchEnds
    BY <1>7 DEF PhaseInv, SubmitFull, QueueFull, DrainAfterBatch, BatchEnds, work, pool
  <1>8. CASE DrainWaiting \/ Stall \/ WaitEnds
    BY <1>8 DEF PhaseInv, DrainWaiting, Stall, WaitEnds, Waiting, work, pool
  <1>9. CASE RecordDrained
    BY <1>9 DEF PhaseInv, RecordDrained, pool
  <1>10. CASE FlushRow \/ FlushEnds
    BY <1>10 DEF PhaseInv, FlushRow, FlushEnds, work, pool, NoWork, NoPool
  <1>11. CASE Verify \/ LoseTask \/ PoolFails
    BY <1>11 DEF PhaseInv, Verify, LoseTask, PoolFails, work
  <1> QED BY <1>1, <1>2, <1>3, <1>4, <1>5, <1>6, <1>7, <1>8, <1>9, <1>10, <1>11
          DEF Next, Progress

LEMMA InitLedger ==
    ASSUME Init
    PROVE  PhaseInv /\ LedgerInv /\ ExactInv
  <1>1. PhaseInv
    BY DEF Init, PhaseInv
  <1>2. Held = {}
    BY DEF Init, Held
  <1>3. Ledger({}, {}, {}, {}, 0, 0) /\ Exact({}, {}, 0, 0)
    BY NewLedger
  <1> QED BY <1>1, <1>2, <1>3 DEF Init, LedgerInv, ExactInv

LEMMA TypesGiveTypeOK ==
    ASSUME BenchTypes, LedgerInv
    PROVE  TypeOK
  <1>1. counter \in 0 .. expected /\ expected \in 0 .. Cardinality(Keys)
    <2>1. PICK a \in Nat, b \in Nat, z \in Nat :
             /\ a = Cardinality(Held \ seen) /\ b = Cardinality(todo \cup current)
             /\ z = Cardinality(Keys)
      BY LedgerTypes, SubsetOfKeys, KeysFinite
    <2>2. counter + a <= expected /\ expected + b <= z
      BY <2>1 DEF LedgerInv, Ledger
    <2>3. counter \in Nat /\ expected \in Nat
      BY LedgerTypes
    <2> QED BY <2>1, <2>2, <2>3
  <1>2. BenchTypeOK
    BY DEF BenchTypes, BenchInv
  <1>3. {fatal, stalled} \subseteq BOOLEAN
    BY DEF BenchTypes, PoolTypes
  <1> QED BY <1>1, <1>2, <1>3 DEF BenchTypes, BenchTypeOK, FileTypes, BookTypes, WorkTypes,
          PoolTypes, Rows, TypeOK

\* Every number and every row has its type, and the books of a run are bounded by
\* its attempts: no more results are recorded than are expected, nor more expected
\* than there are attempts, whatever arrives twice, is lost or is cut off.
THEOREM BooksBounded == Spec => []TypeOK
  <1>1. Init => BenchTypes /\ PhaseInv /\ LedgerInv
    BY InitTypes, InitLedger
  <1>2. (BenchTypes /\ PhaseInv /\ LedgerInv) /\ [Next]_vars
           => (BenchTypes /\ PhaseInv /\ LedgerInv)'
    BY NextTypes, NextPhase, NextLedger
  <1>3. BenchTypes /\ PhaseInv /\ LedgerInv => TypeOK
    BY TypesGiveTypeOK
  <1> QED BY <1>1, <1>2, <1>3, PTL DEF Spec
-------------------------------------------------------------------------------
(* A pool that has kept up: no task was lost, it has not failed, and submit() *)
(* has drained no results, which run_pipeline would never see.               *)

PoolKeptUp == faults = 0 /\ buffered = {}

\* The results of a problem, each of another attempt, and all of them.
Unique(p, rs) ==
    \A r \in rs : r.key[1] = p /\ \A s \in rs : r.key = s.key => r = s
Whole(p, rs) ==
    /\ Unique(p, rs)
    /\ \A k \in {p} \X Attempts : \E r \in rs : r.key = k

RowProblems == {problemRows[i].problem : i \in DOMAIN problemRows}
RowsCurrent ==
    \A i \in DOMAIN problemRows :
        (\A j \in DOMAIN problemRows :
            j > i => problemRows[j].problem # problemRows[i].problem)
          => problemRows[i].results = results[problemRows[i].problem]

\* Nothing is lost, and nothing waits where nobody takes it.
KeepsUpInv == ~ fatal /\ buffered = {} /\ ExactInv

\* What a run knows of an attempt is where the attempt is: to be generated, to be
\* handed over or awaited, or among the results.
Covered ==
    pc # "down" => \A k \in Keys :
        k \in Left \cup Awaited <=> \A r \in results[k[1]] : r.key # k
WrittenWhole ==
    pc # "down" => /\ outcome = "none"
                   /\ written = RowProblems
                   /\ \A p \in written : Whole(p, results[p])
EndedWhole ==
    outcome # "none" => /\ RowProblems = Problems
                        /\ \A p \in Problems : Whole(p, results[p])
HistogramInv ==
    /\ \A p \in Problems : Unique(p, results[p])
    /\ \A i \in DOMAIN problemRows : Whole(problemRows[i].problem, problemRows[i].results)
    /\ Covered
    /\ stage = "problem" => Whole(latest[1], results[latest[1]])
    /\ pc = "flush" => Awaited = {}
    /\ WrittenWhole /\ EndedWhole
    /\ pc # "down" \/ outcome # "none" => RowsCurrent

\* IsComplete and IsCompleteRow count; a problem has no more results than attempts.
LEMMA WholeByCount ==
    ASSUME NEW p \in Problems, NEW rs \in SUBSET Results, Unique(p, rs)
    PROVE  /\ Cardinality(rs) \in Nat
           /\ Cardinality(rs) >= PassK <=> Whole(p, rs)
  <1> DEFINE ks == {p} \X Attempts
             f == [r \in rs |-> r.key]
  <1>1. IsFiniteSet(ks) /\ Cardinality(ks) = PassK
    <2>1. IsFiniteSet(Attempts) /\ Cardinality(Attempts) = PassK
      BY SizesAreNumbers, FS_Interval DEF Attempts
    <2>2. IsFiniteSet({p}) /\ Cardinality({p}) = 1
      BY FS_Singleton
    <2> QED BY <2>1, <2>2, FS_Product, SizesAreNumbers
  <1>2. \A r \in rs : r.key \in ks
    BY DEF Unique, Results, Keys
  <1>3. f \in Injection(rs, ks)
    <2>1. f \in [rs -> ks]
      BY <1>2
    <2>2. \A r, s \in rs : f[r] = f[s] => r = s
      BY DEF Unique
    <2> QED BY <2>1, <2>2 DEF Injection, IsInjective
  <1>4. f \in Surjection(rs, ks) <=> Whole(p, rs)
    <2>1. f \in [rs -> ks]
      BY <1>2
    <2>2. f \in Surjection(rs, ks) <=> \A k \in ks : \E r \in rs : f[r] = k
      BY <2>1 DEF Surjection
    <2>3. \A r \in rs : f[r] = r.key
      OBVIOUS
    <2> QED BY <2>2, <2>3 DEF Whole
  <1> HIDE DEF ks, f
  <1>5. /\ IsFiniteSet(rs) /\ Cardinality(rs) <= Cardinality(ks)
        /\ Cardinality(rs) = Cardinality(ks) <=> f \in Surjection(rs, ks)
    BY <1>1, <1>3, FS_Injection
  <1>6. Cardinality(rs) \in Nat
    BY <1>5, FS_CardinalityType
  <1>7. Cardinality(rs) >= PassK <=> Cardinality(rs) = PassK
    BY <1>1, <1>5, <1>6, SizesAreNumbers
  <1> QED BY <1>1, <1>4, <1>5, <1>6, <1>7

\* As long as the pool keeps up nothing is lost, and the final loop always ends.
LEMMA NextKeepsUp ==
    ASSUME PoolKeptUp, PoolKeptUp', BenchTypes, PhaseInv, LedgerInv, KeepsUpInv,
           pc = "flush" => Awaited = {}, [Next]_vars
    PROVE  KeepsUpInv' /\ ~ SubmitFull /\ ~ SubmitRaises /\ ~ Stall /\ ~ LoseTask /\ ~ PoolFails
  <1>1. ~ LoseTask /\ ~ PoolFails
    BY DEF PoolKeptUp, LoseTask, PoolFails
  <1>3. ~ SubmitFull /\ ~ SubmitRaises
    BY DEF PoolKeptUp, KeepsUpInv, SubmitFull, SubmitRaises
  <1>4. ~ Stall
    <2> SUFFICES ASSUME Stall PROVE FALSE
      OBVIOUS
    <2>1. Held = {} /\ counter < expected
      BY DEF Stall, Waiting, Overdue, Held, KeepsUpInv
    <2>2. Held \ seen = {}
      BY <2>1
    <2>3. Cardinality(Held \ seen) = 0
      BY <2>2, FS_EmptySet
    <2>4. counter + 0 = expected
      BY <2>3 DEF KeepsUpInv, ExactInv, Exact
    <2> QED BY <2>1, <2>4, LedgerTypes
  <1>5. ExactInv'
    BY <1>1, NextLedger DEF KeepsUpInv, FlushEnds
  <1>6. ~ fatal' /\ buffered' = {}
    <2>1. CASE UNCHANGED <<fatal, buffered>>
      BY <2>1 DEF KeepsUpInv
    <2>2. CASE Forget \/ NoPool
      BY <2>2 DEF Forget, NoPool
    <2>3. CASE StartRun \/ Verify \/ UNCHANGED vars
      BY <2>1, <2>3 DEF StartRun, Verify, vars, pool
    <2>4. CASE Progress
      <3>1. CASE WriteSuccess \/ WriteProblem \/ GenerateBatch \/ RejectGenerated \/ SubmitTask
        BY <2>1, <3>1 DEF WriteSuccess, WriteProblem, GenerateBatch, RejectGenerated,
                          SubmitTask, pool
      <3>2. CASE DrainAfterBatch \/ RecordDrained \/ BatchEnds \/ DrainWaiting
        BY <2>1, <3>2 DEF DrainAfterBatch, RecordDrained, BatchEnds, DrainWaiting, pool
      <3>3. CASE WaitEnds \/ FlushRow \/ FlushEnds \/ FlushRaises
        BY <2>1, <2>2, <3>3 DEF WaitEnds, FlushRow, FlushEnds, FlushRaises, pool
      <3> QED BY <1>3, <1>4, <2>4, <3>1, <3>2, <3>3 DEF Progress
    <2> QED BY <1>1, <2>2, <2>3, <2>4 DEF Next, Crash, CutLine
  <1> QED BY <1>1, <1>3, <1>4, <1>5, <1>6 DEF KeepsUpInv
\* A step of a run that leaves rows and results alone and moves no key.
LEMMA SameHistogram ==
    ASSUME BenchTypes, HistogramInv, pc # "down", pc' # "down",
           UNCHANGED <<problemRows, results, written, outcome, latest>>,
           Left' \cup Awaited' = Left \cup Awaited,
           stage' \in {stage, "none"},
           pc' = "flush" => Awaited' = {}
    PROVE  HistogramInv'
  <1>1. Covered'
    BY DEF HistogramInv, Covered
  <1>2. WrittenWhole' /\ EndedWhole'
    BY DEF HistogramInv, WrittenWhole, EndedWhole, RowProblems
  <1>3. RowsCurrent'
    BY DEF HistogramInv, RowsCurrent
  <1>5. stage' = "problem" => Whole(latest'[1], results'[latest'[1]])
    BY DEF HistogramInv
  <1>6. /\ \A p \in Problems : Unique(p, results'[p])
        /\ \A i \in DOMAIN problemRows' : Whole(problemRows'[i].problem, problemRows'[i].results)
    BY DEF HistogramInv
  <1> QED BY <1>1, <1>2, <1>3, <1>5, <1>6 DEF HistogramInv

LEMMA AwaitedOf ==
    ASSUME UNCHANGED seen, Held' = Held
    PROVE  Awaited' = Awaited
  BY DEF Awaited

LEMMA TurnHistogram ==
    ASSUME BenchTypes, PhaseInv, LedgerInv, HistogramInv,
           GenerateBatch \/ DrainAfterBatch \/ DrainWaiting \/ BatchEnds
    PROVE  HistogramInv'
  <1>1. /\ pc # "down" /\ pc' \in {pc, "generate", "submit", "drain", "wait"} /\ pc # "flush"
        /\ UNCHANGED <<problemRows, results, written, outcome, latest, stage, seen, queued>>
    BY DEF GenerateBatch, DrainAfterBatch, DrainWaiting, BatchEnds, Waiting, files, books,
           work, pool
  <1>2. ready' \cup buffered' \cup drained' = ready \cup buffered \cup drained
    BY DEF GenerateBatch, DrainAfterBatch, DrainWaiting, BatchEnds, Waiting, PhaseInv, work, pool
  <1>3. Held' = Held
    BY <1>1, <1>2 DEF Held
  <1>4. Left' = Left
    <2>1. CASE GenerateBatch
      BY <2>1 DEF GenerateBatch, PhaseInv, Left
    <2>2. CASE DrainAfterBatch \/ DrainWaiting \/ BatchEnds
      BY <2>2 DEF DrainAfterBatch, DrainWaiting, BatchEnds, work, Left
    <2> QED BY <2>1, <2>2
  <1> QED BY <1>1, <1>3, <1>4, AwaitedOf, SameHistogram

LEMMA SubmitHistogram ==
    ASSUME BenchTypes, PhaseInv, LedgerInv, HistogramInv, SubmitTask
    PROVE  HistogramInv'
  <1>1. PICK k \in current : queued' = queued \cup {k} /\ current' = current \ {k}
    BY DEF SubmitTask, IsNext
  <1>2. /\ pc = "submit" /\ pc' = pc
        /\ UNCHANGED <<problemRows, results, written, outcome, latest, stage, seen, todo,
                       ready, buffered, drained>>
    BY DEF SubmitTask, files
  <1>3. k \notin seen /\ k \notin todo
    BY <1>1 DEF LedgerInv, Ledger
  <1>4. Held' = Held \cup {k}
    BY <1>1, <1>2 DEF Held
  <1>5. Left' \cup Awaited' = Left \cup Awaited
    BY <1>1, <1>2, <1>3, <1>4 DEF Left, Awaited
  <1> QED BY <1>2, <1>5, SameHistogram

LEMMA VerifyHistogram ==
    ASSUME BenchTypes, PhaseInv, LedgerInv, HistogramInv, Verify
    PROVE  HistogramInv'
  <1>1. PICK k \in queued, ok \in BOOLEAN :
           /\ ready' = ready \cup {[key |-> k, ok |-> ok]}
           /\ (queued' = queued \ {k} \/ queued' = queued)
    BY DEF Verify
  <1>2. /\ pc # "down"
        /\ UNCHANGED <<problemRows, results, written, outcome, latest, stage, seen, todo,
                       current, buffered, drained, pc>>
    BY <1>1 DEF Verify, PhaseInv, files, books, work
  <1> DEFINE old == ready \cup buffered \cup drained
             new == [key |-> k, ok |-> ok]
  <1>3. Held' = Held
    <2>1. Held' = queued' \cup {r.key : r \in old \cup {new}}
      <3>1. ready' \cup buffered' \cup drained' = old \cup {new}
        BY <1>1, <1>2
      <3> QED BY <3>1 DEF Held
    <2>2. new.key = k
      OBVIOUS
    <2> HIDE DEF new, old
    <2>3. {r.key : r \in old \cup {new}} = {r.key : r \in old} \cup {k}
      BY <2>2
    <2>4. queued' \cup {k} = queued
      BY <1>1
    <2> QED BY <2>1, <2>3, <2>4 DEF Held, old
  <1>4. Left' = Left
    BY <1>2 DEF Left
  <1>5. Awaited' = Awaited
    BY <1>2, <1>3, AwaitedOf
  <1>6. pc = "flush" => Awaited' = {}
    BY <1>5 DEF HistogramInv
  <1> QED BY <1>2, <1>4, <1>5, <1>6, SameHistogram

\* A result that is recorded makes the results of its problem whole, or not; a
\* problem that has its row was whole before.
LEMMA RecordHistogram ==
    ASSUME BenchTypes, HistogramInv, pc # "down", pc' = pc, pc # "flush",
           NEW r \in Results, r.key \notin seen, RecordResult(r),
           r.key \in Left \cup Awaited,
           Left' \cup Awaited' = (Left \cup Awaited) \ {r.key},
           UNCHANGED <<problemRows, written, outcome>>
    PROVE  HistogramInv'
  <1> DEFINE p == r.key[1]
  <1>0. r.key \in Keys /\ p \in Problems /\ p = r.key[1] /\ r.key[2] \in Attempts
    BY DEF Results, Keys
  <1> HIDE DEF p
  <1>1. Record(r)
    BY DEF RecordResult, IsNew
  <1>2. results \in [Problems -> SUBSET Results]
    BY DEF BenchTypes, BookTypes
  <1>3. /\ results' = [results EXCEPT ![p] = @ \cup {r}]
        /\ latest' = r.key
        /\ stage' = IF r.ok THEN "success" ELSE AfterSuccess(p, results'[p])
    BY <1>1 DEF Record, p
  <1>4. results'[p] = results[p] \cup {r} /\ \A q \in Problems : q # p => results'[q] = results[q]
    BY <1>0, <1>2, <1>3
  <1>5. \A s \in results[p] : s.key # r.key
    BY <1>0 DEF HistogramInv, Covered
  <1>6. p \notin written
    <2> SUFFICES ASSUME p \in written PROVE FALSE
      OBVIOUS
    <2>1. Whole(p, results[p])
      BY DEF HistogramInv, WrittenWhole
    <2>2. r.key \in {p} \X Attempts
      BY <1>0 DEF Keys
    <2> QED BY <1>5, <2>1, <2>2 DEF Whole
  <1>7. \A q \in Problems : Unique(q, results'[q])
    <2>1. Unique(p, results[p] \cup {r})
      <3>1. Unique(p, results[p])
        BY <1>0 DEF HistogramInv
      <3> QED BY <1>0, <1>5, <3>1 DEF Unique
    <2> QED BY <1>4, <2>1 DEF HistogramInv
  <1>8. Covered'
    <2> SUFFICES ASSUME NEW k \in Keys
                 PROVE  k \in (Left \cup Awaited) \ {r.key}
                          <=> \A s \in results'[k[1]] : s.key # k
      BY DEF Covered
    <2>1. k \in Left \cup Awaited <=> \A s \in results[k[1]] : s.key # k
      BY DEF HistogramInv, Covered
    <2>2. CASE k[1] = p
      BY <1>4, <1>5, <2>1, <2>2
    <2>3. CASE k[1] # p
      <3>1. k[1] \in Problems /\ k # r.key
        BY <1>0, <2>3 DEF Keys
      <3> QED BY <1>4, <2>1, <2>3, <3>1
    <2> QED BY <2>2, <2>3
  <1>9. stage' = "problem" => Whole(latest'[1], results'[latest'[1]])
    <2> SUFFICES ASSUME stage' = "problem" PROVE Whole(p, results'[p])
      BY <1>0, <1>3
    <2>1. Cardinality(results'[p]) >= PassK
      BY <1>3 DEF AfterSuccess, IsComplete
    <2>2. results'[p] \in SUBSET Results
      BY <1>0, <1>2, <1>4
    <2> QED BY <1>0, <1>7, <2>1, <2>2, WholeByCount
  <1>10. RowProblems' = RowProblems /\ RowProblems = written /\ written \subseteq Problems
    BY DEF HistogramInv, WrittenWhole, RowProblems, BenchTypes, BookTypes
  <1>11. \A q \in written : results'[q] = results[q]
    BY <1>4, <1>6, <1>10
  <1>12. WrittenWhole' /\ EndedWhole'
    <2>1. outcome' = "none"
      BY DEF HistogramInv, WrittenWhole
    <2>2. \A q \in written' : Whole(q, results'[q])
      BY <1>11 DEF HistogramInv, WrittenWhole
    <2> QED BY <1>10, <2>1, <2>2 DEF WrittenWhole, EndedWhole
  <1>13. RowsCurrent'
    <2>1. \A i \in DOMAIN problemRows : problemRows[i].problem \in written
      BY <1>10 DEF RowProblems
    <2> QED BY <1>11, <2>1 DEF HistogramInv, RowsCurrent
  <1>14. \A i \in DOMAIN problemRows' : Whole(problemRows'[i].problem, problemRows'[i].results)
    BY DEF HistogramInv
  <1> QED BY <1>7, <1>8, <1>9, <1>12, <1>13, <1>14 DEF HistogramInv

LEMMA RejectHistogram ==
    ASSUME BenchTypes, PhaseInv, LedgerInv, HistogramInv, RejectGenerated
    PROVE  HistogramInv'
  <1>1. PICK k \in current : RecordResult([key |-> k, ok |-> FALSE]) /\ current' = current \ {k}
    BY DEF RejectGenerated, IsNext
  <1> DEFINE r == [key |-> k, ok |-> FALSE]
  <1>2. /\ pc = "submit" /\ pc' = pc
        /\ UNCHANGED <<problemRows, written, outcome, todo, queued, ready, buffered, drained>>
    BY DEF RejectGenerated, pool
  <1>3. k \in Keys /\ k \notin seen /\ k \notin todo /\ k \notin Held
    BY <1>1, LedgerTypes DEF LedgerInv, Ledger
  <1>4. r \in Results /\ r.key = k
    BY <1>3 DEF Results
  <1> HIDE DEF r
  <1>5. RecordResult(r)
    BY <1>1 DEF r
  <1>6. seen' = seen \cup {k}
    BY <1>3, <1>4, <1>5 DEF RecordResult, IsNew, Record
  <1>7. Held' = Held
    BY <1>2 DEF Held
  <1>8. Left' \cup Awaited' = (Left \cup Awaited) \ {k}
    BY <1>1, <1>2, <1>3, <1>6, <1>7 DEF Left, Awaited
  <1>9. k \in Left
    BY <1>1 DEF Left
  <1> QED BY <1>2, <1>3, <1>4, <1>5, <1>8, <1>9, RecordHistogram

LEMMA DrainedHistogram ==
    ASSUME BenchTypes, PhaseInv, LedgerInv, HistogramInv, RecordDrained
    PROVE  HistogramInv'
  <1>1. PICK r \in drained : RecordResult(r) /\ drained' = drained \ {r}
    BY DEF RecordDrained
  <1>2. /\ pc \in {"drain", "wait"} /\ pc' = pc
        /\ UNCHANGED <<problemRows, written, outcome, todo, current, queued, ready, buffered>>
    BY DEF RecordDrained, pool
  <1>3. r \in Results /\ r.key \in Held
    BY <1>1 DEF Held, BenchTypes, BenchInv, BenchTypeOK
  <1>4. Held' \subseteq Held /\ Held \ {r.key} \subseteq Held'
    BY <1>1, <1>2 DEF Held
  <1>5. Left' = Left
    BY <1>2 DEF Left
  <1>6. CASE r.key \notin seen
    <2>1. seen' = seen \cup {r.key}
      BY <1>1, <1>6 DEF RecordResult, IsNew, Record
    <2>2. r.key \notin Left
      BY <1>3 DEF Left, LedgerInv, Ledger
    <2>3. Left' \cup Awaited' = (Left \cup Awaited) \ {r.key}
      BY <1>4, <1>5, <2>1, <2>2 DEF Awaited
    <2>4. r.key \in Awaited
      BY <1>3, <1>6 DEF Awaited
    <2> QED BY <1>1, <1>2, <1>3, <1>6, <2>3, <2>4, RecordHistogram
  <1>7. CASE r.key \in seen
    <2>1. UNCHANGED <<seen, results, latest, stage>>
      BY <1>1, <1>7 DEF RecordResult, IsNew, Record
    <2>2. Awaited' = Awaited
      BY <1>4, <1>7, <2>1 DEF Awaited
    <2> QED BY <1>2, <1>5, <2>1, <2>2, SameHistogram
  <1> QED BY <1>6, <1>7
\* A row that is written is that of a problem with all its attempts.
LEMMA RowHistogram ==
    ASSUME BenchTypes, HistogramInv, NEW p \in Problems, AppendRow(p),
           pc # "down", pc' = pc, Whole(p, results[p]), stage' \in {stage, "none"},
           UNCHANGED <<results, outcome, latest>>,
           Left' \cup Awaited' = Left \cup Awaited, pc = "flush" => Awaited' = {}
    PROVE  HistogramInv'
  <1>0. problemRows \in Seq(Rows) /\ written \subseteq Problems
    BY DEF BenchTypes, FileTypes, BookTypes
  <1> DEFINE row == [problem |-> p, results |-> results[p]]
             n == Len(problemRows)
  <1>1. problemRows' = Append(problemRows, row) /\ written' = written \cup {p}
    BY DEF AppendRow
  <1>2. row.problem = p /\ row.results = results[p] /\ n \in Nat /\ DOMAIN problemRows = 1 .. n
    BY <1>0
  <1>3. /\ DOMAIN problemRows' = 1 .. n + 1 /\ problemRows'[n + 1] = row
        /\ \A i \in 1 .. n : problemRows'[i] = problemRows[i]
    BY <1>0, <1>1
  <1> HIDE DEF row, n
  <1>4. \A i \in DOMAIN problemRows' : Whole(problemRows'[i].problem, problemRows'[i].results)
    <2> SUFFICES ASSUME NEW i \in 1 .. n + 1
                 PROVE  Whole(problemRows'[i].problem, problemRows'[i].results)
      BY <1>3
    <2>1. CASE i \in 1 .. n
      BY <1>2, <1>3, <2>1 DEF HistogramInv
    <2>2. CASE i = n + 1
      BY <1>2, <1>3, <2>2
    <2> QED BY <1>2, <2>1, <2>2
  <1>5. RowProblems' = RowProblems \cup {p}
    <2>1. \A x : x \in RowProblems' <=> \E i \in 1 .. n + 1 : problemRows'[i].problem = x
      BY <1>3 DEF RowProblems
    <2>2. \A x : x \in RowProblems <=> \E i \in 1 .. n : problemRows[i].problem = x
      BY <1>2 DEF RowProblems
    <2>3. \A i \in 1 .. n + 1 : i \in 1 .. n \/ i = n + 1
      BY <1>2
    <2>4. 1 .. n \subseteq 1 .. n + 1 /\ n + 1 \in 1 .. n + 1
      BY <1>2
    <2> QED BY <1>2, <1>3, <2>1, <2>2, <2>3, <2>4
  <1>6. WrittenWhole' /\ EndedWhole'
    <2>1. outcome' = "none"
      BY DEF HistogramInv, WrittenWhole
    <2>2. written' = RowProblems'
      BY <1>1, <1>5 DEF HistogramInv, WrittenWhole
    <2>3. \A q \in written' : Whole(q, results'[q])
      BY <1>1 DEF HistogramInv, WrittenWhole
    <2> QED BY <2>1, <2>2, <2>3 DEF WrittenWhole, EndedWhole
  <1>7. RowsCurrent'
    <2> SUFFICES ASSUME NEW i \in 1 .. n + 1,
                        \A j \in 1 .. n + 1 : j > i => problemRows'[j].problem # problemRows'[i].problem
                 PROVE  problemRows'[i].results = results[problemRows'[i].problem]
      BY <1>3 DEF RowsCurrent
    <2>1. CASE i = n + 1
      BY <1>2, <1>3, <2>1
    <2>2. CASE i \in 1 .. n
      <3>1. \A j \in 1 .. n : j \in 1 .. n + 1
        BY <1>2
      <3>2. \A j \in 1 .. n : j > i => problemRows[j].problem # problemRows[i].problem
        BY <1>3, <2>2, <3>1
      <3>3. RowsCurrent
        BY DEF HistogramInv
      <3> QED BY <1>2, <1>3, <2>2, <3>2, <3>3 DEF RowsCurrent
    <2> QED BY <1>2, <2>1, <2>2
  <1>8. Covered'
    BY DEF HistogramInv, Covered
  <1>9. stage' = "problem" => Whole(latest'[1], results'[latest'[1]])
    BY DEF HistogramInv
  <1> QED BY <1>4, <1>6, <1>7, <1>8, <1>9 DEF HistogramInv

\* At the end nothing is missing.
LEMMA FlushIsWhole ==
    ASSUME BenchTypes, PhaseInv, HistogramInv, pc = "flush", NEW p \in Problems
    PROVE  Whole(p, results[p])
  <1>1. Left = {} /\ Awaited = {}
    BY DEF PhaseInv, HistogramInv, Left
  <1>2. \A k \in {p} \X Attempts : \E r \in results[p] : r.key = k
    BY <1>1 DEF HistogramInv, Covered, Keys
  <1> QED BY <1>2 DEF Whole, HistogramInv

LEMMA FilesHistogram ==
    ASSUME BenchTypes, PhaseInv, LedgerInv, KeepsUpInv, HistogramInv,
           WriteSuccess \/ WriteProblem \/ WaitEnds \/ FlushRow
    PROVE  HistogramInv'
  <1>0. latest[1] \in Problems
    BY DEF BenchTypes, WorkTypes, Keys
  <1>1. UNCHANGED <<results, outcome, latest, seen, todo, current, queued, ready, buffered, drained>>
    BY DEF WriteSuccess, WriteProblem, WaitEnds, FlushRow, books, work, pool
  <1>2. Held' = Held /\ Left' = Left
    BY <1>1 DEF Held, Left
  <1>3. Awaited' = Awaited
    BY <1>1, <1>2, AwaitedOf
  <1>4. CASE WriteProblem
    <2>1. pc # "down" /\ pc' = pc /\ stage = "problem" /\ AppendRow(latest[1]) /\ stage' = "none"
      BY <1>4 DEF WriteProblem, PhaseInv
    <2>2. Whole(latest[1], results[latest[1]])
      BY <2>1 DEF HistogramInv
    <2>3. pc = "flush" => Awaited' = {}
      BY <1>3 DEF HistogramInv
    <2> QED BY <1>0, <1>1, <1>2, <1>3, <2>1, <2>2, <2>3, RowHistogram
  <1>5. CASE FlushRow
    <2>1. PICK p \in Problems : AppendRow(p)
      BY <1>5 DEF FlushRow
    <2>2. pc = "flush" /\ pc' = pc /\ stage' = stage
      BY <1>5 DEF FlushRow, work
    <2>3. pc = "flush" => Awaited' = {}
      BY <1>3 DEF HistogramInv
    <2> QED BY <1>1, <1>2, <1>3, <2>1, <2>2, <2>3, FlushIsWhole, RowHistogram
  <1>6. CASE WaitEnds
    <2>1. /\ pc = "wait" /\ pc' = "flush" /\ counter >= expected /\ stage' = stage
          /\ written' = written \cup RowProblems /\ UNCHANGED problemRows
      BY <1>6 DEF WaitEnds, Waiting, KeepsUpInv, RowProblems, work, files
    <2>2. written' = written
      BY <2>1 DEF HistogramInv, WrittenWhole
    <2>3. Awaited = {}
      <3>1. IsFiniteSet(Held \ seen) /\ Cardinality(Held \ seen) \in Nat
        BY LedgerTypes, SubsetOfKeys
      <3>2. counter + Cardinality(Held \ seen) = expected
        BY DEF KeepsUpInv, ExactInv, Exact
      <3>3. Cardinality(Held \ seen) = 0
        BY <2>1, <3>1, <3>2, LedgerTypes
      <3> QED BY <3>1, <3>3, FS_EmptySet DEF Awaited
    <2> QED BY <1>1, <1>2, <1>3, <2>1, <2>2, <2>3, SameHistogram
  <1>7. CASE WriteSuccess
    <2>1. /\ pc # "down" /\ pc' = pc /\ stage' = AfterSuccess(latest[1], results[latest[1]])
          /\ UNCHANGED <<problemRows, written>>
      BY <1>7 DEF WriteSuccess, PhaseInv, books
    <2>2. stage' = "problem" => Whole(latest[1], results[latest[1]])
      <3> SUFFICES ASSUME stage' = "problem" PROVE Whole(latest[1], results[latest[1]])
        OBVIOUS
      <3>1. Cardinality(results[latest[1]]) >= PassK
        BY <2>1 DEF AfterSuccess, IsComplete
      <3>2. results[latest[1]] \in SUBSET Results /\ Unique(latest[1], results[latest[1]])
        BY <1>0 DEF BenchTypes, BookTypes, HistogramInv
      <3> QED BY <1>0, <3>1, <3>2, WholeByCount
    <2>3. Covered'
      BY <1>1, <1>2, <1>3, <2>1 DEF HistogramInv, Covered
    <2>4. WrittenWhole' /\ EndedWhole' /\ RowsCurrent'
      <3>1. RowsCurrent
        BY <2>1 DEF HistogramInv
      <3> QED BY <1>1, <2>1, <3>1 DEF HistogramInv, WrittenWhole, EndedWhole, RowProblems, RowsCurrent
    <2>5. /\ \A p \in Problems : Unique(p, results'[p])
          /\ \A i \in DOMAIN problemRows' : Whole(problemRows'[i].problem, problemRows'[i].results)
          /\ pc' = "flush" => Awaited' = {}
      BY <1>1, <1>3, <2>1 DEF HistogramInv
    <2>6. stage' = "problem" => Whole(latest'[1], results'[latest'[1]])
      BY <1>1, <2>2
    <2> QED BY <2>3, <2>4, <2>5, <2>6 DEF HistogramInv
  <1> QED BY <1>4, <1>5, <1>6, <1>7
LEMMA EndHistogram ==
    ASSUME BenchTypes, PhaseInv, KeepsUpInv, HistogramInv, FlushEnds
    PROVE  HistogramInv'
  <1>1. /\ pc = "flush" /\ pc' = "down" /\ written = Problems /\ stage' = "none"
        /\ UNCHANGED <<problemRows, results>>
    BY DEF FlushEnds, NoWork, books
  <1>2. EndedWhole'
    <2>1. RowProblems' = Problems
      BY <1>1 DEF HistogramInv, WrittenWhole, RowProblems
    <2>2. \A p \in Problems : Whole(p, results'[p])
      BY <1>1 DEF HistogramInv, WrittenWhole
    <2> QED BY <2>1, <2>2 DEF EndedWhole
  <1>3. Covered' /\ WrittenWhole'
    BY <1>1 DEF Covered, WrittenWhole
  <1>4. RowsCurrent'
    BY <1>1 DEF HistogramInv, RowsCurrent
  <1>5. /\ \A p \in Problems : Unique(p, results'[p])
        /\ \A i \in DOMAIN problemRows' : Whole(problemRows'[i].problem, problemRows'[i].results)
    BY <1>1 DEF HistogramInv
  <1> QED BY <1>1, <1>2, <1>3, <1>4, <1>5 DEF HistogramInv

LEMMA ForgetHistogram ==
    ASSUME Forget,
           \A i \in DOMAIN problemRows' : Whole(problemRows'[i].problem, problemRows'[i].results)
    PROVE  HistogramInv'
  <1>1. /\ pc' = "down" /\ outcome' = "none" /\ stage' = "none"
        /\ results' = [p \in Problems |-> {}]
    BY DEF Forget, NoWork
  <1>2. \A p \in Problems : Unique(p, results'[p])
    BY <1>1 DEF Unique
  <1>3. Covered' /\ WrittenWhole' /\ EndedWhole'
    BY <1>1 DEF Covered, WrittenWhole, EndedWhole
  <1> QED BY <1>1, <1>2, <1>3 DEF HistogramInv

\* A row that is cut off is not read back; one that is written whole is whole.
LEMMA CutHistogram ==
    ASSUME BenchTypes, PhaseInv, HistogramInv, CutLine
    PROVE  HistogramInv'
  <1>0. problemRows \in Seq(Rows) /\ latest[1] \in Problems
    BY DEF BenchTypes, FileTypes, WorkTypes, Keys
  <1>1. Forget
    BY DEF CutLine
  <1>2. CASE UNCHANGED problemRows
    BY <1>1, <1>2, ForgetHistogram DEF HistogramInv
  <1>3. CASE ~ UNCHANGED problemRows
    <2>1. PICK p \in Problems :
             /\ \/ stage = "problem" /\ p = latest[1]
                \/ pc = "flush" /\ p \notin written
             /\ problemRows' = Append(problemRows, [problem |-> p, results |-> results[p]])
      BY <1>3 DEF CutLine
    <2>2. Whole(p, results[p])
      BY <2>1, FlushIsWhole DEF HistogramInv
    <2> DEFINE row == [problem |-> p, results |-> results[p]]
               n == Len(problemRows)
    <2>3. row.problem = p /\ row.results = results[p] /\ n \in Nat /\ DOMAIN problemRows = 1 .. n
      BY <1>0
    <2>4. /\ DOMAIN problemRows' = 1 .. n + 1 /\ problemRows'[n + 1] = row
          /\ \A i \in 1 .. n : problemRows'[i] = problemRows[i]
      BY <1>0, <2>1
    <2> HIDE DEF row, n
    <2>5. ASSUME NEW i \in 1 .. n + 1
          PROVE  Whole(problemRows'[i].problem, problemRows'[i].results)
      <3>1. CASE i \in 1 .. n
        BY <2>3, <2>4, <3>1 DEF HistogramInv
      <3>2. CASE i = n + 1
        BY <2>2, <2>3, <2>4, <3>2
      <3> QED BY <2>3, <3>1, <3>2
    <2> QED BY <1>1, <2>4, <2>5, ForgetHistogram
  <1> QED BY <1>2, <1>3

LEMMA RowsAreComplete ==
    ASSUME BenchTypes, HistogramInv
    PROVE  CompletedIds = RowProblems
  <1>1. \A i \in DOMAIN problemRows : problemRows[i] \in Rows
    BY DEF BenchTypes, FileTypes
  <1>2. \A i \in DOMAIN problemRows : IsCompleteRow(problemRows[i])
    BY <1>1, WholeByCount DEF HistogramInv, Whole, Rows, IsCompleteRow
  <1>3. \A i \in DOMAIN problemRows : problemRows[i].problem \in Problems
    BY <1>1 DEF Rows
  <1> QED BY <1>2, <1>3 DEF CompletedIds, RowProblems

\* A run starts with what the files say: the last row of a problem that has one,
\* the attempts of the others.
LEMMA StartHistogram ==
    ASSUME BenchTypes, PhaseInv, HistogramInv, StartRun
    PROVE  HistogramInv'
  <1>0. problemRows \in Seq(Rows)
    BY DEF BenchTypes, FileTypes
  <1>1. /\ queued' = {} /\ ready' = {} /\ buffered' = {} /\ drained' = {} /\ current' = {}
        /\ results' = [p \in Problems |-> Restored(p)] /\ written' = CompletedIds
        /\ stage' = "none" /\ UNCHANGED problemRows
        /\ \/ /\ pc' = "generate" /\ outcome' = "none"
              /\ todo' = UNION {Missing(p) : p \in Problems}
           \/ pc' = "down" /\ CompletedIds = Problems
    BY DEF StartRun, PhaseInv, pool
  <1>2. CompletedIds = RowProblems
    BY RowsAreComplete
  <1>3. ASSUME NEW p \in RowProblems
        PROVE  /\ Whole(p, Restored(p))
               /\ \E i \in DOMAIN problemRows :
                     /\ Restored(p) = problemRows[i].results /\ problemRows[i].problem = p
                     /\ \A j \in DOMAIN problemRows : problemRows[j].problem = p => j <= i
    <2>1. PICK i \in DOMAIN problemRows :
              /\ CompletedRow(p) = problemRows[i]
              /\ problemRows[i].problem = p
              /\ \A j \in DOMAIN problemRows :
                    problemRows[j].problem = p /\ IsCompleteRow(problemRows[j]) => j <= i
      BY <1>0, <1>2, CompletedRowIs
    <2>2. Restored(p) = problemRows[i].results
      BY <1>2, <2>1 DEF Restored
    <2>3. \A j \in DOMAIN problemRows : IsCompleteRow(problemRows[j])
      <3>1. \A j \in DOMAIN problemRows : problemRows[j] \in Rows
        BY <1>0
      <3> QED BY <3>1, WholeByCount DEF HistogramInv, Whole, Rows, IsCompleteRow
    <2> QED BY <2>1, <2>2, <2>3 DEF HistogramInv
  <1>4. ASSUME NEW p \in Problems \ RowProblems
        PROVE  Restored(p) = Existing(p) /\ Unique(p, Restored(p))
    <2>1. Restored(p) = Existing(p)
      BY <1>2 DEF Restored
    <2>2. \A r, s \in Range(attempts) : r.key = s.key => r = s
      BY DEF Range, BenchTypes, BenchInv, AttemptsUnique
    <2> QED BY <2>1, <2>2 DEF Existing, Unique
  <1>5. \A p \in Problems : Unique(p, results'[p])
    BY <1>1, <1>3, <1>4 DEF Whole
  <1>6. RowProblems' = RowProblems /\ RowProblems \subseteq Problems
    BY <1>1, <1>2 DEF RowProblems, CompletedIds
  <1>7. \A p \in RowProblems : Whole(p, results'[p])
    BY <1>1, <1>3, <1>6
  <1>8. RowsCurrent'
    <2> SUFFICES ASSUME NEW i \in DOMAIN problemRows,
                        \A j \in DOMAIN problemRows :
                           j > i => problemRows[j].problem # problemRows[i].problem
                 PROVE  problemRows[i].results = results'[problemRows[i].problem]
      BY <1>1 DEF RowsCurrent
    <2> DEFINE p == problemRows[i].problem
    <2>1. p \in RowProblems
      BY DEF RowProblems
    <2>2. PICK l \in DOMAIN problemRows :
             /\ Restored(p) = problemRows[l].results /\ problemRows[l].problem = p
             /\ \A j \in DOMAIN problemRows : problemRows[j].problem = p => j <= l
      BY <1>3, <2>1
    <2>3. i \in Nat /\ l \in Nat /\ i <= l /\ ~ (l > i)
      BY <1>0, <2>2
    <2>4. l = i
      BY <2>3
    <2> QED BY <1>1, <1>6, <2>1, <2>2, <2>4
  <1>9. Covered'
    <2> SUFFICES ASSUME pc' = "generate", NEW k \in Keys
                 PROVE  k \in Left' \cup Awaited' <=> \A r \in results'[k[1]] : r.key # k
      BY <1>1 DEF Covered
    <2>1. Left' = UNION {Missing(p) : p \in Problems} /\ Awaited' = {}
      BY <1>1 DEF Left, Awaited, Held
    <2>2. k[1] \in Problems /\ k \in {k[1]} \X Attempts
      BY DEF Keys
    <2>3. k \in Left' <=> k \in Missing(k[1])
      BY <2>1, <2>2 DEF Missing
    <2>4. CASE k[1] \in RowProblems
      <3>1. k \notin Missing(k[1])
        BY <1>2, <2>4 DEF Missing
      <3>2. \E r \in results'[k[1]] : r.key = k
        BY <1>7, <2>2, <2>4 DEF Whole
      <3> QED BY <2>1, <2>3, <3>1, <3>2
    <2>5. CASE k[1] \notin RowProblems
      <3>1. results'[k[1]] = Existing(k[1])
        BY <1>1, <1>4, <2>2, <2>5
      <3>2. k \in Missing(k[1]) <=> ~ \E r \in Existing(k[1]) : r.key = k
        BY <1>2, <2>2, <2>5 DEF Missing
      <3> QED BY <2>1, <2>3, <3>1, <3>2
    <2> QED BY <2>4, <2>5
  <1>10. WrittenWhole'
    BY <1>1, <1>2, <1>6, <1>7 DEF WrittenWhole
  <1>11. EndedWhole'
    <2>1. outcome' # "none" => CompletedIds = Problems
      BY <1>1
    <2> QED BY <1>2, <1>6, <1>7, <2>1 DEF EndedWhole
  <1>12. \A i \in DOMAIN problemRows' : Whole(problemRows'[i].problem, problemRows'[i].results)
    BY <1>1 DEF HistogramInv
  <1>13. pc' # "flush" /\ stage' # "problem"
    BY <1>1
  <1> QED BY <1>5, <1>8, <1>9, <1>10, <1>11, <1>12, <1>13 DEF HistogramInv

LEMMA NextHistogram ==
    ASSUME PoolKeptUp, PoolKeptUp', BenchTypes, PhaseInv, LedgerInv, KeepsUpInv, HistogramInv,
           [Next]_vars
    PROVE  KeepsUpInv' /\ HistogramInv'
  <1>0. pc = "flush" => Awaited = {}
    BY DEF HistogramInv
  <1>1. KeepsUpInv' /\ ~ SubmitFull /\ ~ SubmitRaises /\ ~ Stall /\ ~ LoseTask /\ ~ PoolFails
    BY <1>0, NextKeepsUp
  <1>2. CASE UNCHANGED vars
    <2>1. UNCHANGED <<pc, problemRows, results, written, outcome, latest, stage, seen, todo,
                      current, queued, ready, buffered, drained>>
      BY <1>2 DEF vars, files, books, work, pool
    <2>2. Held' = Held /\ Left' = Left
      BY <2>1 DEF Held, Left
    <2>3. Awaited' = Awaited
      BY <2>1, <2>2, AwaitedOf
    <2>4. Covered' /\ WrittenWhole' /\ EndedWhole'
      BY <2>1, <2>2, <2>3 DEF HistogramInv, Covered, WrittenWhole, EndedWhole, RowProblems
    <2>5. pc # "down" \/ outcome # "none" => RowsCurrent'
      BY <2>1 DEF HistogramInv, RowsCurrent
    <2>6. /\ \A p \in Problems : Unique(p, results'[p])
          /\ \A i \in DOMAIN problemRows' : Whole(problemRows'[i].problem, problemRows'[i].results)
          /\ stage' = "problem" => Whole(latest'[1], results'[latest'[1]])
          /\ pc' = "flush" => Awaited' = {}
      BY <2>1, <2>3 DEF HistogramInv
    <2> QED BY <1>1, <2>1, <2>4, <2>5, <2>6 DEF HistogramInv
  <1>3. CASE Crash \/ FlushRaises
    <2>1. Forget /\ UNCHANGED problemRows
      BY <1>3 DEF Crash, FlushRaises, files
    <2>2. \A i \in DOMAIN problemRows' : Whole(problemRows'[i].problem, problemRows'[i].results)
      BY <2>1 DEF HistogramInv
    <2> QED BY <1>1, <2>1, <2>2, ForgetHistogram
  <1>4. CASE Progress
    BY <1>1, <1>3, <1>4, FilesHistogram, TurnHistogram, SubmitHistogram, RejectHistogram,
       DrainedHistogram, EndHistogram DEF Progress
  <1> QED BY <1>1, <1>2, <1>3, <1>4, CutHistogram, StartHistogram, VerifyHistogram DEF Next

LEMMA InitHistogram ==
    ASSUME Init
    PROVE  KeepsUpInv /\ HistogramInv
  <1>1. KeepsUpInv
    BY InitLedger DEF Init, KeepsUpInv
  <1>2. Covered /\ WrittenWhole /\ EndedWhole
    BY DEF Init, Covered, WrittenWhole, EndedWhole
  <1>3. \A p \in Problems : Unique(p, results[p])
    BY DEF Init, Unique
  <1> QED BY <1>1, <1>2, <1>3 DEF Init, HistogramInv

BookInv == BenchTypes /\ PhaseInv /\ LedgerInv
CompleteInv == BookInv /\ KeepsUpInv /\ HistogramInv

LEMMA CompleteIsInvariant ==
    /\ Init => CompleteInv
    /\ CompleteInv /\ PoolKeptUp /\ PoolKeptUp' /\ [Next]_vars => CompleteInv'
  <1>1. Init => CompleteInv
    BY InitTypes, InitLedger, InitHistogram DEF CompleteInv, BookInv
  <1>2. CompleteInv /\ PoolKeptUp /\ PoolKeptUp' /\ [Next]_vars => CompleteInv'
    BY NextTypes, NextPhase, NextLedger, NextHistogram DEF CompleteInv, BookInv
  <1> QED BY <1>1, <1>2

\* A completed run reports every attempt of every problem.
WholeHistogram == outcome = "complete" => \A p \in Problems : AllAttempts(p)

\* As long as the pool keeps up, a run that reports no fatal error reports every
\* attempt of every problem, whatever was interrupted or cut off before it: no
\* run takes the row of a failed one for complete.
THEOREM HistogramComplete ==
    Spec /\ []PoolKeptUp => [](WholeHistogram /\ ExactHistogram)
  <1>1. CompleteInv => WholeHistogram /\ ExactHistogram
    <2> SUFFICES ASSUME CompleteInv, outcome = "complete", NEW p \in Problems
                 PROVE  {r.key : r \in results[p]} = {p} \X Attempts
      BY DEF WholeHistogram, ExactHistogram, AllAttempts
    <2>1. Whole(p, results[p]) /\ results[p] \subseteq Results
      BY DEF CompleteInv, HistogramInv, EndedWhole, BookInv, BenchTypes, BookTypes
    <2>2. \A r \in results[p] : r.key \in {p} \X Attempts
      BY <2>1 DEF Whole, Unique, Results, Keys
    <2> QED BY <2>1, <2>2 DEF Whole
  <1>2. Init => CompleteInv
    BY CompleteIsInvariant
  <1>3. CompleteInv /\ PoolKeptUp /\ PoolKeptUp' /\ [Next]_vars => CompleteInv'
    BY CompleteIsInvariant
  <1> QED BY <1>1, <1>2, <1>3, PTL DEF Spec

\* ... and then the last row of every problem in problem_results.jsonl is what
\* the run reports of it.
THEOREM RowsSayWhatIsReported == Spec /\ []PoolKeptUp => []ProblemRowsCurrent
  <1>1. CompleteInv => ProblemRowsCurrent
    <2> SUFFICES ASSUME CompleteInv, outcome # "none", NEW p \in Problems
                 PROVE  LET rows == {i \in DOMAIN problemRows : problemRows[i].problem = p}
                        IN rows # {} /\ problemRows[Max(rows)].results = results[p]
      BY DEF ProblemRowsCurrent
    <2> DEFINE rows == {i \in DOMAIN problemRows : problemRows[i].problem = p}
    <2>1. RowProblems = Problems /\ RowsCurrent /\ problemRows \in Seq(Rows)
      BY DEF CompleteInv, HistogramInv, EndedWhole, BookInv, BenchTypes, FileTypes
    <2>2. rows # {}
      BY <2>1 DEF RowProblems
    <2>3. rows \subseteq 1 .. Len(problemRows) /\ Len(problemRows) \in Nat
      BY <2>1
    <2>4. Max(rows) \in rows /\ \A j \in rows : j <= Max(rows)
      BY <2>2, <2>3, LastOf
    <2> DEFINE l == Max(rows)
    <2>5. l \in DOMAIN problemRows /\ problemRows[l].problem = p /\ l \in Nat
      BY <2>3, <2>4
    <2> HIDE DEF l
    <2>6. \A j \in DOMAIN problemRows : j > l => problemRows[j].problem # p
      <3> SUFFICES ASSUME NEW j \in DOMAIN problemRows, j > l, problemRows[j].problem = p
                   PROVE  FALSE
        OBVIOUS
      <3>1. j \in rows /\ j \in Nat
        BY <2>1
      <3>2. j <= l
        BY <2>4, <3>1 DEF l
      <3> QED BY <2>5, <3>1, <3>2
    <2>7. problemRows[l].results = results[p]
      BY <2>1, <2>5, <2>6 DEF RowsCurrent
    <2> QED BY <2>2, <2>7 DEF l
  <1>2. Init => CompleteInv
    BY CompleteIsInvariant
  <1>3. CompleteInv /\ PoolKeptUp /\ PoolKeptUp' /\ [Next]_vars => CompleteInv'
    BY CompleteIsInvariant
  <1> QED BY <1>1, <1>2, <1>3, PTL DEF Spec
-------------------------------------------------------------------------------
(* The pipeline implements ReceiptLog when, besides, no write is cut off.    *)

NothingLost == PoolKeptUp /\ cuts = 0

\* Existing(p), the rows of a problem, for attempts before and after a step
RowsOf(rows, p) == {r \in Range(rows) : r.key[1] = p}

\* Memory and both files say the same of every problem.
FilesInv ==
    /\ attemptsTail = "ended"
    /\ pc # "down" => \A p \in Problems : results[p] = RowsOf(attempts, p)
    /\ \A i \in DOMAIN problemRows : problemRows[i].results = RowsOf(attempts, problemRows[i].problem)

Verdicts == {<<attempts[i].key, attempts[i].ok>> : i \in DOMAIN attempts}

LEMMA NotWritten ==
    ASSUME HistogramInv, pc # "down", NEW k \in Keys, k \in Left \cup Awaited
    PROVE  k[1] \notin written
  <1> SUFFICES ASSUME k[1] \in written PROVE FALSE
    OBVIOUS
  <1>1. Whole(k[1], results[k[1]])
    BY DEF HistogramInv, WrittenWhole
  <1>2. k \in {k[1]} \X Attempts
    BY DEF Keys
  <1>3. \A s \in results[k[1]] : s.key # k
    BY DEF HistogramInv, Covered
  <1> QED BY <1>1, <1>2, <1>3 DEF Whole

LEMMA SameFiles ==
    ASSUME FilesInv, UNCHANGED <<attempts, attemptsTail, problemRows>>,
           pc' = "down" \/ (pc # "down" /\ UNCHANGED results)
    PROVE  FilesInv'
  BY DEF FilesInv, RowsOf, Range

\* What one more row of attempts.jsonl adds.
LEMMA ExistingAfter ==
    ASSUME attempts \in Seq(Results), NEW r \in Results, attempts' = Append(attempts, r)
    PROVE  /\ Range(attempts)' = Range(attempts) \cup {r}
           /\ Verdicts' = Verdicts \cup {<<r.key, r.ok>>}
           /\ \A p \in Problems : RowsOf(attempts', p) = RowsOf(attempts, p) \cup {s \in {r} : s.key[1] = p}
  <1>1. PICK n \in Nat : n = Len(attempts)
    OBVIOUS
  <1>2. DOMAIN attempts = 1 .. n
    BY <1>1
  <1>3. /\ DOMAIN attempts' = 1 .. n + 1 /\ attempts'[n + 1] = r
        /\ \A i \in 1 .. n : attempts'[i] = attempts[i]
    BY <1>1, <1>2
  <1>4. \A i \in 1 .. n + 1 : i \in 1 .. n \/ i = n + 1
    OBVIOUS
  <1>5. 1 .. n \subseteq 1 .. n + 1 /\ n + 1 \in 1 .. n + 1
    OBVIOUS
  <1>6. Range(attempts)' = Range(attempts) \cup {r}
    BY <1>2, <1>3, <1>4, <1>5 DEF Range
  <1>7. Verdicts' = Verdicts \cup {<<r.key, r.ok>>}
    BY <1>2, <1>3, <1>4, <1>5 DEF Verdicts
  <1> QED BY <1>6, <1>7 DEF RowsOf

\* What a step does to attempts.jsonl: nothing, or a row of an attempt that has none.
LEMMA RecordFiles ==
    ASSUME BookInv, HistogramInv, FilesInv, RejectGenerated \/ RecordDrained
    PROVE  \/ UNCHANGED <<attempts, attemptsTail, results>>
           \/ \E r \in Results :
                 /\ r.key \notin seen /\ r.key[1] \notin written
                 /\ attempts' = Append(attempts, r) /\ attemptsTail' = "ended"
                 /\ results' = [results EXCEPT ![r.key[1]] = @ \cup {r}]
  <1>1. PICK r \in Results : RecordResult(r) /\ r.key \in Left \cup Held
    <2>1. CASE RejectGenerated
      <3>1. PICK k \in current : RecordResult([key |-> k, ok |-> FALSE])
        BY <2>1 DEF RejectGenerated, IsNext
      <3>2. [key |-> k, ok |-> FALSE] \in Results /\ k \in Left
        BY <3>1 DEF Results, Left, BookInv, BenchTypes, WorkTypes
      <3> QED BY <3>1, <3>2
    <2>2. CASE RecordDrained
      <3>1. PICK r \in drained : RecordResult(r)
        BY <2>2 DEF RecordDrained
      <3>2. r \in Results /\ r.key \in Held
        BY <3>1 DEF Held, BookInv, BenchTypes, BenchInv, BenchTypeOK
      <3> QED BY <3>1, <3>2
    <2> QED BY <2>1, <2>2
  <1>2. pc # "down"
    BY DEF RejectGenerated, RecordDrained
  <1>3. CASE ~ IsNew(r.key)
    BY <1>1, <1>3 DEF RecordResult
  <1>4. CASE IsNew(r.key)
    <2>1. r.key \notin seen /\ Record(r)
      BY <1>1, <1>4 DEF RecordResult, IsNew
    <2>2. r.key \in Left \cup Awaited /\ r.key \in Keys
      BY <1>1, <2>1 DEF Awaited, Results
    <2>3. attempts' = Append(attempts, r) /\ attemptsTail' = "ended"
      BY <2>1 DEF Record, AppendAttempt, FilesInv
    <2>4. results' = [results EXCEPT ![r.key[1]] = @ \cup {r}]
      BY <2>1 DEF Record
    <2>5. r.key[1] \notin written
      BY <1>2, <2>2, NotWritten
    <2> QED BY <2>1, <2>3, <2>4, <2>5
  <1> QED BY <1>3, <1>4

LEMMA RecordKeepsFiles ==
    ASSUME BookInv, HistogramInv, FilesInv, RejectGenerated \/ RecordDrained
    PROVE  FilesInv'
  <1>1. UNCHANGED <<problemRows, written, pc>> /\ pc # "down"
    BY DEF RejectGenerated, RecordDrained
  <1>2. CASE UNCHANGED <<attempts, attemptsTail, results>>
    BY <1>1, <1>2, SameFiles
  <1>3. CASE \E r \in Results :
                 /\ r.key \notin seen /\ r.key[1] \notin written
                 /\ attempts' = Append(attempts, r) /\ attemptsTail' = "ended"
                 /\ results' = [results EXCEPT ![r.key[1]] = @ \cup {r}]
    <2>1. PICK r \in Results :
                 /\ r.key \notin seen /\ r.key[1] \notin written
                 /\ attempts' = Append(attempts, r) /\ attemptsTail' = "ended"
                 /\ results' = [results EXCEPT ![r.key[1]] = @ \cup {r}]
      BY <1>3
    <2>2. attempts \in Seq(Results) /\ results \in [Problems -> SUBSET Results]
      BY DEF BookInv, BenchTypes, BenchInv, BenchTypeOK, BookTypes
    <2>3. \A p \in Problems : RowsOf(attempts', p) = RowsOf(attempts, p) \cup {s \in {r} : s.key[1] = p}
      BY <2>1, <2>2, ExistingAfter
    <2>4. \A p \in Problems : results'[p] = RowsOf(attempts', p)
      <3> SUFFICES ASSUME NEW p \in Problems PROVE results'[p] = RowsOf(attempts', p)
        OBVIOUS
      <3>1. results[p] = RowsOf(attempts, p)
        BY <1>1 DEF FilesInv
      <3>2. CASE r.key[1] = p
        BY <2>1, <2>2, <2>3, <3>1, <3>2
      <3>3. CASE r.key[1] # p
        BY <2>1, <2>2, <2>3, <3>1, <3>3
      <3> QED BY <3>2, <3>3
    <2>5. \A i \in DOMAIN problemRows : problemRows[i].results = RowsOf(attempts', problemRows[i].problem)
      <3> SUFFICES ASSUME NEW i \in DOMAIN problemRows
                   PROVE  problemRows[i].results = RowsOf(attempts', problemRows[i].problem)
        OBVIOUS
      <3> DEFINE p == problemRows[i].problem
      <3>1. p \in written /\ p \in Problems
        BY <1>1 DEF HistogramInv, WrittenWhole, RowProblems, BookInv, BenchTypes, BookTypes
      <3>2. RowsOf(attempts', p) = RowsOf(attempts, p)
        BY <2>1, <2>3, <3>1
      <3> QED BY <3>2 DEF FilesInv
    <2>6. \A i \in DOMAIN problemRows' : problemRows'[i].results = RowsOf(attempts', problemRows'[i].problem)
      BY <1>1, <2>5
    <2> QED BY <2>1, <2>4, <2>6 DEF FilesInv
  <1> QED BY <1>2, <1>3, RecordFiles

LEMMA RowKeepsFiles ==
    ASSUME BookInv, FilesInv, NEW p \in Problems, AppendRow(p), pc # "down",
           UNCHANGED <<attempts, attemptsTail, results, pc>>
    PROVE  FilesInv'
  <1>1. problemRows \in Seq(Rows)
    BY DEF BookInv, BenchTypes, FileTypes
  <1> DEFINE row == [problem |-> p, results |-> results[p]]
             n == Len(problemRows)
  <1>2. row.problem = p /\ row.results = results[p] /\ n \in Nat /\ DOMAIN problemRows = 1 .. n
    BY <1>1
  <1>3. /\ DOMAIN problemRows' = 1 .. n + 1 /\ problemRows'[n + 1] = row
        /\ \A i \in 1 .. n : problemRows'[i] = problemRows[i]
    BY <1>1 DEF AppendRow
  <1> HIDE DEF row, n
  <1>4. \A q \in Problems : RowsOf(attempts', q) = RowsOf(attempts, q)
    BY DEF RowsOf, Range
  <1>5. ASSUME NEW i \in 1 .. n + 1
        PROVE  problemRows'[i].results = RowsOf(attempts', problemRows'[i].problem)
    <2>1. CASE i = n + 1
      <3>1. results[p] = RowsOf(attempts, p)
        BY DEF FilesInv
      <3> QED BY <1>2, <1>3, <1>4, <2>1, <3>1
    <2>2. CASE i \in 1 .. n
      <3>1. problemRows[i].results = RowsOf(attempts, problemRows[i].problem)
        BY <1>2, <2>2 DEF FilesInv
      <3>2. problemRows[i] \in Rows
        BY <1>1, <1>2, <2>2
      <3>3. problemRows[i].problem \in Problems
        BY <3>2 DEF Rows
      <3> QED BY <1>3, <1>4, <2>2, <3>1, <3>3
    <2> QED BY <1>2, <2>1, <2>2
  <1>6. \A q \in Problems : results'[q] = RowsOf(attempts', q)
    BY <1>4 DEF FilesInv
  <1> QED BY <1>3, <1>5, <1>6 DEF FilesInv
LEMMA RestoredIsOnDisk ==
    ASSUME BookInv, HistogramInv, FilesInv, NEW p \in Problems
    PROVE  Restored(p) = RowsOf(attempts, p)
  <1>1. CASE p \in CompletedIds
    <2>1. PICK i \in DOMAIN problemRows :
              CompletedRow(p) = problemRows[i] /\ problemRows[i].problem = p
      BY <1>1, CompletedRowIs DEF BookInv, BenchTypes, FileTypes
    <2> QED BY <1>1, <2>1 DEF Restored, FilesInv
  <1>2. CASE p \notin CompletedIds
    BY <1>2 DEF Restored, Existing, RowsOf
  <1> QED BY <1>1, <1>2

LEMMA NextFiles ==
    ASSUME NothingLost', NothingLost, BookInv, KeepsUpInv, HistogramInv, FilesInv, [Next]_vars
    PROVE  FilesInv'
  <1>0. BenchTypes /\ PhaseInv /\ LedgerInv
    BY DEF BookInv
  <1>1. CASE UNCHANGED vars
    <2>1. UNCHANGED <<attempts, attemptsTail, problemRows, results, pc>>
      BY <1>1 DEF vars, files, books
    <2> QED BY <2>1 DEF FilesInv, RowsOf, Range
  <1>2. CASE Crash \/ FlushRaises \/ SubmitRaises
    <2>1. pc' = "down" /\ UNCHANGED <<attempts, attemptsTail, problemRows>>
      BY <1>2 DEF Crash, FlushRaises, SubmitRaises, Forget, files
    <2> QED BY <2>1, SameFiles
  <1>3. ~ CutLine
    BY DEF NothingLost, CutLine
  <1>4. CASE StartRun
    <2>1. /\ results' = [p \in Problems |-> Restored(p)]
          /\ UNCHANGED <<attempts, attemptsTail, problemRows>>
      BY <1>4 DEF StartRun
    <2>2. \A p \in Problems : results'[p] = RowsOf(attempts, p)
      BY <2>1, RestoredIsOnDisk
    <2> QED BY <2>1, <2>2 DEF FilesInv
  <1>5. CASE WriteProblem
    <2>1. latest[1] \in Problems
      BY <1>0 DEF BenchTypes, WorkTypes, Keys
    <2>2. AppendRow(latest[1]) /\ pc # "down" /\ UNCHANGED <<attempts, attemptsTail, results, pc>>
      BY <1>0, <1>5 DEF WriteProblem, PhaseInv
    <2> QED BY <2>1, <2>2, RowKeepsFiles
  <1>6. CASE FlushRow
    <2>1. PICK p \in Problems : AppendRow(p)
      BY <1>6 DEF FlushRow
    <2>2. pc # "down" /\ UNCHANGED <<attempts, attemptsTail, results, pc>>
      BY <1>6 DEF FlushRow
    <2> QED BY <2>1, <2>2, RowKeepsFiles
  <1>7. CASE FlushEnds
    <2>1. pc' = "down" /\ UNCHANGED <<attempts, attemptsTail, problemRows>>
      BY <1>7 DEF FlushEnds
    <2> QED BY <2>1, SameFiles
  <1>8. CASE \/ WriteSuccess \/ GenerateBatch \/ SubmitTask \/ SubmitFull \/ DrainAfterBatch
             \/ BatchEnds \/ DrainWaiting \/ Stall \/ WaitEnds
    <2>1. UNCHANGED <<attempts, attemptsTail, problemRows, results>>
      BY <1>8 DEF WriteSuccess, GenerateBatch, SubmitTask, SubmitFull, DrainAfterBatch, BatchEnds,
                  DrainWaiting, Stall, WaitEnds, files, books
    <2>2. pc # "down"
      BY <1>0, <1>8 DEF WriteSuccess, GenerateBatch, SubmitTask, SubmitFull, QueueFull,
             DrainAfterBatch, BatchEnds, DrainWaiting, Stall, WaitEnds, Waiting, PhaseInv
    <2> QED BY <2>1, <2>2, SameFiles
  <1>9. CASE Verify \/ LoseTask \/ PoolFails
    <2>1. UNCHANGED <<attempts, attemptsTail, problemRows, results, pc>>
      BY <1>9 DEF Verify, LoseTask, PoolFails, files, books
    <2> QED BY <2>1 DEF FilesInv, RowsOf, Range
  <1> QED BY <1>1, <1>2, <1>3, <1>4, <1>5, <1>6, <1>7, <1>8, <1>9, RecordKeepsFiles
          DEF Next, Progress

\* One verdict for a row, and one row for a verdict: the two are counted alike.
LEMMA CountedAlike ==
    ASSUME BenchInv, NEW ok \in BOOLEAN
    PROVE  Cardinality({r \in Range(attempts) : r.ok = ok}) = Cardinality({v \in Verdicts : v[2] = ok})
  <1> DEFINE S == {r \in Range(attempts) : r.ok = ok}
             T == {v \in Verdicts : v[2] = ok}
             f == [r \in S |-> <<r.key, r.ok>>]
  <1>1. /\ \A i \in DOMAIN attempts : attempts[i] \in Results
        /\ \A r \in Range(attempts) : r \in Results /\ <<r.key, r.ok>> \in Verdicts
        /\ \A v \in Verdicts : \E r \in Range(attempts) : v = <<r.key, r.ok>>
    BY DEF BenchInv, BenchTypeOK, Range, Verdicts
  <1>2. f \in [S -> T]
    BY <1>1
  <1>3. \A r, s \in S : f[r] = f[s] => r = s
    BY <1>1 DEF Results
  <1>4. \A v \in T : \E r \in S : f[r] = v
    <2> SUFFICES ASSUME NEW v \in T PROVE \E r \in S : f[r] = v
      OBVIOUS
    <2>1. PICK r \in Range(attempts) : v = <<r.key, r.ok>>
      BY <1>1
    <2>2. r \in S
      BY <2>1
    <2> QED BY <2>1, <2>2
  <1>5. f \in Bijection(S, T)
    BY <1>2, <1>3, <1>4 DEF Bijection, Injection, IsInjective, Surjection
  <1>6. IsFiniteSet(S)
    <2>1. S \in SUBSET Results
      BY <1>1
    <2> QED BY <2>1, KeysFinite, FS_Subset
  <1> HIDE DEF S, T, f
  <1>7. Cardinality(S) = Cardinality(T)
    BY <1>5, <1>6, FS_Bijection DEF ExistsBijection
  <1> QED BY <1>7 DEF S, T

\* The summary of results that are those on disk is that of the verdicts.
LEMMA CountsAreVerdicts ==
    ASSUME BenchInv, NEW rs, \A p \in Problems : rs[p] = RowsOf(attempts, p)
    PROVE  Counts(rs) = [successes |-> Cardinality({v \in Verdicts : v[2] = TRUE}),
                         failures |-> Cardinality({v \in Verdicts : v[2] = FALSE})]
  <1> DEFINE all == UNION {rs[p] : p \in Problems}
  <1>1. \A r \in Range(attempts) : r.key[1] \in Problems /\ r.ok \in BOOLEAN
    <2>1. \A r \in Range(attempts) : r \in Results
      BY DEF BenchInv, BenchTypeOK, Range
    <2>2. \A k \in Keys : k[1] \in Problems
      BY DEF Keys
    <2> QED BY <2>1, <2>2 DEF Results
  <1>2. all = Range(attempts)
    BY <1>1 DEF RowsOf
  <1>3. /\ {r \in all : r.ok} = {r \in Range(attempts) : r.ok = TRUE}
        /\ {r \in all : ~ r.ok} = {r \in Range(attempts) : r.ok = FALSE}
    BY <1>1, <1>2
  <1>4. /\ Cardinality({r \in all : r.ok}) = Cardinality({v \in Verdicts : v[2] = TRUE})
        /\ Cardinality({r \in all : ~ r.ok}) = Cardinality({v \in Verdicts : v[2] = FALSE})
    BY <1>3, CountedAlike
  <1> QED BY <1>4 DEF Counts

\* The two names of one operator.
LEMMA SameCardinality ==
    ASSUME NEW S PROVE Log!Cardinality(S) = Cardinality(S)
  BY DEF Log!Cardinality, Cardinality

\* A summary is published when every attempt has its verdict.
LEMMA PublishStep ==
    ASSUME BenchInv, NEW rs, \A p \in Problems : rs[p] = RowsOf(attempts, p) /\ Whole(p, rs[p]),
           summary' = Counts(rs), UNCHANGED attempts
    PROVE  Log!Publish
  <1>1. {v[1] : v \in Verdicts} = Keys
    <2>1. {v[1] : v \in Verdicts} \subseteq Keys
      <3>1. \A i \in DOMAIN attempts : attempts[i] \in Results
        BY DEF BenchInv, BenchTypeOK
      <3> QED BY <3>1 DEF Verdicts, Results
    <2>2. ASSUME NEW k \in Keys PROVE \E v \in Verdicts : v[1] = k
      <3>1. k[1] \in Problems /\ k \in {k[1]} \X Attempts
        BY DEF Keys
      <3>2. PICK r \in rs[k[1]] : r.key = k
        BY <3>1 DEF Whole
      <3>3. r \in Range(attempts)
        BY <3>1, <3>2 DEF RowsOf
      <3>4. <<r.key, r.ok>> \in Verdicts
        BY <3>3 DEF Range, Verdicts
      <3>5. <<r.key, r.ok>>[1] = k
        BY <3>2
      <3> QED BY <3>4, <3>5
    <2> QED BY <2>1, <2>2
  <1>2. Verdicts' = Verdicts
    BY DEF Verdicts
  <1>3. summary' = [successes |-> Cardinality({v \in Verdicts : v[2] = TRUE}),
                    failures |-> Cardinality({v \in Verdicts : v[2] = FALSE})]
    BY CountsAreVerdicts
  <1>4. Log!Decided = Keys
    BY <1>1 DEF Verdicts, Log!Decided
  <1>5. summary' = [successes |-> Log!Counted(TRUE), failures |-> Log!Counted(FALSE)]
    <2>1. \A ok : Log!Counted(ok) = Cardinality({v \in Verdicts : v[2] = ok})
      BY SameCardinality DEF Verdicts, Log!Counted
    <2> QED BY <1>3, <2>1
  <1> QED BY <1>2, <1>4, <1>5 DEF Verdicts, Log!Publish

LEMMA DecideStep ==
    ASSUME BookInv, pc # "down", NEW r \in Results, r.key \notin seen,
           attempts' = Append(attempts, r), UNCHANGED summary
    PROVE  Log!Decide(r.key, r.ok)
  <1>1. attempts \in Seq(Results) /\ SeenOnDisk
    BY DEF BookInv, BenchTypes, BenchInv, BenchTypeOK
  <1>2. Verdicts' = Verdicts \cup {<<r.key, r.ok>>}
    BY <1>1, ExistingAfter
  <1>3. r.key \in Keys
    BY DEF Results
  <1>4. r.key \notin {v[1] : v \in Verdicts}
    BY <1>1 DEF SeenOnDisk, Verdicts
  <1> QED BY <1>2, <1>3, <1>4 DEF Verdicts, Log!Decide, Log!Decided
\* Every step of the pipeline decides one attempt, publishes the summary, or
\* changes nothing that ReceiptLog speaks of.
LEMMA StepIsLogStep ==
    ASSUME NothingLost, NothingLost', CompleteInv, FilesInv, [Next]_vars
    PROVE  [Log!Next]_(Log!vars)
  <1>0. /\ BookInv /\ KeepsUpInv /\ HistogramInv /\ BenchInv
        /\ BenchTypes /\ PhaseInv /\ LedgerInv
    BY DEF CompleteInv, BookInv, BenchTypes
  <1>1. ASSUME UNCHANGED <<attempts, summary>>
        PROVE  UNCHANGED Log!vars
    BY <1>1 DEF Log!vars
  <1>2. CASE RejectGenerated \/ RecordDrained
    <2>1. pc # "down" /\ UNCHANGED summary
      BY <1>2 DEF RejectGenerated, RecordDrained
    <2>2. CASE UNCHANGED attempts
      BY <1>1, <2>1, <2>2
    <2>3. CASE \E r \in Results : r.key \notin seen /\ attempts' = Append(attempts, r)
      <3>1. PICK r \in Results : r.key \notin seen /\ attempts' = Append(attempts, r)
        BY <2>3
      <3>2. Log!Decide(r.key, r.ok)
        BY <1>0, <2>1, <3>1, DecideStep
      <3> QED BY <3>1, <3>2 DEF Log!Next, Results
    <2> QED BY <1>0, <1>2, <2>2, <2>3, RecordFiles
  <1>3. CASE FlushEnds
    <2>1. pc = "flush" /\ summary' = Counts(results) /\ UNCHANGED attempts
      BY <1>3 DEF FlushEnds
    <2>2. \A p \in Problems : results[p] = RowsOf(attempts, p) /\ Whole(p, results[p])
      BY <1>0, <2>1, FlushIsWhole DEF FilesInv
    <2>3. Log!Publish
      BY <1>0, <2>1, <2>2, PublishStep
    <2> QED BY <2>3 DEF Log!Next
  <1>4. CASE StartRun
    <2>1. /\ results' = [p \in Problems |-> Restored(p)] /\ UNCHANGED attempts
          /\ \/ UNCHANGED summary
             \/ outcome' = "complete" /\ summary' = Counts(results')
      BY <1>4 DEF StartRun
    <2>2. CASE UNCHANGED summary
      BY <1>1, <2>1, <2>2
    <2>3. CASE outcome' = "complete" /\ summary' = Counts(results')
      <3>1. HistogramInv'
        BY <1>0, <1>4, StartHistogram
      <3>2. \A p \in Problems : Whole(p, results'[p])
        BY <2>3, <3>1 DEF HistogramInv, EndedWhole
      <3>3. \A p \in Problems : results'[p] = RowsOf(attempts, p)
        BY <1>0, <2>1, RestoredIsOnDisk
      <3> DEFINE rs == results'
      <3>4. /\ \A p \in Problems : rs[p] = RowsOf(attempts, p) /\ Whole(p, rs[p])
            /\ summary' = Counts(rs)
        BY <2>3, <3>2, <3>3
      <3> HIDE DEF rs
      <3>5. Log!Publish
        BY <1>0, <2>1, <3>4, PublishStep
      <3> QED BY <3>5 DEF Log!Next
    <2> QED BY <2>1, <2>2, <2>3
  <1>5. CASE \/ WriteSuccess \/ WriteProblem \/ GenerateBatch \/ SubmitTask \/ SubmitFull
             \/ DrainAfterBatch \/ BatchEnds \/ DrainWaiting \/ Stall \/ WaitEnds \/ FlushRow
             \/ SubmitRaises \/ FlushRaises
    <2>1. UNCHANGED <<attempts, summary>>
      BY <1>5 DEF WriteSuccess, WriteProblem, GenerateBatch, SubmitTask, SubmitFull,
             DrainAfterBatch, BatchEnds, DrainWaiting, Stall, WaitEnds, FlushRow, SubmitRaises,
             FlushRaises, files
    <2> QED BY <1>1, <2>1
  <1>6. CASE Crash \/ Verify \/ LoseTask \/ PoolFails \/ UNCHANGED vars
    <2>1. UNCHANGED <<attempts, summary>>
      BY <1>6 DEF Crash, Verify, LoseTask, PoolFails, vars, files
    <2> QED BY <1>1, <2>1
  <1>7. ~ CutLine
    BY DEF NothingLost, CutLine
  <1> QED BY <1>2, <1>3, <1>4, <1>5, <1>6, <1>7 DEF Next, Progress

\* As long as the pool keeps up and no write is cut off, whoever reads the output
\* sees a ReceiptLog: an attempt gets one verdict, none is lost or changed, and the
\* summary counts exactly the rows, however often runs are killed and resumed.
THEOREM PipelineIsReceiptLog == Spec /\ []NothingLost => OneVerdictEach
  <1> DEFINE Safe == CompleteInv /\ FilesInv
  <1>1. Init => Safe
    <2>1. Init => CompleteInv
      BY CompleteIsInvariant
    <2>2. Init => FilesInv
      BY DEF Init, FilesInv
    <2> QED BY <2>1, <2>2
  <1>2. Safe /\ NothingLost /\ NothingLost' /\ [Next]_vars => Safe'
    <2>1. CompleteInv /\ NothingLost /\ NothingLost' /\ [Next]_vars => CompleteInv'
      BY CompleteIsInvariant DEF NothingLost
    <2>2. CompleteInv /\ FilesInv /\ NothingLost /\ NothingLost' /\ [Next]_vars => FilesInv'
      BY NextFiles DEF CompleteInv
    <2> QED BY <2>1, <2>2
  <1>3. Init => Log!Init
    BY DEF Init, Log!Init
  <1>4. Safe /\ NothingLost /\ NothingLost' /\ [Next]_vars => [Log!Next]_(Log!vars)
    BY StepIsLogStep
  <1> HIDE DEF Safe
  <1> QED BY <1>1, <1>2, <1>3, <1>4, PTL DEF Spec, OneVerdictEach, Log!Spec
===============================================================================

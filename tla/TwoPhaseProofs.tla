---------------------------- MODULE TwoPhaseProofs ----------------------------
(***************************************************************************)
(* Proofs about TwoPhase for every number of problems, shards, attempts,   *)
(* runs and crashes.                                                       *)
(***************************************************************************)
EXTENDS TwoPhase, FiniteSetTheorems, TLAPS

\* The shards of plan_shards are disjoint.
LEMMA ShardsDisjoint ==
    ASSUME NEW s \in Shards, NEW t \in Shards, s # t,
           NEW p \in PlanShards[s]
    PROVE  p \notin PlanShards[t]
  BY DEF PlanShards

\* Every problem has a shard.
LEMMA ShardsCover ==
    ASSUME NEW p \in Problems
    PROVE  \E s \in Shards : p \in PlanShards[s]
<1>1. p % ShardCount \in Shards
  BY SizesAssumption DEF Problems, Shards
<1> QED
  BY <1>1 DEF PlanShards

-----------------------------------------------------------------------------
(* Phase A.                                                                *)

\* What the generators of all shards maintain: each works on exactly the
\* problems of its own shard that have no chunk, and no run is number 0.
GenTypeOK ==
    /\ chunk \in [Problems -> Nat] /\ hashed \in [Problems -> Nat]
    /\ complete \subseteq Shards
    /\ gpc \in [Shards -> {"down", "generate"}]
    /\ genRun \in [Shards -> Nat]
    /\ pending \in [Shards -> SUBSET Problems]
GenInv ==
    /\ GenTypeOK
    /\ \A s \in Shards : gpc[s] = "generate" =>
            genRun[s] # 0 /\ pending[s] = Missing(s)
    /\ CompleteCoversShard

LEMMA GenerateKeeps ==
    ASSUME GenInv, NEW s \in Shards, Generate(s) PROVE GenInv'
<1>1. GenTypeOK'
  <2>1. Missing(s) \in SUBSET Problems
    BY DEF Missing, PlanShards
  <2> QED
    BY <2>1 DEF Generate, GenInv, GenTypeOK
<1>2. ASSUME NEW t \in Shards, gpc'[t] = "generate"
      PROVE  genRun'[t] # 0 /\ pending'[t] = Missing(t)'
  <2>1. Missing(t)' = Missing(t)
    BY DEF Generate, Missing
  <2>2. CASE t = s
    BY <2>1, <2>2 DEF Generate, GenInv, GenTypeOK
  <2>3. CASE t # s
    BY <1>2, <2>1, <2>3 DEF Generate, GenInv, GenTypeOK
  <2> QED
    BY <2>2, <2>3
<1>3. CompleteCoversShard'
  BY DEF Generate, GenInv, CompleteCoversShard
<1> QED
  BY <1>1, <1>2, <1>3 DEF GenInv

\* The chunk written now was missing, so no report covers it, and no other
\* generator is waiting to write it.
LEMMA WriteChunkKeeps ==
    ASSUME GenInv, NEW s \in Shards, WriteChunk(s) PROVE GenInv'
<1>1. PICK p \in pending[s] :
        /\ chunk' = [chunk EXCEPT ![p] = genRun[s]]
        /\ pending' = [pending EXCEPT ![s] = @ \ {p}]
  BY DEF WriteChunk
<1>2. /\ gpc[s] = "generate" /\ genRun[s] # 0 /\ genRun[s] \in Nat
      /\ p \in PlanShards[s] /\ p \in Problems /\ chunk[p] = NoChunk
      /\ pending[s] = Missing(s)
  BY <1>1 DEF WriteChunk, GenInv, GenTypeOK, Missing
<1>3. UNCHANGED <<complete, hashed, gpc, genRun>>
  BY DEF WriteChunk
<1>4. GenTypeOK'
  BY <1>1, <1>2, <1>3 DEF GenInv, GenTypeOK
<1>5. \A q \in Problems :
        chunk'[q] = IF q = p THEN genRun[s] ELSE chunk[q]
  BY <1>1, <1>2 DEF GenInv, GenTypeOK
<1>6. ASSUME NEW t \in Shards, gpc'[t] = "generate"
      PROVE  genRun'[t] # 0 /\ pending'[t] = Missing(t)'
  <2>1. genRun[t] # 0 /\ pending[t] = Missing(t)
    BY <1>3, <1>6 DEF GenInv
  <2>2. CASE t = s
    <3>1. Missing(s)' = Missing(s) \ {p}
      BY <1>2, <1>5 DEF Missing, PlanShards, NoChunk
    <3>2. pending'[s] = pending[s] \ {p}
      BY <1>1 DEF GenInv, GenTypeOK
    <3> QED
      BY <1>2, <1>3, <2>1, <2>2, <3>1, <3>2
  <2>3. CASE t # s
    <3>1. p \notin PlanShards[t]
      BY <1>2, <2>3, ShardsDisjoint
    <3>2. Missing(t)' = Missing(t)
      BY <1>5, <3>1 DEF Missing, PlanShards
    <3>3. pending'[t] = pending[t]
      BY <1>1, <2>3 DEF GenInv, GenTypeOK
    <3> QED
      BY <1>3, <2>1, <3>2, <3>3
  <2> QED
    BY <2>2, <2>3
<1>7. CompleteCoversShard'
  <2> SUFFICES ASSUME NEW t \in complete, NEW q \in PlanShards[t]
               PROVE  chunk'[q] # NoChunk /\ hashed[q] = chunk'[q]
    BY <1>3 DEF CompleteCoversShard
  <2>1. chunk[q] # NoChunk /\ hashed[q] = chunk[q]
    BY DEF GenInv, CompleteCoversShard
  <2>2. q \in Problems
    BY DEF GenInv, GenTypeOK, PlanShards
  <2> QED
    BY <1>2, <1>5, <2>1, <2>2
<1> QED
  BY <1>4, <1>6, <1>7 DEF GenInv

\* A report is written when nothing is missing, and hashes what is there.
LEMMA CompleteShardKeeps ==
    ASSUME GenInv, NEW s \in Shards, CompleteShard(s) PROVE GenInv'
<1>1. /\ Missing(s) = {}
      /\ complete' = complete \cup {s}
      /\ hashed' = [p \in Problems |->
                      IF p \in PlanShards[s] THEN chunk[p] ELSE hashed[p]]
      /\ gpc' = [gpc EXCEPT ![s] = "down"]
      /\ UNCHANGED <<chunk, genRun, pending>>
  BY DEF CompleteShard, Generated, GenInv
<1>2. GenTypeOK'
  BY <1>1 DEF GenInv, GenTypeOK
<1>3. ASSUME NEW t \in Shards, gpc'[t] = "generate"
      PROVE  genRun'[t] # 0 /\ pending'[t] = Missing(t)'
  <2>1. gpc[t] = "generate"
    BY <1>1, <1>3 DEF GenInv, GenTypeOK
  <2> QED
    BY <1>1, <2>1 DEF GenInv, Missing
<1>4. CompleteCoversShard'
  <2> SUFFICES ASSUME NEW t \in complete', NEW p \in PlanShards[t]
               PROVE  chunk[p] # NoChunk /\ hashed'[p] = chunk[p]
    BY <1>1 DEF CompleteCoversShard
  <2>1. t \in Shards /\ p \in Problems
    BY <1>1 DEF GenInv, GenTypeOK, PlanShards
  <2>2. CASE t = s
    BY <1>1, <2>1, <2>2 DEF Missing
  <2>3. CASE t # s
    <3>1. p \notin PlanShards[s]
      BY <2>1, <2>3, ShardsDisjoint
    <3> QED
      BY <1>1, <2>1, <2>3, <3>1 DEF GenInv, CompleteCoversShard
  <2> QED
    BY <2>2, <2>3
<1> QED
  BY <1>2, <1>3, <1>4 DEF GenInv

\* The steps that write no file of phase A.
LEMMA OthersKeep ==
    ASSUME GenInv, UNCHANGED <<chunk, complete, hashed, genRun, pending>>,
           \/ gpc' = gpc
           \/ \E s \in Shards : gpc' = [gpc EXCEPT ![s] = "down"]
    PROVE  GenInv'
<1>1. GenTypeOK'
  BY DEF GenInv, GenTypeOK
<1>2. ASSUME NEW t \in Shards, gpc'[t] = "generate"
      PROVE  genRun'[t] # 0 /\ pending'[t] = Missing(t)'
  <2>1. gpc[t] = "generate"
    BY <1>2 DEF GenInv, GenTypeOK
  <2> QED
    BY <2>1 DEF GenInv, Missing
<1>3. CompleteCoversShard'
  BY DEF GenInv, CompleteCoversShard
<1> QED
  BY <1>1, <1>2, <1>3 DEF GenInv

LEMMA GenInvInductive == GenInv /\ [Next]_vars => GenInv'
<1> SUFFICES ASSUME GenInv, [Next]_vars PROVE GenInv'
  OBVIOUS
<1>1. ASSUME NEW s \in Shards, Generate(s) PROVE GenInv'
  BY <1>1, GenerateKeeps
<1>2. ASSUME NEW s \in Shards, WriteChunk(s) PROVE GenInv'
  BY <1>2, WriteChunkKeeps
<1>3. ASSUME NEW s \in Shards, CompleteShard(s) PROVE GenInv'
  BY <1>3, CompleteShardKeeps
<1>4. ASSUME NEW s \in Shards, GenerateWindow(s) \/ KillGenerator(s) PROVE GenInv'
  BY <1>4, OthersKeep DEF GenerateWindow, KillGenerator
<1>5. CASE AuditGenerations \/ PhaseB \/ UNCHANGED vars
  <2>1. UNCHANGED genVars
    BY <1>5
    DEF AuditGenerations, PhaseB, StartVerifier, LoadReceipts, ReadRows, Skip,
        RecordRejected, AddToBatch, WalkEnds, OnResult, RunBatchReturns,
        Summarize, StopVerifier, CutReceipt, vars
  <2> QED
    BY <2>1, OthersKeep DEF genVars
<1> QED
  BY <1>1, <1>2, <1>3, <1>4, <1>5 DEF Next, PhaseA

LEMMA GenInvInit == Init => GenInv
  BY DEF Init, GenInv, GenTypeOK, CompleteCoversShard, NoChunk

\* A chunk that a report hashes is never written again, by any later run of any
\* generator.
THEOREM ReportedChunksStay == Spec => []CompleteCoversShard
<1>1. GenInv => CompleteCoversShard
  BY DEF GenInv
<1> QED
  BY GenInvInit, GenInvInductive, <1>1, PTL DEF Spec

-----------------------------------------------------------------------------
(* Phase B reads what phase A wrote while generators may be started again. *)

\* A chunk that is there is never replaced.
LEMMA ChunksStay ==
    ASSUME GenInv, [Next]_vars, NEW p \in Problems, chunk[p] # NoChunk
    PROVE  chunk'[p] = chunk[p]
<1>1. CASE UNCHANGED chunk
  BY <1>1
<1>2. CASE \E s \in Shards : WriteChunk(s)
  <2>1. PICK s \in Shards : WriteChunk(s)
    BY <1>2
  <2>2. PICK q \in pending[s] : chunk' = [chunk EXCEPT ![q] = genRun[s]]
    BY <2>1 DEF WriteChunk
  <2>3. q # p
    BY <2>1, <2>2 DEF WriteChunk, GenInv, GenTypeOK, Missing
  <2> QED
    BY <2>2, <2>3 DEF GenInv, GenTypeOK
<1> QED
  BY <1>1, <1>2
  DEF Next, PhaseA, Generate, GenerateWindow, CompleteShard, KillGenerator,
      AuditGenerations, PhaseB, StartVerifier, LoadReceipts, ReadRows, Skip,
      RecordRejected, AddToBatch, WalkEnds, OnResult, RunBatchReturns,
      Summarize, StopVerifier, CutReceipt, vars, genVars, verVars

\* Once the rows are accepted they stay so: there is nothing left to generate,
\* and a second report of a shard hashes the same chunks.
LEMMA AcceptedStays ==
    ASSUME GenInv, [Next]_vars, RowsAccepted PROVE RowsAccepted'
<1>1. CASE UNCHANGED <<chunk, complete, hashed>>
  BY <1>1 DEF RowsAccepted
<1>2. CASE \E s \in Shards : WriteChunk(s)
  BY <1>2 DEF WriteChunk, GenInv, RowsAccepted, Missing
<1>3. CASE \E s \in Shards : CompleteShard(s)
  <2>1. PICK s \in Shards : CompleteShard(s)
    BY <1>3
  <2>2. complete' = complete \cup {s} /\ chunk' = chunk
    BY <2>1 DEF CompleteShard
  <2>3. ASSUME NEW t \in Shards, NEW p \in PlanShards[t]
        PROVE  hashed'[p] = chunk[p]
    <3>1. p \in Problems /\ hashed[p] = chunk[p]
      BY <2>3 DEF RowsAccepted, PlanShards
    <3> QED
      BY <2>1, <3>1 DEF CompleteShard
  <2> QED
    BY <2>2, <2>3 DEF RowsAccepted
<1> QED
  BY <1>1, <1>2, <1>3
  DEF Next, PhaseA, Generate, GenerateWindow, KillGenerator, AuditGenerations,
      PhaseB, StartVerifier, LoadReceipts, ReadRows, Skip, RecordRejected,
      AddToBatch, WalkEnds, OnResult, RunBatchReturns, Summarize, StopVerifier,
      CutReceipt, vars, genVars, verVars

\* Generations that passed the audit stay acceptable to phase B.
THEOREM AuditStands == Spec => []AuditHolds
<1>1. Init => AuditHolds
  BY DEF Init, AuditHolds
<1>2. GenInv /\ AuditHolds /\ [Next]_vars => AuditHolds'
  <2> SUFFICES ASSUME GenInv, AuditHolds, [Next]_vars, audited'
               PROVE  RowsAccepted'
    BY DEF AuditHolds
  <2>1. RowsAccepted
    <3>1. CASE audited
      BY <3>1 DEF AuditHolds
    <3>2. CASE AuditGenerations
      BY <3>2 DEF AuditGenerations
    <3> QED
      BY <3>1, <3>2
      DEF Next, PhaseA, Generate, GenerateWindow, WriteChunk, CompleteShard,
          KillGenerator, PhaseB, StartVerifier, LoadReceipts, ReadRows, Skip,
          RecordRejected, AddToBatch, WalkEnds, OnResult, RunBatchReturns,
          Summarize, StopVerifier, CutReceipt, vars, verVars
  <2> QED
    BY <2>1, AcceptedStays
<1> QED
  BY <1>1, <1>2, GenInvInit, GenInvInductive, PTL DEF Spec

-----------------------------------------------------------------------------
(* Receipts.                                                               *)

\* While a run walks, the rows it read are the chunks on disk, and the keys it
\* takes for seen are those of the receipts.
Loaded == vpc \in {"rows", "walk", "check", "summary"}
RecTypeOK ==
    /\ receipts \in Seq(Receipts)
    /\ seen \in SUBSET (Keys \X Nat)
    /\ batch \subseteq Keys
    /\ position \in 0 .. Total
    /\ rows \in [Problems -> Nat]
RowsCurrent == vpc \in {"walk", "check"} =>
    \A p \in Problems : chunk[p] # NoChunk /\ rows[p] = chunk[p]
ReceiptsSeen == Loaded => SeenKeys = {receipts[i].key : i \in DOMAIN receipts}
ReceiptsBound == \A i \in DOMAIN receipts :
    /\ receipts[i].gen = chunk[receipts[i].key[1]]
    /\ receipts[i].gen # NoChunk
RecInv == /\ RecTypeOK /\ RowsCurrent /\ ReceiptsSeen
          /\ ReceiptsBound /\ ReceiptsUnique

LEMMA KeysType ==
    ASSUME NEW i \in 0 .. Total - 1 PROVE KeyAt(i + 1) \in Keys
<1>1. i \in Nat /\ i < ProblemCount * PassK /\ PassK \in Nat /\ PassK > 0
      /\ ProblemCount \in Nat
  BY SizesAssumption DEF Total
<1>2. i % PassK \in 0 .. PassK - 1
  BY <1>1
<1>3. i \div PassK \in Nat
  BY <1>1
<1>4. i \div PassK < ProblemCount
  BY <1>1
<1>5. (i + 1) - 1 = i
  BY <1>1
<1> QED
  BY <1>1, <1>2, <1>3, <1>4, <1>5 DEF KeyAt, Keys, Problems, Attempts

\* One more receipt keeps the books: its key is new, and its row is the chunk.
LEMMA AppendKeeps ==
    ASSUME RecInv, vpc \in {"walk", "check"}, UNCHANGED <<chunk, rows>>,
           NEW key \in Keys, NEW ok \in BOOLEAN, AppendReceipt(key, ok)
    PROVE  /\ receipts' \in Seq(Receipts) /\ seen' \in SUBSET (Keys \X Nat)
           /\ SeenKeys' = {receipts[i].key : i \in DOMAIN receipts}'
           /\ ReceiptsBound' /\ ReceiptsUnique'
<1> DEFINE gen == rows[key[1]]
           line == [key |-> key, gen |-> gen, ok |-> ok]
           last == Len(receipts) + 1
<1>1. key[1] \in Problems /\ gen \in Nat /\ gen = chunk[key[1]] /\ gen # NoChunk
  BY DEF Keys, RecInv, RecTypeOK, RowsCurrent
<1>2. line \in Receipts /\ line.key = key /\ line.gen = gen
  BY <1>1 DEF Receipts
<1>3. receipts \in Seq(Receipts) /\ receipts' = Append(receipts, line)
  BY DEF RecInv, RecTypeOK, AppendReceipt
<1> HIDE DEF line
<1>4. /\ receipts' \in Seq(Receipts) /\ DOMAIN receipts' = 1 .. last
      /\ DOMAIN receipts = 1 .. Len(receipts) /\ Len(receipts) \in Nat
      /\ receipts'[last] = line
      /\ \A i \in DOMAIN receipts : receipts'[i] = receipts[i]
  BY <1>2, <1>3
<1>5. key \notin SeenKeys /\ seen' = seen \cup {<<key, gen>>}
  BY DEF AppendReceipt
<1>6. seen' \in SUBSET (Keys \X Nat) /\ SeenKeys' = SeenKeys \cup {key}
  <2>1. <<key, gen>> \in Keys \X Nat /\ <<key, gen>>[1] = key
    BY <1>1
  <2>2. seen' \in SUBSET (Keys \X Nat)
    BY <1>5, <2>1 DEF RecInv, RecTypeOK
  <2>3. {t[1] : t \in seen'} = {t[1] : t \in seen} \cup {key}
    BY <1>5, <2>1
  <2> QED
    BY <2>2, <2>3 DEF SeenKeys
<1>7. SeenKeys = {receipts[i].key : i \in DOMAIN receipts}
  BY DEF RecInv, ReceiptsSeen, Loaded
<1>8. DOMAIN receipts' = DOMAIN receipts \cup {last} /\ last \notin DOMAIN receipts
  BY <1>4
<1> HIDE DEF last, gen
<1>9. SeenKeys' = {receipts'[i].key : i \in DOMAIN receipts'}
  <2>1. ASSUME NEW k \in SeenKeys'
        PROVE  \E i \in DOMAIN receipts' : k = receipts'[i].key
    <3>1. CASE k = key
      BY <1>2, <1>4, <1>8, <3>1
    <3>2. CASE k \in SeenKeys
      <4>1. PICK i \in DOMAIN receipts : k = receipts[i].key
        BY <1>7, <3>2
      <4> QED
        BY <1>4, <1>8, <4>1
    <3> QED
      BY <1>6, <2>1, <3>1, <3>2
  <2>2. ASSUME NEW i \in DOMAIN receipts' PROVE receipts'[i].key \in SeenKeys'
    <3>1. CASE i = last
      BY <1>2, <1>4, <1>6, <3>1
    <3>2. CASE i \in DOMAIN receipts
      BY <1>4, <1>6, <1>7, <3>2
    <3> QED
      BY <1>8, <3>1, <3>2
  <2> QED
    BY <2>1, <2>2
<1>10. ReceiptsBound'
  <2> SUFFICES ASSUME NEW i \in DOMAIN receipts'
               PROVE  /\ receipts'[i].gen = chunk[receipts'[i].key[1]]
                      /\ receipts'[i].gen # NoChunk
    BY DEF ReceiptsBound
  <2>1. CASE i = last
    BY <1>1, <1>2, <1>4, <2>1
  <2>2. CASE i \in DOMAIN receipts
    BY <1>4, <2>2 DEF RecInv, ReceiptsBound
  <2> QED
    BY <1>8, <2>1, <2>2
<1>11. ReceiptsUnique'
  <2> SUFFICES ASSUME NEW i \in DOMAIN receipts', NEW j \in DOMAIN receipts',
                      receipts'[i].key = receipts'[j].key
               PROVE  i = j
    BY DEF ReceiptsUnique
  <2>1. \A k \in DOMAIN receipts : receipts[k].key # key
    BY <1>5, <1>7
  <2>2. CASE i \in DOMAIN receipts /\ j \in DOMAIN receipts
    BY <1>4, <2>2 DEF RecInv, ReceiptsUnique
  <2>3. CASE i = last \/ j = last
    BY <1>2, <1>4, <1>8, <2>1, <2>3
  <2> QED
    BY <1>8, <2>2, <2>3
<1> QED
  BY <1>4, <1>6, <1>9, <1>10, <1>11

\* Steps that leave the receipts and the seen keys alone.
LEMMA UntouchedKeep ==
    ASSUME RecInv, GenInv, [Next]_vars, RecTypeOK', RowsCurrent',
           UNCHANGED <<receipts, seen>>, Loaded' => Loaded
    PROVE  RecInv'
<1>1. ReceiptsSeen'
  BY DEF RecInv, ReceiptsSeen, SeenKeys
<1>2. ReceiptsBound'
  <2> SUFFICES ASSUME NEW i \in DOMAIN receipts
               PROVE  receipts[i].gen = chunk'[receipts[i].key[1]]
    BY DEF RecInv, ReceiptsBound
  <2>1. receipts[i] \in Receipts
    BY DEF RecInv, RecTypeOK
  <2>2. receipts[i].key[1] \in Problems
    BY <2>1 DEF Receipts, Keys
  <2> QED
    BY <2>2, ChunksStay DEF RecInv, ReceiptsBound
<1>3. ReceiptsUnique'
  BY DEF RecInv, ReceiptsUnique
<1> QED
  BY <1>1, <1>2, <1>3 DEF RecInv

\* A generator's step does not take a chunk from under a running verifier.
LEMMA RowsStayCurrent ==
    ASSUME RecInv, GenInv, [Next]_vars, UNCHANGED <<vpc, rows>>
    PROVE  RowsCurrent'
  BY ChunksStay DEF RecInv, RowsCurrent

LEMMA LoadKeeps ==
    ASSUME RecInv, LoadReceipts PROVE RecInv'
<1>1. seen' = {<<receipts[i].key, receipts[i].gen>> : i \in DOMAIN receipts}
  BY DEF LoadReceipts, SeenOnDisk
<1>2. \A i \in DOMAIN receipts : receipts[i].key \in Keys /\ receipts[i].gen \in Nat
  <2>1. \A i \in DOMAIN receipts : receipts[i] \in Receipts
    BY DEF RecInv, RecTypeOK
  <2> QED
    BY <2>1 DEF Receipts
<1>3. SeenKeys' = {receipts[i].key : i \in DOMAIN receipts}
  <2>1. ASSUME NEW k \in SeenKeys'
        PROVE  \E i \in DOMAIN receipts : k = receipts[i].key
    <3>1. PICK t \in seen' : k = t[1]
      BY <2>1 DEF SeenKeys
    <3> QED
      BY <1>1, <3>1
  <2>2. ASSUME NEW i \in DOMAIN receipts PROVE receipts[i].key \in SeenKeys'
    <3>1. <<receipts[i].key, receipts[i].gen>> \in seen'
      BY <1>1
    <3> QED
      BY <3>1 DEF SeenKeys
  <2> QED
    BY <2>1, <2>2
<1>4. RecTypeOK'
  <2>1. 0 \in 0 .. Total
    BY SizesAssumption DEF Total
  <2> QED
    BY <1>1, <1>2, <2>1 DEF LoadReceipts, RecInv, RecTypeOK
<1> QED
  BY <1>3, <1>4
  DEF LoadReceipts, RecInv, RowsCurrent, ReceiptsSeen, ReceiptsBound,
      ReceiptsUnique, genVars

\* The rows are accepted, so every problem has a chunk.
LEMMA ReadRowsKeeps ==
    ASSUME RecInv, GenInv, ReadRows PROVE RecInv'
<1>1. RowsCurrent'
  <2> SUFFICES ASSUME NEW p \in Problems
               PROVE  chunk'[p] # NoChunk /\ rows'[p] = chunk'[p]
    BY DEF RowsCurrent
  <2>1. PICK s \in Shards : p \in PlanShards[s]
    BY ShardsCover
  <2> QED
    BY <2>1 DEF ReadRows, RowsAccepted, genVars
<1>2. RecTypeOK'
  BY DEF ReadRows, RecInv, RecTypeOK, GenInv, GenTypeOK
<1> QED
  BY <1>1, <1>2, UntouchedKeep DEF ReadRows, Loaded, Next, PhaseB

LEMMA RecordRejectedKeeps ==
    ASSUME RecInv, RecordRejected PROVE RecInv'
<1> DEFINE key == KeyAt(position + 1)
<1>1. key \in Keys /\ AppendReceipt(key, FALSE) /\ UNCHANGED <<chunk, rows>>
  BY RejectedAssumption DEF RecordRejected, Record, genVars
<1> HIDE DEF key
<1>2. vpc = "walk" /\ vpc' = vpc /\ position < Total
      /\ position' = position + 1 /\ batch' = batch
  BY DEF RecordRejected
<1>3. /\ receipts' \in Seq(Receipts) /\ seen' \in SUBSET (Keys \X Nat)
      /\ SeenKeys' = {receipts[i].key : i \in DOMAIN receipts}'
      /\ ReceiptsBound' /\ ReceiptsUnique'
  BY <1>1, <1>2, AppendKeeps
<1>4. RecTypeOK'
  BY <1>1, <1>2, <1>3, SizesAssumption DEF RecInv, RecTypeOK, Total
<1> QED
  BY <1>1, <1>2, <1>3, <1>4 DEF RecInv, RowsCurrent, ReceiptsSeen

LEMMA OnResultKeeps ==
    ASSUME RecInv, OnResult PROVE RecInv'
<1>1. PICK key \in batch, ok \in BOOLEAN :
        AppendReceipt(key, ok) /\ batch' = batch \ {key}
  BY DEF OnResult, Record
<1>2. key \in Keys /\ vpc = "check" /\ UNCHANGED <<chunk, rows, vpc, position>>
  BY DEF OnResult, RecInv, RecTypeOK, genVars
<1>3. /\ receipts' \in Seq(Receipts) /\ seen' \in SUBSET (Keys \X Nat)
      /\ SeenKeys' = {receipts[i].key : i \in DOMAIN receipts}'
      /\ ReceiptsBound' /\ ReceiptsUnique'
  BY <1>1, <1>2, AppendKeeps
<1>4. RecTypeOK'
  BY <1>1, <1>2, <1>3 DEF RecInv, RecTypeOK
<1> QED
  BY <1>2, <1>3, <1>4 DEF RecInv, RowsCurrent, ReceiptsSeen

\* A crash inside record(): the line is there, or it is not.
LEMMA CutReceiptKeeps ==
    ASSUME RecInv, CutReceipt PROVE RecInv'
<1>1. vpc' = "down" /\ UNCHANGED <<chunk, rows, batch, position>>
  BY DEF CutReceipt, genVars
<1>2. CASE UNCHANGED <<receipts, seen>>
  BY <1>1, <1>2
  DEF RecInv, RecTypeOK, RowsCurrent, ReceiptsSeen, Loaded, ReceiptsBound,
      ReceiptsUnique
<1>3. CASE \E key \in Keys, ok \in BOOLEAN :
             Recording(key, ok) /\ AppendReceipt(key, ok)
  <2>1. PICK key \in Keys, ok \in BOOLEAN :
          Recording(key, ok) /\ AppendReceipt(key, ok)
    BY <1>3
  <2>2. vpc \in {"walk", "check"}
    BY <2>1 DEF Recording
  <2>3. /\ receipts' \in Seq(Receipts) /\ seen' \in SUBSET (Keys \X Nat)
        /\ ReceiptsBound' /\ ReceiptsUnique'
    BY <1>1, <2>1, <2>2, AppendKeeps
  <2> QED
    BY <1>1, <2>3 DEF RecInv, RecTypeOK, RowsCurrent, ReceiptsSeen, Loaded
<1> QED
  BY <1>2, <1>3 DEF CutReceipt

LEMMA AddToBatchKeeps ==
    ASSUME RecInv, GenInv, AddToBatch PROVE RecInv'
<1>1. /\ UNCHANGED <<receipts, seen, rows, chunk>>
      /\ vpc = "walk" /\ vpc' \in {"walk", "check"}
      /\ position < Total /\ position' = position + 1
      /\ batch' = batch \cup {KeyAt(position + 1)}
  BY DEF AddToBatch, genVars
<1>2. position \in 0 .. Total - 1 /\ position' \in 0 .. Total
  BY <1>1, SizesAssumption DEF RecInv, RecTypeOK, Total
<1>3. RecTypeOK'
  BY <1>1, <1>2, KeysType DEF RecInv, RecTypeOK
<1>4. RowsCurrent'
  BY <1>1 DEF RecInv, RowsCurrent
<1> QED
  BY <1>1, <1>3, <1>4, UntouchedKeep DEF Loaded, Next, PhaseB

\* The other steps touch neither the receipts nor the rows.
LEMMA QuietKeeps ==
    ASSUME RecInv, GenInv, [Next]_vars,
           UNCHANGED <<receipts, seen, rows, batch>>,
           position' = position \/ Skip,
           vpc' \in {"walk", "check"} => vpc \in {"walk", "check"},
           Loaded' => Loaded
    PROVE  RecInv'
<1>1. RecTypeOK'
  <2>1. position' \in 0 .. Total
    BY SizesAssumption DEF Skip, RecInv, RecTypeOK, Total
  <2> QED
    BY <2>1 DEF RecInv, RecTypeOK
<1>2. RowsCurrent'
  BY ChunksStay DEF RecInv, RowsCurrent
<1> QED
  BY <1>1, <1>2, UntouchedKeep

LEMMA RecInvInductive == RecInv /\ GenInv /\ [Next]_vars => RecInv'
<1> SUFFICES ASSUME RecInv, GenInv, [Next]_vars PROVE RecInv'
  OBVIOUS
<1>1. CASE PhaseA \/ AuditGenerations \/ UNCHANGED vars
  <2>1. UNCHANGED <<receipts, seen, rows, batch, position, vpc>>
    BY <1>1
    DEF PhaseA, Generate, GenerateWindow, WriteChunk, CompleteShard,
        KillGenerator, AuditGenerations, vars, verVars
  <2> QED
    BY <2>1, QuietKeeps DEF Loaded
<1>2. CASE StartVerifier \/ Skip \/ WalkEnds \/ RunBatchReturns \/ Summarize
           \/ StopVerifier
  <2>1. UNCHANGED <<receipts, seen, rows, batch>>
    BY <1>2 DEF StartVerifier, Skip, WalkEnds, RunBatchReturns, Summarize,
                StopVerifier
  <2>2. position' = position \/ Skip
    BY <1>2 DEF StartVerifier, WalkEnds, RunBatchReturns, Summarize, StopVerifier
  <2>3. /\ vpc' \in {"walk", "check"} => vpc \in {"walk", "check"}
        /\ Loaded' => Loaded
    BY <1>2 DEF StartVerifier, Skip, WalkEnds, RunBatchReturns, Summarize,
                StopVerifier, Loaded
  <2> QED
    BY <2>1, <2>2, <2>3, QuietKeeps
<1>3. CASE LoadReceipts
  BY <1>3, LoadKeeps
<1>4. CASE ReadRows
  BY <1>4, ReadRowsKeeps
<1>5. CASE RecordRejected
  BY <1>5, RecordRejectedKeeps
<1>6. CASE AddToBatch
  BY <1>6, AddToBatchKeeps
<1>7. CASE OnResult
  BY <1>7, OnResultKeeps
<1>8. CASE CutReceipt
  BY <1>8, CutReceiptKeeps
<1> QED
  BY <1>1, <1>2, <1>3, <1>4, <1>5, <1>6, <1>7, <1>8 DEF Next, PhaseB

LEMMA RecInvInit == Init => RecInv
<1> SUFFICES ASSUME Init PROVE RecInv
  OBVIOUS
<1>1. RecTypeOK
  <2>1. 0 \in 0 .. Total
    BY SizesAssumption DEF Total
  <2> QED
    BY <2>1 DEF Init, RecTypeOK, NoChunk
<1> QED
  BY <1>1
  DEF Init, RecInv, RowsCurrent, ReceiptsSeen, Loaded, ReceiptsBound,
      ReceiptsUnique

\* However the two phases are interrupted and resumed, and wherever a crash cuts
\* a line, no candidate ever gets a second receipt.
THEOREM OneReceiptPerKey == Spec => []ReceiptsUnique
<1>1. RecInv => ReceiptsUnique
  BY DEF RecInv
<1> QED
  BY GenInvInit, GenInvInductive, RecInvInit, RecInvInductive, <1>1, PTL DEF Spec

\* Every receipt is about the chunk that is on disk, although generators may run
\* beside the verifier and after it.
THEOREM ReceiptsFollowChunks == Spec => []ReceiptsMatchChunks
<1>1. RecInv => ReceiptsMatchChunks
  BY DEF RecInv, ReceiptsBound, ReceiptsMatchChunks
<1> QED
  BY GenInvInit, GenInvInductive, RecInvInit, RecInvInductive, <1>1, PTL DEF Spec

-----------------------------------------------------------------------------
(* The two phases implement the receipt log.                               *)

Verdicts == {<<receipts[i].key, receipts[i].ok>> : i \in DOMAIN receipts}

\* What a run counted is what its receipts say, and it sums up only when every
\* key has been seen.
CountInv ==
    /\ Loaded => counts = CountsOnDisk
    /\ vpc = "summary" => Cardinality(SeenKeys) = Total

LEMMA LinesFinite ==
    ASSUME RecInv, NEW ok \in BOOLEAN
    PROVE  IsFiniteSet(Lines(ok)) /\ Cardinality(Lines(ok)) \in Nat
<1>1. Len(receipts) \in Nat /\ DOMAIN receipts = 1 .. Len(receipts)
  BY DEF RecInv, RecTypeOK
<1>2. IsFiniteSet(DOMAIN receipts)
  BY <1>1, FS_Interval
<1>3. IsFiniteSet(Lines(ok))
  BY <1>2, FS_Subset DEF Lines
<1> QED
  BY <1>3, FS_CardinalityType

\* One receipt more is one count more.
LEMMA AppendCounts ==
    ASSUME RecInv, counts = CountsOnDisk, NEW key, NEW ok \in BOOLEAN,
           AppendReceipt(key, ok)
    PROVE  counts' = CountsOnDisk'
<1> DEFINE line == [key |-> key, gen |-> rows[key[1]], ok |-> ok]
           last == Len(receipts) + 1
<1>1. receipts \in Seq(Receipts) /\ receipts' = Append(receipts, line) /\ line.ok = ok
  BY DEF RecInv, RecTypeOK, AppendReceipt
<1> HIDE DEF line
<1>2. /\ DOMAIN receipts' = DOMAIN receipts \cup {last}
      /\ last \notin DOMAIN receipts /\ receipts'[last] = line
      /\ \A i \in DOMAIN receipts : receipts'[i] = receipts[i]
  BY <1>1
<1> HIDE DEF last
<1>3. Lines(ok)' = Lines(ok) \cup {last} /\ last \notin Lines(ok)
  BY <1>1, <1>2 DEF Lines
<1>4. Lines(~ok)' = Lines(~ok)
  BY <1>1, <1>2 DEF Lines
<1>5. Cardinality(Lines(ok)') = Cardinality(Lines(ok)) + 1
  BY <1>3, LinesFinite, FS_AddElement
<1>6. CASE ok = TRUE
  <2>1. counts' = [counts EXCEPT !.successes = @ + 1]
    BY <1>6 DEF AppendReceipt
  <2> QED
    BY <1>4, <1>5, <1>6, <2>1 DEF CountsOnDisk
<1>7. CASE ok = FALSE
  <2>1. counts' = [counts EXCEPT !.failures = @ + 1]
    BY <1>7 DEF AppendReceipt
  <2> QED
    BY <1>4, <1>5, <1>7, <2>1 DEF CountsOnDisk
<1> QED
  BY <1>6, <1>7

LEMMA CountInvInductive == RecInv /\ CountInv /\ [Next]_vars => CountInv'
<1> SUFFICES ASSUME RecInv, CountInv, [Next]_vars PROVE CountInv'
  OBVIOUS
<1>1. CASE UNCHANGED <<receipts, seen, counts>> /\ (Loaded' => Loaded)
           /\ (vpc' = "summary" => vpc = "summary")
  BY <1>1 DEF CountInv, CountsOnDisk, Lines, SeenKeys
<1>2. CASE LoadReceipts
  BY <1>2 DEF LoadReceipts, CountInv, CountsOnDisk, Lines
<1>3. CASE WalkEnds
  BY <1>3 DEF WalkEnds, CountInv, Loaded, CountsOnDisk, Lines, SeenKeys
<1>4. CASE CutReceipt
  BY <1>4 DEF CutReceipt, CountInv, Loaded
<1>5. CASE RecordRejected \/ OnResult
  <2>1. vpc \in {"walk", "check"} /\ vpc' = vpc
    BY <1>5 DEF RecordRejected, OnResult
  <2>2. \E key : \E ok \in BOOLEAN : AppendReceipt(key, ok)
    BY <1>5 DEF RecordRejected, OnResult, Record
  <2>3. counts' = CountsOnDisk'
    BY <2>1, <2>2, AppendCounts DEF CountInv, Loaded
  <2> QED
    BY <2>1, <2>3 DEF CountInv
<1>6. CASE PhaseA \/ AuditGenerations \/ UNCHANGED vars
  <2>1. UNCHANGED <<receipts, seen, counts, vpc>>
    BY <1>6
    DEF PhaseA, Generate, GenerateWindow, WriteChunk, CompleteShard,
        KillGenerator, AuditGenerations, vars, verVars
  <2> QED
    BY <1>1, <2>1 DEF Loaded
<1>7. CASE StartVerifier \/ ReadRows \/ Skip \/ AddToBatch \/ RunBatchReturns
           \/ Summarize \/ StopVerifier
  <2>1. UNCHANGED <<receipts, seen, counts>>
    BY <1>7 DEF StartVerifier, ReadRows, Skip, AddToBatch, RunBatchReturns,
                Summarize, StopVerifier
  <2>2. (Loaded' => Loaded) /\ (vpc' = "summary" => vpc = "summary")
    BY <1>7 DEF StartVerifier, ReadRows, Skip, AddToBatch, RunBatchReturns,
                Summarize, StopVerifier, Loaded
  <2> QED
    BY <1>1, <2>1, <2>2
<1> QED
  BY <1>2, <1>3, <1>4, <1>5, <1>6, <1>7 DEF Next, PhaseB

\* As many verdicts as receipts: no key has two.
LEMMA CountVerdicts ==
    ASSUME RecInv, NEW ok \in BOOLEAN
    PROVE  Cardinality({v \in Verdicts : v[2] = ok}) = Cardinality(Lines(ok))
<1> DEFINE T == {v \in Verdicts : v[2] = ok}
           f == [i \in Lines(ok) |-> <<receipts[i].key, receipts[i].ok>>]
<1>1. \A i \in Lines(ok) : i \in DOMAIN receipts /\ receipts[i].ok = ok
  BY DEF Lines
<1>2. f \in [Lines(ok) -> T]
  <2>1. ASSUME NEW i \in Lines(ok) PROVE <<receipts[i].key, receipts[i].ok>> \in T
    BY <1>1 DEF Verdicts
  <2> QED
    BY <2>1
<1>3. ASSUME NEW i \in Lines(ok), NEW j \in Lines(ok), f[i] = f[j] PROVE i = j
  <2>1. receipts[i].key = receipts[j].key
    BY <1>3
  <2> QED
    BY <1>1, <2>1 DEF RecInv, ReceiptsUnique
<1>4. ASSUME NEW v \in T PROVE \E i \in Lines(ok) : f[i] = v
  <2>1. PICK i \in DOMAIN receipts : v = <<receipts[i].key, receipts[i].ok>>
    BY DEF Verdicts
  <2>2. i \in Lines(ok)
    BY <2>1 DEF Lines
  <2> QED
    BY <2>1, <2>2
<1>5. f \in Injection(Lines(ok), T)
  BY <1>2, <1>3 DEF Injection, IsInjective
<1>6. f \in Surjection(Lines(ok), T)
  BY <1>2, <1>4 DEF Surjection
<1>7. ExistsBijection(Lines(ok), T)
  BY <1>5, <1>6 DEF ExistsBijection, Bijection
<1> QED
  BY <1>7, LinesFinite, FS_Bijection

LEMMA KeysFinite == IsFiniteSet(Keys) /\ Cardinality(Keys) = Total
<1>1. /\ ProblemCount \in Nat /\ ProblemCount > 0
      /\ PassK \in Nat /\ PassK > 0
  BY SizesAssumption
<1>2. IsFiniteSet(Problems) /\ Cardinality(Problems) = ProblemCount
  BY <1>1, FS_Interval DEF Problems
<1>3. IsFiniteSet(Attempts) /\ Cardinality(Attempts) = PassK
  BY <1>1, FS_Interval DEF Attempts
<1> QED
  BY <1>2, <1>3, FS_Product DEF Keys, Total

LEMMA AppendDecides ==
    ASSUME RecInv, vpc \in {"walk", "check"}, summary' = summary,
           NEW key \in Keys, NEW ok \in BOOLEAN, AppendReceipt(key, ok)
    PROVE  Log!Decide(key, ok)
<1> DEFINE line == [key |-> key, gen |-> rows[key[1]], ok |-> ok]
           last == Len(receipts) + 1
<1>1. /\ receipts \in Seq(Receipts) /\ receipts' = Append(receipts, line)
      /\ line.ok = ok /\ line.key = key
  BY DEF RecInv, RecTypeOK, AppendReceipt
<1> HIDE DEF line
<1>2. /\ DOMAIN receipts' = DOMAIN receipts \cup {last}
      /\ last \notin DOMAIN receipts /\ receipts'[last] = line
      /\ \A i \in DOMAIN receipts : receipts'[i] = receipts[i]
  BY <1>1
<1> HIDE DEF last
<1>3. Verdicts' = Verdicts \cup {<<key, ok>>}
  <2>1. ASSUME NEW v \in Verdicts' PROVE v \in Verdicts \cup {<<key, ok>>}
    <3>1. PICK i \in DOMAIN receipts' : v = <<receipts'[i].key, receipts'[i].ok>>
      BY <2>1 DEF Verdicts
    <3> QED
      BY <1>1, <1>2, <3>1 DEF Verdicts
  <2>2. ASSUME NEW v \in Verdicts PROVE v \in Verdicts'
    <3>1. PICK i \in DOMAIN receipts : v = <<receipts[i].key, receipts[i].ok>>
      BY <2>2 DEF Verdicts
    <3>2. i \in DOMAIN receipts' /\ v = <<receipts'[i].key, receipts'[i].ok>>
      BY <1>2, <3>1
    <3> QED
      BY <3>2 DEF Verdicts
  <2>3. <<key, ok>> \in Verdicts'
    <3>1. /\ last \in DOMAIN receipts'
          /\ <<key, ok>> = <<receipts'[last].key, receipts'[last].ok>>
      BY <1>1, <1>2
    <3> QED
      BY <3>1 DEF Verdicts
  <2> QED
    BY <2>1, <2>2, <2>3
<1>4. key \notin {v[1] : v \in Verdicts}
  <2>1. \A i \in DOMAIN receipts : receipts[i].key # key
    BY DEF AppendReceipt, RecInv, ReceiptsSeen, Loaded
  <2> QED
    BY <2>1 DEF Verdicts
<1> QED
  BY <1>3, <1>4 DEF Log!Decide, Log!Decided, Verdicts

\* The cardinality of the abstract specification is that of FiniteSets.
LEMMA SameCardinality ==
    ASSUME NEW S PROVE Log!Cardinality(S) = Cardinality(S)
  BY DEF Log!Cardinality, Cardinality

LEMMA SummarizePublishes ==
    ASSUME RecInv, CountInv, Summarize PROVE Log!Publish
<1>1. SeenKeys = Keys
  <2>1. SeenKeys \in SUBSET Keys
    BY DEF RecInv, RecTypeOK, SeenKeys
  <2>2. Cardinality(SeenKeys) = Total
    BY DEF Summarize, CountInv
  <2> QED
    BY <2>1, <2>2, KeysFinite, FS_Subset
<1>2. SeenKeys = {receipts[i].key : i \in DOMAIN receipts}
  BY DEF Summarize, RecInv, ReceiptsSeen, Loaded
<1>3. {v[1] : v \in Verdicts} = {receipts[i].key : i \in DOMAIN receipts}
  <2>1. ASSUME NEW v \in Verdicts
        PROVE  v[1] \in {receipts[i].key : i \in DOMAIN receipts}
    BY DEF Verdicts
  <2>2. ASSUME NEW i \in DOMAIN receipts
        PROVE  \E v \in Verdicts : receipts[i].key = v[1]
    <3>1. <<receipts[i].key, receipts[i].ok>> \in Verdicts
      BY DEF Verdicts
    <3> QED
      BY <3>1
  <2> QED
    BY <2>1, <2>2
<1>4. summary' = [successes |-> Cardinality({v \in Verdicts : v[2] = TRUE}),
                  failures |-> Cardinality({v \in Verdicts : v[2] = FALSE})]
  BY CountVerdicts DEF Summarize, CountInv, Loaded, CountsOnDisk
<1>5. Verdicts' = Verdicts
  BY DEF Summarize, Verdicts
<1>6. Log!Decided = Keys
  BY <1>1, <1>2, <1>3 DEF Log!Decided, Verdicts
<1>7. \A ok : Log!Counted(ok) = Cardinality({v \in Verdicts : v[2] = ok})
  BY SameCardinality DEF Log!Counted, Verdicts
<1>8. summary' = [successes |-> Log!Counted(TRUE), failures |-> Log!Counted(FALSE)]
  BY <1>4, <1>7
<1> QED
  BY <1>5, <1>6, <1>8 DEF Log!Publish, Verdicts

LEMMA StepsImplement ==
    RecInv /\ CountInv /\ [Next]_vars => [Log!Next]_(Log!vars)
<1> SUFFICES ASSUME RecInv, CountInv, [Next]_vars PROVE [Log!Next]_(Log!vars)
  OBVIOUS
<1>1. CASE UNCHANGED <<receipts, summary>>
  BY <1>1 DEF Log!vars
<1>2. CASE Summarize
  BY <1>2, SummarizePublishes DEF Log!Next
<1>3. CASE \E key \in Keys, ok \in BOOLEAN : vpc \in {"walk", "check"}
             /\ AppendReceipt(key, ok) /\ summary' = summary
  BY <1>3, AppendDecides DEF Log!Next
<1>4. CASE RecordRejected
  BY <1>3, <1>4, RejectedAssumption DEF RecordRejected, Record
<1>5. CASE OnResult
  BY <1>3, <1>5 DEF OnResult, Record, RecInv, RecTypeOK
<1>6. CASE CutReceipt
  <2>1. CASE UNCHANGED receipts
    BY <1>1, <1>6, <2>1 DEF CutReceipt
  <2>2. CASE \E key \in Keys, ok \in BOOLEAN :
               Recording(key, ok) /\ AppendReceipt(key, ok)
    BY <1>3, <1>6, <2>2 DEF CutReceipt, Recording
  <2> QED
    BY <1>6, <2>1, <2>2 DEF CutReceipt
<1> QED
  BY <1>1, <1>2, <1>4, <1>5, <1>6
  DEF Next, PhaseA, Generate, GenerateWindow, WriteChunk, CompleteShard,
      KillGenerator, AuditGenerations, PhaseB, StartVerifier, LoadReceipts,
      ReadRows, Skip, AddToBatch, WalkEnds, RunBatchReturns, StopVerifier, vars,
      verVars

\* However often the phases are interrupted, every candidate gets one verdict, none
\* is lost or changed, and the summary counts exactly the verdicts on disk.
THEOREM ImplementsReceiptLog == Spec => OneVerdictEach
<1>1. Init => Log!Init
  BY DEF Init, Log!Init
<1>2. Init => CountInv
  BY DEF Init, CountInv, Loaded
<1> QED
  BY <1>1, <1>2, GenInvInit, GenInvInductive, RecInvInit, RecInvInductive,
     CountInvInductive, StepsImplement, PTL
  DEF Spec, OneVerdictEach, Log!Spec
-----------------------------------------------------------------------------
(* What the other two invariants leave open of the types: the bounds of the *)
(* runs, of the windows a generator holds in memory, and the counts.        *)

AuditType == audited \in BOOLEAN
GenBounds ==
    /\ \A s \in Shards : genRun[s] <= MaxRuns
    /\ window \in [Shards -> 0 .. QueueDepth]
VerBounds ==
    /\ tail \in {"ended", "unended", "cut", "joined"}
    /\ vpc \in {"down", "load", "rows", "walk", "check", "summary"}
    /\ verRun \in 0 .. MaxRuns
    /\ cuts \in 0 .. MaxCuts
    /\ counts \in Counts /\ summary \in Counts

LEMMA WindowBounded ==
    ASSUME GenInv, NEW s \in Shards
    PROVE  NextWindow(s) \in 0 .. QueueDepth
<1>1. QueueDepth \in Nat /\ ProblemCount \in Nat
  BY SizesAssumption
<1>2. IsFiniteSet(Problems)
  BY <1>1, FS_Interval DEF Problems
<1>3. pending[s] \in SUBSET Problems
  BY DEF GenInv, GenTypeOK
<1>4. Cardinality(pending[s]) \in Nat
  BY <1>2, <1>3, FS_Subset, FS_CardinalityType
<1> QED
  BY <1>1, <1>4 DEF NextWindow

LEMMA GenBoundsInductive == GenInv /\ GenBounds /\ [Next]_vars => GenBounds'
<1> SUFFICES ASSUME GenInv, GenBounds, [Next]_vars PROVE GenBounds'
  OBVIOUS
<1> USE SizesAssumption
<1>1. ASSUME NEW s \in Shards, Generate(s) PROVE GenBounds'
  <2>1. genRun[s] + 1 <= MaxRuns
    BY <1>1 DEF Generate, GenInv, GenTypeOK
  <2> QED
    BY <1>1, <2>1 DEF Generate, GenBounds, GenInv, GenTypeOK
<1>2. ASSUME NEW s \in Shards, GenerateWindow(s) PROVE GenBounds'
  BY <1>2, WindowBounded DEF GenerateWindow, GenBounds
<1>3. ASSUME NEW s \in Shards, WriteChunk(s) PROVE GenBounds'
  <2>1. window[s] - 1 \in 0 .. QueueDepth
    BY <1>3 DEF WriteChunk, GenBounds
  <2>2. window' = [window EXCEPT ![s] = @ - 1] /\ genRun' = genRun
    BY <1>3 DEF WriteChunk
  <2> QED
    BY <2>1, <2>2 DEF GenBounds
<1>4. CASE UNCHANGED <<genRun, window>>
  BY <1>4 DEF GenBounds
<1>5. ASSUME NEW s \in Shards, CompleteShard(s) \/ KillGenerator(s)
      PROVE  UNCHANGED <<genRun, window>>
  BY <1>5 DEF CompleteShard, KillGenerator
<1>6. CASE AuditGenerations \/ PhaseB \/ UNCHANGED vars
  BY <1>4, <1>6
  DEF AuditGenerations, PhaseB, StartVerifier, LoadReceipts, ReadRows, Skip,
      RecordRejected, AddToBatch, WalkEnds, OnResult, RunBatchReturns,
      Summarize, StopVerifier, CutReceipt, vars, genVars
<1> QED
  BY <1>1, <1>2, <1>3, <1>4, <1>5, <1>6 DEF Next, PhaseA

\* A receipt more or less, and what a run loads, keep the counts numbers.
LEMMA CountsStay ==
    ASSUME RecInv, counts \in Counts, [Next]_vars PROVE counts' \in Counts
<1>1. CASE UNCHANGED counts
  BY <1>1
<1>2. CASE \E key : \E ok \in BOOLEAN : AppendReceipt(key, ok)
  BY <1>2 DEF AppendReceipt, Counts
<1>3. CASE LoadReceipts
  BY <1>3, LinesFinite DEF LoadReceipts, CountsOnDisk, Counts
<1>4. CASE PhaseA \/ AuditGenerations \/ UNCHANGED vars
  BY <1>1, <1>4
  DEF PhaseA, Generate, GenerateWindow, WriteChunk, CompleteShard,
      KillGenerator, AuditGenerations, vars, verVars
<1>5. CASE RecordRejected \/ OnResult \/ CutReceipt
  BY <1>1, <1>2, <1>5 DEF RecordRejected, OnResult, Record, CutReceipt
<1>6. CASE StartVerifier \/ ReadRows \/ Skip \/ AddToBatch \/ WalkEnds
           \/ RunBatchReturns \/ Summarize \/ StopVerifier
  BY <1>1, <1>6 DEF StartVerifier, ReadRows, Skip, AddToBatch, WalkEnds,
                    RunBatchReturns, Summarize, StopVerifier
<1> QED
  BY <1>3, <1>4, <1>5, <1>6 DEF Next, PhaseB

LEMMA VerBoundsInductive == RecInv /\ VerBounds /\ [Next]_vars => VerBounds'
<1> SUFFICES ASSUME RecInv, VerBounds, [Next]_vars PROVE VerBounds'
  OBVIOUS
<1> USE SizesAssumption
<1>1. counts' \in Counts
  BY CountsStay DEF VerBounds
<1>2. CASE PhaseA \/ AuditGenerations \/ UNCHANGED vars
  BY <1>1, <1>2
  DEF PhaseA, Generate, GenerateWindow, WriteChunk, CompleteShard,
      KillGenerator, AuditGenerations, vars, verVars, VerBounds
<1>3. CASE StartVerifier \/ LoadReceipts \/ ReadRows \/ Skip
  BY <1>1, <1>3
  DEF StartVerifier, LoadReceipts, ReadRows, Skip, VerBounds
<1>4. CASE RecordRejected \/ OnResult
  BY <1>1, <1>4 DEF RecordRejected, OnResult, Record, VerBounds
<1>5. CASE AddToBatch \/ WalkEnds \/ RunBatchReturns \/ Summarize
           \/ StopVerifier
  BY <1>1, <1>5
  DEF AddToBatch, WalkEnds, RunBatchReturns, Summarize, StopVerifier, VerBounds
<1>6. CASE CutReceipt
  BY <1>1, <1>6 DEF CutReceipt, VerBounds
<1> QED
  BY <1>2, <1>3, <1>4, <1>5, <1>6 DEF Next, PhaseB

LEMMA AuditTypeInductive == AuditType /\ [Next]_vars => AuditType'
<1> SUFFICES ASSUME AuditType, [Next]_vars PROVE AuditType'
  OBVIOUS
<1>1. audited' = audited \/ audited' = TRUE
  BY DEF Next, PhaseA, Generate, GenerateWindow, WriteChunk, CompleteShard,
      KillGenerator, AuditGenerations, PhaseB, StartVerifier, LoadReceipts,
      ReadRows, Skip, RecordRejected, AddToBatch, WalkEnds, OnResult,
      RunBatchReturns, Summarize, StopVerifier, CutReceipt, vars, verVars
<1> QED
  BY <1>1 DEF AuditType

LEMMA BoundsInit == Init => GenBounds /\ VerBounds /\ AuditType
<1> USE SizesAssumption
<1>1. Init => GenBounds
  BY DEF Init, GenBounds
<1>2. Init => VerBounds
  BY DEF Init, VerBounds, Counts, NoSummary
<1>3. Init => AuditType
  BY DEF Init, AuditType
<1> QED
  BY <1>1, <1>2, <1>3

LEMMA TypesFollow ==
    GenInv /\ RecInv /\ GenBounds /\ VerBounds /\ AuditType => TypeOK
<1> SUFFICES ASSUME GenInv, RecInv, GenBounds, VerBounds, AuditType PROVE TypeOK
  OBVIOUS
<1>1. genRun \in [Shards -> 0 .. MaxRuns]
  BY SizesAssumption DEF GenInv, GenTypeOK, GenBounds
<1>2. position \in 0 .. Cardinality(Keys)
  BY KeysFinite DEF RecInv, RecTypeOK
<1>3. audited \in BOOLEAN
  BY DEF AuditType
<1> QED
  BY <1>1, <1>2, <1>3 DEF TypeOK, GenInv, GenTypeOK, RecInv, RecTypeOK,
                          GenBounds, VerBounds

\* The files and both phases' books keep their types; in particular a generator
\* never holds more than generation_queue_depth problems that are not on disk, and
\* the verifier's walk never passes the last candidate.
THEOREM FilesWellTyped == Spec => []TypeOK
  BY GenInvInit, GenInvInductive, RecInvInit, RecInvInductive, BoundsInit,
     GenBoundsInductive, VerBoundsInductive, AuditTypeInductive, TypesFollow,
     PTL DEF Spec
===============================================================================

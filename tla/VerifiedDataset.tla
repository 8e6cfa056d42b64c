--------------------------- MODULE VerifiedDataset ---------------------------
(***************************************************************************)
(* verified_builder.py: raw tactic rows are grouped into records, every    *)
(* record is verified once by the pool, the results are kept in            *)
(* verification_results.jsonl, and the verified records are divided into   *)
(* train, eval and discovery.  The build may die anywhere and is run       *)
(* again; between two runs the toolchain or the parquet may change.        *)
(*                                                                         *)
(* sft_pipeline/trainer.py then trains one epoch over train.jsonl.         *)
(*                                                                         *)
(* A record is [id, stmt, proof, reason]; its content, what Lean sees, is  *)
(* <<stmt, proof>>.                                                        *)
(***************************************************************************)
EXTENDS Integers, Sequences, SequencesExt

CONSTANTS
    Revisions,     \* what the parquet may hold: sequences of raw rows
    Envs,          \* environment hashes
    Compiles(_, _),\* Compiles(content, env): the truth the pool reports
    Assembles(_),  \* build_labeled_lean_code does not raise
    Fits(_),       \* prompt and proof fit max_seq_length
    Signature(_),  \* tactic_signature of a proof
    MaxIdentical,  \* max_identical_proof_occurrences
    TrainSize, EvalSize, DiscoverySize,
    WorldSize, BatchSize,
    MaxCrashes, MaxChanges  \* bounds

ASSUME DatasetAssumption ==
    /\ {MaxIdentical, WorldSize, BatchSize} \subseteq Nat \ {0}
    /\ {TrainSize, EvalSize, DiscoverySize, MaxCrashes, MaxChanges} \subseteq Nat
    /\ Revisions \subseteq Seq([id : STRING, status : STRING, stmt : STRING,
                                tactic : STRING, before : STRING, after : STRING])

VARIABLES
    parquet, env,  \* the source and the toolchain of this run
    results, torn, \* lines of verification_results.jsonl; its last one is cut
    pc,            \* "down", "verify", "write", "failed" (raised), "done"
    pending,       \* records whose task is in the pool
    outputs,       \* contents of the files this run writes
    files,         \* file name -> its rows
    left,          \* files still to be written
    sft, perm, trained,  \* the trainer, its permutation, the rows each step took
    crashes, changes
build == <<results, torn, pc, pending, outputs, files, left>>
training == <<sft, perm, trained>>
vars == <<parquet, env, build, training, crashes, changes>>

------------------------------------------------------------------------------
(* Records                                                                 *)

Content(r) == <<r.stmt, r.proof>>

\* reconstruct_lean_workbook_records: consecutive rows of one id
Record(t) ==
    [id |-> t[1].id, stmt |-> t[1].stmt, proof |-> [i \in DOMAIN t |-> t[i].tactic],
     reason |->
        IF \E i \in DOMAIN t : t[i].status # "proved" THEN "source_status"
        ELSE IF \/ \E i \in DOMAIN t : i > 1 /\ t[i - 1].after # t[i].before
                \/ t[Len(t)].after # "no goals"
                \/ \E i \in DOMAIN t : t[i].stmt # t[1].stmt
          THEN "source_extraction_corruption" ELSE "none"]

Starts(rows) == {i \in DOMAIN rows : i = 1 \/ rows[i - 1].id # rows[i].id}
Trajectory(rows, i) ==
    LET next == {j \in Starts(rows) : j > i}
    IN SubSeq(rows, i, IF next = {} THEN Len(rows) ELSE Min(next) - 1)
Reconstructed(rows) == [i \in Starts(rows) |-> Record(Trajectory(rows, i))]

\* _deduplicate_statements
Duplicate(rs, k) ==
    \E j \in DOMAIN rs : j < k /\ rs[j].reason = "none" /\ rs[j].stmt = rs[k].stmt
Unique(rs) == {k \in DOMAIN rs : rs[k].reason = "none" /\ ~ Duplicate(rs, k)}
CandidatesOf(rows) ==
    LET rs == Reconstructed(rows) IN {rs[k] : k \in Unique(rs)}
Candidates == CandidatesOf(parquet)

------------------------------------------------------------------------------
(* Verification                                                            *)

\* Mutant of Existing: the filter on the environment is dropped.
ExistingAnyEnv == results
\* the results a run keeps: those of its environment
Existing == {row \in results : row.env = env}

\* Mutant of ToVerify: a run starts over.
VerifyAll == Candidates
ToVerify == {r \in Candidates : \A row \in Existing : row.id # r.id}

Result(r, ok) == [id |-> r.id, env |-> env, of |-> Content(r), ok |-> ok]

Begin ==
    /\ pc \in {"down", "failed", "done"} /\ sft = "idle"  \* one training run ends a behaviour
    /\ ~ torn  \* read_jsonl
    /\ pc' = "verify"
    /\ pending' = {r \in ToVerify : Assembles(Content(r))}
    /\ results' = results \cup {Result(r, FALSE) : r \in ToVerify \ pending'}
    /\ UNCHANGED <<parquet, env, torn, outputs, files, left, training, crashes, changes>>

\* persist: the pool answers in any order; a timeout is a failure for good
Persist(r, ok) ==
    /\ pc = "verify" /\ r \in pending
    /\ ok => Compiles(Content(r), env)
    /\ results' = results \cup {Result(r, ok)}
    /\ pending' = pending \ {r}
    /\ UNCHANGED <<parquet, env, torn, pc, outputs, files, left, training, crashes, changes>>

PoolFails ==
    /\ pc = "verify" /\ pending # {}
    /\ pc' = "failed" /\ pending' = {}
    /\ UNCHANGED <<parquet, env, results, torn, outputs, files, left, training, crashes, changes>>

------------------------------------------------------------------------------
(* Selection                                                               *)

Succeeded(r) == \E row \in Existing : row.id = r.id /\ row.ok
\* _attest: the row keeps the hash of the source its result was computed for
Attest(r) ==
    [id |-> r.id, stmt |-> r.stmt, proof |-> r.proof, env |-> env,
     attested |-> (CHOOSE row \in Existing : row.id = r.id).of]
Verified == {Attest(r) : r \in {r \in Candidates : Succeeded(r)}}

\* Mutant of Quarantined: the repeated statements are not added to it.
QuarantinedWithoutRepeated ==
    LET rs == Reconstructed(parquet) IN
    {rs[k].id : k \in {k \in DOMAIN rs : rs[k].reason # "none"}}
      \cup {r.id : r \in {r \in Candidates : ~ Succeeded(r)}}

Quarantined ==
    LET rs == Reconstructed(parquet) IN
    {rs[k].id : k \in DOMAIN rs \ Unique(rs)}
      \cup {r.id : r \in {r \in Candidates : ~ Succeeded(r)}}

\* _filter_sft_length
Eligible == {v \in Verified : Fits(Content(v))}
Single == {v \in Eligible : Len(Signature(v.proof)) <= 1}

\* balanced_take: rounds over the signatures until `required` are taken or no
\* bucket yields; a proof is taken at most MaxIdentical times.
OfProof(S, p) == {v \in S : v.proof = p}
OfSignature(S, g) == {v \in S : Signature(v.proof) = g}
Capacity(S) ==
    MapThenSumSet(LAMBDA p : Min({MaxIdentical, Cardinality(OfProof(S, p))}),
                  {v.proof : v \in S})
Taken(S, required) ==
    {T \in SUBSET S :
        /\ Cardinality(T) = Min({required, Capacity(S)})
        /\ \A v \in T : Cardinality(OfProof(T, v.proof)) <= MaxIdentical
        /\ \A g, h \in {Signature(v.proof) : v \in S} :
              LET n(x) == Cardinality(OfSignature(T, x)) IN
              n(g) + 1 < n(h) => n(g) = Capacity(OfSignature(S, g))}

\* _select_balanced_train: several-tactic proofs first, then single ones; it
\* raises, here no selection, when the policy cannot be met.
TrainCount == Min({TrainSize, Cardinality(Eligible)})
SingleLimit == (TrainCount * 40) \div 100
TrainSelections ==
    LET multi == Taken(Eligible \ Single, TrainCount - SingleLimit)
        both == UNION {{m \cup s : s \in Taken(Single, TrainCount - Cardinality(m))}
                         : m \in multi}
    IN  {t \in both : /\ Cardinality(t) = TrainCount
                      /\ Cardinality(t \cap Single) <= SingleLimit}

Rest(train) == Eligible \ train

\* the slices of a shuffled sequence
Slices(S, n) == {T \in SUBSET S : Cardinality(T) = Min({n, Cardinality(S)})}
Selections ==
    UNION {UNION {{[train |-> t, eval |-> e, discovery |-> d]
                     : d \in Slices(Rest(t) \ e, DiscoverySize)}
                  : e \in Slices(Rest(t), EvalSize)}
           : t \in TrainSelections}

Audit == [verified |-> Verified, quarantined |-> Quarantined]
AuditFiles == <<"verified", "quarantined">>
RoleFiles == <<"train", "eval", "discovery">>

Select ==
    /\ pc = "verify" /\ pending = {}
    /\ IF Selections = {}
         THEN outputs' = Audit /\ left' = AuditFiles
         ELSE /\ \E s \in Selections :
                   outputs' = [f \in DOMAIN Audit \cup DOMAIN s |->
                                 IF f \in DOMAIN s THEN s[f] ELSE Audit[f]]
              /\ left' = AuditFiles \o RoleFiles
    /\ pc' = "write"
    /\ UNCHANGED <<parquet, env, results, torn, pending, files, training, crashes, changes>>

------------------------------------------------------------------------------
(* Files                                                                   *)

Nothing == [f \in {} |-> {}]
Put(f, rows, t) ==
    files' = [g \in DOMAIN files \cup {f} |->
                IF g = f THEN [rows |-> rows, torn |-> t] ELSE files[g]]

\* write_jsonl opens the file anew
WriteFile ==
    /\ pc = "write" /\ left # <<>>
    /\ Put(Head(left), outputs[Head(left)], FALSE)
    /\ left' = Tail(left)
    /\ UNCHANGED <<parquet, env, results, torn, pc, pending, outputs, training,
                   crashes, changes>>

EndBuild ==
    /\ pc = "write" /\ left = <<>>
    /\ pc' = IF "train" \in DOMAIN outputs THEN "done" ELSE "failed"
    /\ outputs' = Nothing
    /\ UNCHANGED <<parquet, env, results, torn, pending, files, left, training,
                   crashes, changes>>

\* The process dies: the line of append_jsonl, or the file of write_jsonl, is
\* cut at a row or inside one.
Crash ==
    /\ pc \in {"verify", "write"} /\ crashes < MaxCrashes
    /\ crashes' = crashes + 1 /\ pc' = "down" /\ pending' = {} /\ left' = <<>>
    /\ outputs' = Nothing
    /\ torn' \in IF pending = {} THEN {torn} ELSE BOOLEAN
    /\ IF left = <<>> THEN UNCHANGED files
         ELSE \/ \E part \in SUBSET outputs[Head(left)] : Put(Head(left), part, FALSE)
              \/ Put(Head(left), {}, TRUE)
    /\ UNCHANGED <<parquet, env, results, training, changes>>

\* between runs: another toolchain, another revision of the dataset, of which
\* no build is done
Change ==
    /\ pc \in {"down", "failed", "done"} /\ sft = "idle" /\ changes < MaxChanges
    /\ changes' = changes + 1 /\ pc' = "down"
    /\ env' \in Envs /\ parquet' \in Revisions
    /\ UNCHANGED <<results, torn, pending, outputs, files, left, training, crashes>>

------------------------------------------------------------------------------
(* SFT: trainer.py over train.jsonl, FixedManifestSampler                  *)

CeilDiv(n, d) == (n + d - 1) \div d
Ranks == 0 .. WorldSize - 1

\* Mutant of Shardable: any number of microbatches is taken.
ShardableAny(n) == n > 0
\* validate_no_duplicate_train_sharding
Shardable(n) == WorldSize = 1 \/ CeilDiv(n, BatchSize) % WorldSize = 0

\* validate_pantograph_attestation: every row is bound to its hash by its
\* attestation id, and all name one environment
Attested(rows) == Cardinality({v.env : v \in rows}) = 1

StartTraining ==
    /\ pc \in {"down", "failed", "done"} /\ sft = "idle"
    /\ "train" \in DOMAIN files /\ ~ files["train"].torn
    /\ LET rows == files["train"].rows IN
       /\ rows # {} /\ Shardable(Cardinality(rows)) /\ Attested(rows)
       /\ perm' \in SetToSeqs(rows)
    /\ sft' = "training" /\ trained' = <<>>
    /\ UNCHANGED <<parquet, env, build, crashes, changes>>

\* microbatch k of the epoch goes to rank k % WorldSize
Batch(k) == SubSeq(perm, k * BatchSize + 1, Min({(k + 1) * BatchSize, Len(perm)}))
TrainStep ==
    /\ sft = "training"
    /\ LET k == Len(trained) * WorldSize IN
       IF k * BatchSize < Len(perm)
         THEN trained' = Append(trained, [r \in Ranks |-> Batch(k + r)]) /\ UNCHANGED sft
         ELSE sft' = "saved" /\ UNCHANGED trained
    /\ UNCHANGED <<parquet, env, build, perm, crashes, changes>>

------------------------------------------------------------------------------
Init ==
    /\ parquet \in Revisions /\ env \in Envs
    /\ results = {} /\ torn = FALSE /\ pc = "down" /\ pending = {}
    /\ outputs = Nothing /\ files = Nothing /\ left = <<>>
    /\ sft = "idle" /\ perm = <<>> /\ trained = <<>>
    /\ crashes = 0 /\ changes = 0

Next ==
    \/ Begin \/ PoolFails \/ Select \/ WriteFile \/ EndBuild \/ Crash \/ Change
    \/ \E r \in pending, ok \in BOOLEAN : Persist(r, ok)
    \/ StartTraining \/ TrainStep

Spec == Init /\ [][Next]_vars

------------------------------------------------------------------------------
(* What the sources may be assumed to be.  Results are found by record id,    *)
(* which nobody checks to be the id of one record, or of one proof.           *)

\* The records of one revision have different ids.
DistinctIds(revisions) ==
    \A rows \in revisions : \A i, j \in Starts(rows) :
        Reconstructed(rows)[i].id = Reconstructed(rows)[j].id => i = j

\* An id names the same content in all revisions.
IdsNameContents(revisions) ==
    \A p, q \in revisions : \A r \in CandidatesOf(p), s \in CandidatesOf(q) :
        r.id = s.id => Content(r) = Content(s)

\* A content has the same id in all revisions.
ContentsKeepIds(revisions) ==
    \A p, q \in revisions : \A r \in CandidatesOf(p), s \in CandidatesOf(q) :
        Content(r) = Content(s) => r.id = s.id

------------------------------------------------------------------------------
(* Properties                                                              *)

\* What is trained was compiled: every row the trainer takes has a proof that
\* Lean accepted, in the very environment the row names, whatever crashed,
\* was upgraded and was run again before.
AttestedTraining ==
    \A i \in DOMAIN perm : Compiles(Content(perm[i]), perm[i].env)

\* The record stands in the verified rows, with the statement and proof it has.
Kept(r, verified) == \E v \in verified : v.id = r.id /\ Content(v) = Content(r)

\* A finished build has given every record of the parquet exactly one fate: it
\* is verified as it is, or it is quarantined, and none is lost or kept twice,
\* also when the build went on from the results of one that was cut off.  The
\* roles are taken from the verified rows, and no statement has two.
OneFate ==
    LET rows(f) == files[f].rows
        stmts(f) == {v.stmt : v \in rows(f)}
    IN
    pc = "done" =>
      /\ \A k \in Starts(parquet) : LET r == Reconstructed(parquet)[k] IN
            Kept(r, rows("verified")) <=> r.id \notin rows("quarantined")
      /\ {v.id : v \in rows("verified")} \cap rows("quarantined") = {}
      /\ \A f, g \in {"train", "eval", "discovery"} :
            /\ rows(f) \subseteq rows("verified")
            /\ f # g => stmts(f) \cap stmts(g) = {}
            /\ Cardinality(stmts(f)) = Cardinality(rows(f))

\* A result that was persisted is never asked for again in its environment.
VerifiesOnce ==
    [][\A r \in pending' \ pending, row \in results :
         row.of = Content(r) => row.env # env]_vars

\* An epoch takes every row of the file once, and every rank has a batch at
\* every step (validate_no_duplicate_train_sharding).
EpochOnce ==
    sft = "saved" =>
      /\ \A i \in DOMAIN perm :
            Cardinality({x \in (DOMAIN trained) \X Ranks :
               \E j \in DOMAIN trained[x[1]][x[2]] : trained[x[1]][x[2]][j] = perm[i]}) = 1
      /\ \A k \in DOMAIN trained, r \in Ranks : trained[k][r] # <<>>
=============================================================================

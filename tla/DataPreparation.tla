---------------------------- MODULE DataPreparation ----------------------------
(***************************************************************************)
(* data/cli.py: source rows are normalized and de-duplicated, checked by   *)
(* the pool, filtered, divided and written; sft_pipeline/trainer.py then   *)
(* binds the projection it trains on to its manifest.  Every file is       *)
(* replaced atomically, the files of a build one after the other, and the  *)
(* build may die between two of them.                                      *)
(*                                                                         *)
(* A raw row is [id, stmt, proof, shape, attested]: shape is what its      *)
(* adapter makes of it.  A proof is a sequence of words, an id a sequence  *)
(* because a repeated one is extended.                                     *)
(***************************************************************************)
EXTENDS Integers, Sequences, SequencesExt, PantographVerifier

CONSTANTS
    Commands,        \* [role, sources, verify, limit, divide, exclude]
    Prefixed(_),     \* has_supported_declaration_prefix
    Quotes(_),       \* a statement that holds a placeholder
    Placeholder,     \* the word that makes a proof forbidden
    Fits(_),         \* a record is not too long to train on
    RatioNum, RatioDen,  \* validation_ratio
    Imports,         \* of the tasks and of the servers
    Workers, MaxBuilds, MaxCrashes

\* the raw rows of every source
SourceRows == UNION {UNION {Range(c.sources[k]) : k \in DOMAIN c.sources} : c \in Commands}

\* Only unified data have several sources; an id is a sequence.
ASSUME PreparationAssumption ==
    /\ {RatioNum, RatioDen, MaxBuilds} \subseteq Nat \ {0}
    /\ MaxCrashes \in Nat
    /\ \A c \in Commands :
        /\ c.role \in {"sft", "grpo", "unify"} /\ c.limit \in Nat \ {0}
        /\ c.sources \in Seq(Seq(SourceRows))
        /\ c.role # "unify" => Len(c.sources) = 1
    /\ \A r \in SourceRows : r.id \in Seq(Range(r.id)) /\ r.attested \in BOOLEAN

FileNames == {"train", "manifest", "validation", "validation.manifest",
              "grpo", "grpo.manifest", "grpo.validation"}

VARIABLES
    pc,        \* "idle", "verify", "divide", "write", "failed", "done"
    command, records,
    pending, accepted, rejected,  \* positions in records; rejected has verdicts
    servers,   \* the Pantograph server of every worker
    outputs, left,   \* rows of the files of this build; names still to write
    files, written,  \* file name -> rows; the files that exist
    trained,   \* the rows the SFT trainer took
    builds, crashes

pool == <<pending, accepted, rejected, servers>>
disk == <<files, written>>
vars == <<pc, command, records, pool, outputs, left, disk, trained, builds, crashes>>

-------------------------------------------------------------------------------
(* Normalization                                                           *)

Forbidden(proof) == Placeholder \in Range(proof)
ByLed(proof) == proof # <<>> /\ proof[1] = "by"
TermLed(proof) == proof # <<>> /\ proof[1] \in {"fun", "show", "calc", "match", "let"}

\* the elements of a sequence at a set of positions, in their order
Keep(s, at) ==
    LET rank(i) == Cardinality({j \in at : j <= i})
    IN [k \in 1 .. Cardinality(at) |-> s[CHOOSE i \in at : rank(i) = k]]

\* compose_lean_theorem: what Lean is given for a proof
Assembled(proof) == IF ByLed(proof) \/ TermLed(proof) THEN proof ELSE <<"by">> \o proof
\* normalize_sft_completion: what the model is trained to write
Reworded(proof) == ~ ByLed(proof)
Completion(proof) == IF Reworded(proof) THEN <<"by", "exact">> \o proof ELSE proof

\* normalized_record_dedup_key
ContentKey(r, requireProof) ==
    IF requireProof THEN <<r.stmt, r.proof>> ELSE <<r.stmt>>

\* Mutant of FreshId: a repeated identifier is kept.
GivenId(id, key, ids) == id
\* _disambiguate_record_id
FreshId(id, key, ids) ==
    IF id \notin ids THEN id
    ELSE LET numbered(n) == id \o <<key, n>>
             free == {n \in 1 .. Cardinality(ids) + 1 : numbered(n) \notin ids}
         IN numbered(CHOOSE n \in free : \A m \in free : n <= m)

\* normalize_records, one row
TakeRow(s, row, requireProof, limit) ==
    LET key == ContentKey(row, requireProof)
        fresh == [id |-> FreshId(row.id, key, s.ids), stmt |-> row.stmt,
                  proof |-> row.proof, verified |-> row.attested]
        seen == [s EXCEPT !.keys = @ \cup {key}, !.ids = @ \cup {fresh.id}]
    IN CASE Len(s.records) = limit -> s                     \* break
         [] Len(s.records) < limit /\ (row.shape # "ok" \/ key \in s.keys) -> s
         [] OTHER ->
              IF /\ Prefixed(row.stmt)
                 /\ requireProof => row.proof # <<>>
                 /\ ~ Forbidden(row.proof)
              THEN [seen EXCEPT !.records = Append(@, fresh)]
              ELSE seen

Normalize(rows, requireProof, limit) ==
    LET taken[n \in 0 .. Len(rows)] ==
            IF n = 0 THEN [records |-> <<>>, keys |-> {}, ids |-> {}]
            ELSE TakeRow(taken[n - 1], rows[n], requireProof, limit)
    IN taken[Len(rows)].records

\* deduplicate_training_records, over the files of several sources
DropRepeated(rs) ==
    LET same(r, q) == r.stmt = q.stmt /\ Completion(r.proof) = Completion(q.proof)
    IN Keep(rs, {i \in DOMAIN rs : \A j \in 1 .. i - 1 : ~ same(rs[j], rs[i])})

\* load_statement_hashes, exclude_statement_overlaps
Excluded(r) == \E i \in DOMAIN files["manifest"] : files["manifest"][i].stmt = r.stmt

RequiresProof(c) == c.role # "grpo"
NormalizedRows(c) ==
    LET each == [k \in DOMAIN c.sources |->
                    Normalize(c.sources[k], RequiresProof(c), c.limit)]
        rows == FlattenSeq(each)
    IN CASE c.role = "unify" -> DropRepeated(rows)
         [] c.role = "grpo" /\ c.exclude -> Keep(rows, {i \in DOMAIN rows : ~ Excluded(rows[i])})
         [] OTHER -> rows

-------------------------------------------------------------------------------
(* Validation by the pool                                                  *)

\* _record_validation_declaration
Declaration(r, requireProof) ==
    <<r.stmt, IF requireProof THEN Assembled(r.proof) ELSE <<"by", Placeholder>>>>

\* Lean gives one of its answers to every declaration.
ASSUME ReactionAssumption ==
    \A r \in SourceRows, b \in BOOLEAN : Reaction(Declaration(r, b)) \in Reactions

\* Mutant of TaskOf: the position of a task among the tasks names its record.
TaskByPosition(rs, i) ==
    LET tasks == SelectSeq(rs, LAMBDA r : ~ Quotes(r.stmt))
    IN Declaration(IF i <= Len(tasks) THEN tasks[i] ELSE rs[i], RequiresProof(command))
TaskOf(rs, i) == Declaration(rs[i], RequiresProof(command))
Task(i) == [source |-> TaskOf(records, i), imports |-> Imports, serverImports |-> Imports,
            rejectForbidden |-> RequiresProof(command)]

Build(c) ==
    LET rs == NormalizedRows(c)
        refused == {i \in DOMAIN rs : Quotes(rs[i].stmt)}
        stops == c.role = "grpo" /\ c.exclude /\ ("manifest" \notin written \/ rs = <<>>)
        verifies == c.verify /\ c.role # "unify"
    IN
    /\ pc \in {"idle", "failed", "done"} /\ builds < MaxBuilds
    /\ builds' = builds + 1 /\ command' = c /\ records' = rs
    /\ pc' = IF stops THEN "failed" ELSE IF verifies THEN "verify" ELSE "divide"
    /\ pending' = IF verifies /\ ~ stops THEN DOMAIN rs \ refused ELSE {}
    /\ rejected' = IF verifies THEN refused \X {"forbidden"} ELSE {}
    /\ accepted' = {}
    /\ servers' = [w \in Workers |-> "up"]
    /\ outputs' = <<>> /\ left' = <<>>
    /\ UNCHANGED <<disk, trained, crashes>>

\* A worker takes a task and answers.  A worker whose server cannot be replaced
\* is replaced by the pool, and the task tried again.
Judge(w, i) ==
    /\ pc = "verify" /\ i \in pending
    /\ \E o \in Verify(servers[w], Task(i)) :
        IF o[1] = "raises"
        THEN /\ servers' = [servers EXCEPT ![w] = "up"]
             /\ UNCHANGED <<pending, accepted, rejected>>
        ELSE /\ servers' = [servers EXCEPT ![w] = o[2]]
             /\ pending' = pending \ {i}
             /\ accepted' = IF Succeeds(o[1]) THEN accepted \cup {i} ELSE accepted
             /\ rejected' = IF Succeeds(o[1]) THEN rejected ELSE rejected \cup {<<i, o[1]>>}
    /\ UNCHANGED <<pc, command, records, outputs, left, disk, trained, builds, crashes>>

PoolFails ==
    /\ pc = "verify" /\ pc' = "failed"
    /\ pending' = {} /\ accepted' = {} /\ rejected' = {}
    /\ UNCHANGED <<command, records, servers, outputs, left, disk, trained, builds, crashes>>

AllJudged ==
    /\ pc = "verify" /\ pending = {}
    /\ records' = LET kept == Keep(records, accepted)
                  IN [k \in DOMAIN kept |-> [kept[k] EXCEPT !.verified = TRUE]]
    /\ pc' = "divide" /\ accepted' = {} /\ rejected' = {}
    /\ UNCHANGED <<command, pending, servers, outputs, left, disk, trained, builds, crashes>>

-------------------------------------------------------------------------------
(* Division and output                                                     *)

\* int(round(n * ratio)), to even, at least one and not all
RoundHalfEven(num, den) ==
    LET floor == num \div den
        twice == 2 * (num % den)
    IN IF twice > den \/ (twice = den /\ floor % 2 = 1) THEN floor + 1 ELSE floor
AtLeast(a, b) == IF a < b THEN b ELSE a
AtMost(a, b) == IF a > b THEN b ELSE a
ValidationCount(n) == AtMost(AtLeast(RoundHalfEven(n * RatioNum, RatioDen), 1), n - 1)

\* split_training_validation_records: the shuffle picks positions, the rows are
\* told apart by their identifiers
Held(rows, ids, held) == Keep(rows, {i \in DOMAIN rows : (rows[i].id \in ids) = held})
Divisions(rows) ==
    IF ~ command.divide \/ Len(rows) < 2 THEN {{}}
    ELSE {{rows[i].id : i \in picked} :
            picked \in {p \in SUBSET DOMAIN rows : Cardinality(p) = ValidationCount(Len(rows))}}

FilesOf(c) ==
    CASE c.role = "unify" -> <<"manifest", "train">>
      [] c.role = "sft" -> <<"train", "manifest">>
            \o IF c.divide THEN <<"validation", "validation.manifest">> ELSE <<>>
      [] c.role = "grpo" -> <<"grpo", "grpo.manifest">>
            \o IF c.divide THEN <<"grpo.validation">> ELSE <<>>

Divide ==
    LET fits == {i \in DOMAIN records : Fits(records[i])}
        rows == IF command.role = "unify" THEN records ELSE Keep(records, fits)
    IN
    /\ pc = "divide" /\ pc' = "write"
    /\ \E ids \in Divisions(rows) :
        outputs' = [name \in Range(FilesOf(command)) |->
            Held(rows, ids, name \in {"validation", "validation.manifest", "grpo.validation"})]
    /\ left' = FilesOf(command)
    /\ UNCHANGED <<command, records, pool, disk, trained, builds, crashes>>

\* build_sft_training_record, build_sft_general_data, build_grpo_*: what a file
\* holds of a record
Line(name, r) ==
    CASE name \in {"train", "validation"} -> [stmt |-> r.stmt, completion |-> Completion(r.proof)]
      [] name \in {"manifest", "validation.manifest"} ->
            [id |-> r.id, stmt |-> r.stmt, completion |-> Completion(r.proof)]
      [] OTHER -> [id |-> r.id, stmt |-> r.stmt]

NeedsAttestation(name) == name \notin {"grpo", "grpo.validation"}

\* write_jsonl: a row that cannot be built leaves the old file as it was
WriteFile ==
    LET name == Head(left)
        rows == outputs[name]
    IN
    /\ pc = "write" /\ left # <<>>
    /\ IF NeedsAttestation(name) /\ \E i \in DOMAIN rows : ~ rows[i].verified
       THEN pc' = "failed" /\ left' = <<>> /\ UNCHANGED disk
       ELSE /\ files' = [files EXCEPT ![name] = [i \in DOMAIN rows |-> Line(name, rows[i])]]
            /\ written' = written \cup {name}
            /\ left' = Tail(left)
            /\ pc' = IF Tail(left) = <<>> THEN "done" ELSE "write"
    /\ UNCHANGED <<command, records, pool, outputs, trained, builds, crashes>>

Crash ==
    /\ pc \in {"verify", "divide", "write"} /\ crashes < MaxCrashes
    /\ crashes' = crashes + 1 /\ pc' = "idle"
    /\ pending' = {} /\ accepted' = {} /\ rejected' = {} /\ outputs' = <<>> /\ left' = <<>>
    /\ UNCHANGED <<command, records, servers, disk, trained, builds>>

-------------------------------------------------------------------------------
(* The SFT trainer                                                         *)

\* validate_sft_manifest_projection
Bound(name, manifest) ==
    /\ Len(files[name]) = Len(files[manifest])
    /\ \A i \in DOMAIN files[name] :
        /\ files[name][i].stmt = files[manifest][i].stmt
        /\ files[name][i].completion = files[manifest][i].completion

\* build_trainer: the projection and, when one is configured, its validation file
Train(validates) ==
    /\ trained = {}
    /\ {"train", "manifest"} \subseteq written /\ Bound("train", "manifest")
    /\ validates => /\ {"validation", "validation.manifest"} \subseteq written
                    /\ Bound("validation", "validation.manifest")
    /\ trained' = Range(files["train"])
    /\ UNCHANGED <<pc, command, records, pool, outputs, left, disk, builds, crashes>>

Init ==
    /\ pc = "idle" /\ command \in Commands /\ records = <<>>
    /\ pending = {} /\ accepted = {} /\ rejected = {}
    /\ servers = [w \in Workers |-> "up"]
    /\ outputs = <<>> /\ left = <<>>
    /\ files = [name \in FileNames |-> <<>>] /\ written = {}
    /\ trained = {} /\ builds = 0 /\ crashes = 0

Next ==
    \/ \E c \in Commands : Build(c)
    \/ \E w \in Workers, i \in pending : Judge(w, i)
    \/ PoolFails \/ AllJudged \/ Divide \/ WriteFile \/ Crash
    \/ \E validates \in BOOLEAN : Train(validates)

Spec == Init /\ [][Next]_vars

-------------------------------------------------------------------------------
(* Properties                                                              *)

\* Whatever builds were run and wherever they died, every row the trainer took
\* comes from a record whose proof Lean accepted, here or at its source, and the
\* proof it is trained to write is that one.  Exception: a proof that is not led
\* by `by` is reworded after it was verified, and nobody asks Lean again; a bare
\* `simp`, accepted as `by simp`, is trained as `by exact simp`.
TrainsOnVerified ==
    \A t \in trained : \E r \in SourceRows :
        /\ t = [stmt |-> r.stmt, completion |-> Completion(r.proof)]
        /\ r.attested \/ Reaction(Declaration(r, TRUE)) = "accepts"
        /\ \/ Reworded(r.proof)
           \/ r.attested /\ t.completion = r.proof
           \/ Reaction(<<t.stmt, t.completion>>) = "accepts"

\* A finished build has put every record on one side of its division, with the
\* share of validation it was asked for, although sources repeat identifiers; no
\* statement of the GRPO files it wrote is one that the SFT manifest holds.
RolesDisjoint ==
    pc = "done" =>
        /\ command.role = "sft" /\ command.divide =>
              LET train == outputs["train"]
                  validation == outputs["validation"]
                  total == Len(train) + Len(validation)
              IN /\ \A i \in DOMAIN train, j \in DOMAIN validation :
                        ContentKey(train[i], TRUE) # ContentKey(validation[j], TRUE)
                 /\ total = Cardinality({r.id : r \in Range(train) \cup Range(validation)})
                 /\ total >= 2 => Len(validation) = ValidationCount(total)
        /\ command.role = "grpo" /\ command.exclude =>
              \A name \in Range(FilesOf(command)), i \in DOMAIN files["manifest"] :
                \A j \in DOMAIN files[name] : files[name][j].stmt # files["manifest"][i].stmt

\* No record is refused for a server that another record has brought down: a
\* verdict other than Lean's is given only to a source that times out or kills.
InnocentVerdict ==
    \A v \in rejected : v[2] \in {"gone", "timeout"} =>
        Reaction(TaskOf(records, v[1])) \in {"times_out", "kills"}
================================================================================

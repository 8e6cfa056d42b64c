-------------------------- MODULE TraceReconstruction --------------------------
(***************************************************************************)
(* Two ways from a LeanDojo trace to a training record: the benchmark      *)
(* split joined with corpus.jsonl (data/adapters/leandojo.py) and the      *)
(* declarations of the current Mathlib (data/leandojo_v2_current.py,       *)
(* leandojo_v2_dataset/normalization.py).  A split row is                  *)
(* [source, file, name, trace]; source stands for its url, commit, file,   *)
(* name and span, and a step of the trace is [before, tactic, after].      *)
(***************************************************************************)
EXTENDS Integers, Sequences, FiniteSets, SequencesExt

CONSTANTS
    TheoremOf(_),      \* _theorem_from_proof_state: <<binders and target>>, or <<>>
    NamespaceOf(_),    \* _namespace_for
    ForbiddenText(_),  \* contains_forbidden_proof_token, of a statement or a tactic
    ForbiddenCode(_),  \* the code of a declaration has axiom or unsafe
    Private(_)         \* "_private." is in the name

------------------------------------------------------------------------------
(* adapters/leandojo.py                                                    *)

\* reservoir_sample: draws[t] is what the generator gives for row t; <<>> when
\* it raises
ReservoirSample(rows, size, draws) ==
    IF size <= 0 \/ Len(rows) < size THEN <<>>
    ELSE FoldLeft(LAMBDA s, t : IF draws[t] < size THEN [s EXCEPT ![draws[t] + 1] = rows[t]] ELSE s,
                  SubSeq(rows, 1, size), [k \in 1 .. Len(rows) - size |-> size + k])

\* load_corpus_declarations: corpus is a sequence of files [file, declarations];
\* a later declaration of a key replaces an earlier one, until the file after
\* which every wanted key was found
Keys(f) == {<<f.file, d.name>> : d \in Range(f.declarations)}
Enough(corpus, wanted) ==
    {n \in 0 .. Len(corpus) : wanted \subseteq UNION {Keys(corpus[k]) : k \in 1 .. n}}
FilesRead(corpus, wanted) ==
    CHOOSE n \in Enough(corpus, wanted) \cup {Len(corpus)} :
        \A m \in Enough(corpus, wanted) \cup {Len(corpus)} : n <= m
Declarations(corpus, wanted) ==
    LET read == FlattenSeq([k \in 1 .. FilesRead(corpus, wanted) |->
                    [i \in DOMAIN corpus[k].declarations |->
                        [key |-> <<corpus[k].file, corpus[k].declarations[i].name>>,
                         code |-> corpus[k].declarations[i].code]]])
        found == {k \in wanted : \E i \in DOMAIN read : read[i].key = k}
    IN [k \in found |-> SelectSeq(read, LAMBDA d : d.key = k)[
                            Len(SelectSeq(read, LAMBDA d : d.key = k))].code]

Contiguous(trace) == \A i \in 2 .. Len(trace) : trace[i - 1].after = trace[i].before
\* render_tactic_trace: steps without text are left out
Rendered(trace) ==
    SelectSeq([i \in DOMAIN trace |-> trace[i].tactic], LAMBDA t : t # "")
RecordId(row) == row.source
Theorem(row) == IF row.trace = <<>> THEN <<>> ELSE TheoremOf(row.trace[1].before)

\* the statement is named after the record
Statement(row) ==
    IF Theorem(row) = <<>> THEN <<"True">> ELSE <<RecordId(row)>> \o Theorem(row)
StatementId(row) == <<NamespaceOf(row.name), Statement(row)>>
\* the chain of quarantine_reason
Reason(row, declarations) ==
    LET key == <<row.file, row.name>>
        proof == Rendered(row.trace)
    IN CASE Theorem(row) = <<>> -> "invalid_syntax"
         [] Theorem(row) # <<>> /\ key \notin DOMAIN declarations -> "missing_context"
         [] Theorem(row) # <<>> /\ key \in DOMAIN declarations ->
              IF ~ Contiguous(row.trace) THEN "corrupt_tactic_trace"
              ELSE IF row.trace[Len(row.trace)].after # "no goals" THEN "unsolved_goals"
              ELSE IF proof = <<>> THEN "empty_proof"
              ELSE IF \/ ForbiddenText(Theorem(row)[1]) \/ \E t \in Range(proof) : ForbiddenText(t)
                      \/ ForbiddenCode(declarations[key])
                THEN "forbidden_declaration"
              ELSE IF Private(row.name) THEN "private_declaration" ELSE "none"
\* reconstruct_leandojo_records
FinalReason(rows, declarations, i) ==
    IF /\ Reason(rows[i], declarations) = "none"
       /\ \E j \in 1 .. i - 1 : /\ Reason(rows[j], declarations) = "none"
                                /\ StatementId(rows[j]) = StatementId(rows[i])
    THEN "duplicate_statement" ELSE Reason(rows[i], declarations)
Clean(rows, declarations) ==
    {i \in DOMAIN rows : FinalReason(rows, declarations, i) = "none"}

------------------------------------------------------------------------------
(* leandojo_v2_current.py: records [statement, proof, code, path, pinned,   *)
(* placed, size, style, trace]; pinned: the commit and the version are the  *)
(* current ones, placed: the declaration has a name and a span              *)

NoGoals == {"no goals", "no goals to be solved"}

QuarantineReason(r, most) ==
    IF r.statement = "" THEN "empty_statement"
    ELSE IF r.proof = <<>> THEN "empty_proof"
    ELSE IF \E t \in {r.statement, r.code} \cup Range(r.proof) : ForbiddenText(t)
      THEN "forbidden_token"
    ELSE IF r.path = "test" THEN "generated_or_test_only_path"
    ELSE IF ~ r.pinned THEN "version_mismatch"
    ELSE IF ~ r.placed THEN "unlocatable_declaration"
    ELSE IF r.size > most THEN "proof_over_sampling_token_limit"
    ELSE IF r.style = "term" THEN "none"
    ELSE IF r.trace = <<>> THEN "missing_tactic_trace"
    ELSE IF ~ Contiguous(r.trace) THEN "non_contiguous_tactic_trace"
    ELSE IF r.trace[Len(r.trace)].after \notin NoGoals THEN "tactic_trace_has_open_goal"
    ELSE "none"

\* normalize_leandojo_record: the status, and _trace_validation
VerificationStatus(compiled, timedOut) ==
    CASE timedOut -> "timeout_quarantine"
      [] ~ timedOut /\ compiled -> "verified_default_timeout"
      [] OTHER -> "compile_failure_quarantine"
TraceValidation(trace) ==
    [aligned |-> Contiguous(trace),
     closed |-> trace = <<>> \/ trace[Len(trace)].after \in {"no goals", ""}]

------------------------------------------------------------------------------
(* What the reconstruction promises                                        *)

\* A clean record has a declaration and a proof from its theorem to no goals.
CleanIsProved(rows, declarations) ==
    \A i \in Clean(rows, declarations) :
        /\ <<rows[i].file, rows[i].name>> \in DOMAIN declarations
        /\ rows[i].trace # <<>> /\ Contiguous(rows[i].trace)
        /\ rows[i].trace[Len(rows[i].trace)].after = "no goals"
        /\ Rendered(rows[i].trace) # <<>>

\* A row is a duplicate only of a row with its very source: the name of the
\* record is part of its statement.  A theorem that the split holds under two
\* names, or in two files, is clean twice.
DuplicatesAreRepeats(rows, declarations) ==
    \A i \in DOMAIN rows :
        FinalReason(rows, declarations, i) = "duplicate_statement" <=>
            /\ Reason(rows[i], declarations) = "none"
            /\ \E j \in 1 .. i - 1 : /\ rows[j].source = rows[i].source
                                     /\ Theorem(rows[j]) = Theorem(rows[i])
                                     /\ NamespaceOf(rows[j].name) = NamespaceOf(rows[i].name)
                                     /\ Reason(rows[j], declarations) = "none"

\* Stopping early loses no declaration that is wanted.
CorpusIsSearched(corpus, wanted) ==
    DOMAIN Declarations(corpus, wanted) = wanted \cap UNION {Keys(f) : f \in Range(corpus)}

\* Every row of the split is sampled for as many draws as any other, and no row
\* fills two places.
SampleIsUniform(n, size) ==
    LET rows == [i \in 1 .. n |-> i]
        Draws == {d \in [size + 1 .. n -> 0 .. n - 1] : \A t \in size + 1 .. n : d[t] < t}
        Chosen(i) == {d \in Draws : i \in Range(ReservoirSample(rows, size, d))}
    IN /\ \A i, j \in 1 .. n : Cardinality(Chosen(i)) = Cardinality(Chosen(j))
       /\ \A d \in Draws : IsInjective(ReservoirSample(rows, size, d))

\* What passes the filter of the current Mathlib was a term or has a whole trace,
\* which the validation of the normalized record calls open when the last state
\* is spelled the long way.
PassedIsWhole(r, most) ==
    QuarantineReason(r, most) = "none" /\ r.style # "term" =>
        /\ r.trace # <<>> /\ TraceValidation(r.trace).aligned
        /\ \/ TraceValidation(r.trace).closed
           \/ r.trace[Len(r.trace)].after = "no goals to be solved"
================================================================================

------------------------------ MODULE CorpusAudit ------------------------------
(***************************************************************************)
(* What decides which rows may be trained on: the deduplication and the    *)
(* leakage audit of leandojo_v2_dataset, its manifests, random_manifest.py *)
(* and check_data_leakage.py.  A row is                                    *)
(* [id, identity, kind, name, body, proof, rank, labels, ...]; body is the *)
(* sequence of tokens of the statement after its name, already without the *)
(* differences in spacing that normalize_lexical removes, and hashes are   *)
(* the values they stand for.                                              *)
(***************************************************************************)
EXTENDS Integers, Sequences, FiniteSets, SequencesExt, FiniteSetsExt

\* fingerprints.py
Exact(row) == <<row.kind, row.name, row.body>>
Normalized(row) == <<row.kind, row.body>>
Structural(row) == row.body
TheoremGroup(row) == Normalized(row)
\* the tokens of <DECL_NAME> are in every statement
Tokens(row) == Range(row.body) \cup {row.kind, "<", "DECL_NAME", ">"}

------------------------------------------------------------------------------
(* dedup.py: audit_internal_dedup, audit_cross_source                      *)

Pair(row) == <<Normalized(row), row.proof>>
Copies(rows, i) == {j \in DOMAIN rows : Pair(rows[j]) = Pair(rows[i])}
\* the sort in reverse keeps the order of rows that are equal under its key
Better(rows, i, j) ==
    \/ rows[i].rank > rows[j].rank
    \/ rows[i].rank = rows[j].rank /\ rows[i].id > rows[j].id
    \/ rows[i].rank = rows[j].rank /\ rows[i].id = rows[j].id /\ i < j
Canonical(rows) ==
    {i \in DOMAIN rows : \A j \in Copies(rows, i) \ {i} : Better(rows, i, j)}
Aliases(rows, i) == {rows[j].id : j \in Copies(rows, i) \ {i}}
\* same_statement_multiple_proofs, as sets of rows
ProofVariants(rows) ==
    {g \in {{j \in Canonical(rows) : Normalized(rows[j]) = Normalized(rows[i])} :
                i \in Canonical(rows)} : Cardinality(g) > 1}

\* the overlap record of a LeanDojo row with the workbook
Overlap(row, workbook) ==
    [exact |-> {w.id : w \in {w \in workbook : Pair(w) = Pair(row)}},
     variant |-> {w.id : w \in {w \in workbook : /\ Normalized(w) = Normalized(row)
                                                /\ w.proof # row.proof}},
     proof |-> {w.id : w \in {w \in workbook : /\ Normalized(w) # Normalized(row)
                                              /\ w.proof = row.proof}}]
WorkbookAliases(leandojo, workbook) ==
    UNION {Overlap(row, workbook).exact : row \in leandojo}

------------------------------------------------------------------------------
(* leakage.py: audit_leakage over a sequence of candidates                 *)

Levels(row, protected) ==
    {level \in 0 .. 2 : \E p \in protected :
        CASE level = 0 -> p.identity = row.identity
          [] level = 1 -> Exact(p) = Exact(row)
          [] level = 2 -> Normalized(p) = Normalized(row)}
\* preliminary, after the first n candidates
Preliminary(rows, protected, group, n) ==
    UNION {Levels(rows[i], protected) : i \in {i \in 1 .. n : TheoremGroup(rows[i]) = group}}
\* token_jaccard of at least 9/10 between sets of comparable size
Similar(row, p) ==
    LET a == Cardinality(Tokens(row))
        b == Cardinality(Tokens(p))
        shared == Cardinality(Tokens(row) \cap Tokens(p))
    IN /\ 10 * a >= 9 * b /\ 10 * b >= 9 * a
       /\ 10 * shared >= 9 * (a + b - shared)
\* levels 3 and 4: reported for review, only while the group is not condemned
Reviewed(rows, protected, i) ==
    /\ Preliminary(rows, protected, TheoremGroup(rows[i]), i) = {}
    /\ \E p \in protected : Structural(p) = Structural(rows[i]) \/ Similar(rows[i], p)
Removed(rows, protected) ==
    {i \in DOMAIN rows :
        Preliminary(rows, protected, TheoremGroup(rows[i]), Len(rows)) # {}}
Retained(rows, protected) == DOMAIN rows \ Removed(rows, protected)

------------------------------------------------------------------------------
(* manifest_builder.py; the pools are shuffled: any order                  *)

\* _eligible_unique
FirstOfGroups(pool) ==
    SelectSeq([i \in DOMAIN pool |-> i],
              LAMBDA i : \A j \in 1 .. i - 1 : TheoremGroup(pool[j]) # TheoremGroup(pool[i]))
EligibleUnique(pool) ==
    LET f == FirstOfGroups(pool) IN [k \in DOMAIN f |-> pool[f[k]]]
Groups(rows) == {TheoremGroup(row) : row \in Range(rows)}
Unseen(pool, seen) == SelectSeq(pool, LAMBDA row : TheoremGroup(row) \notin seen)
Prefix(s, n) == SubSeq(s, 1, IF n < Len(s) THEN n ELSE Len(s))

\* sample_rows: <<>> when it raises
SampleRows(workbook, leandojo, m, n) ==
    LET w == Prefix(EligibleUnique(workbook), m)
        d == Prefix(Unseen(EligibleUnique(leandojo), Groups(w)), n)
    IN IF Len(w) = m /\ Len(d) = n THEN w \o d ELSE <<>>

\* sample_token_matched, one source: the row that brings the sum nearest its
\* target, until none brings it nearer
Distance(a, b) == IF a < b THEN b - a ELSE a - b
RECURSIVE Spend(_, _, _)
Spend(open, target, running) ==
    IF open = {} \/ running >= target THEN {}
    ELSE LET gap(row) == Distance(target, running + row.labels)
             best == CHOOSE row \in open : \A other \in open :
                        gap(row) < gap(other) \/ (gap(row) = gap(other) /\ row.id <= other.id)
         IN IF running > 0 /\ target - running <= gap(best) THEN {}
            ELSE {best} \cup Spend(open \ {best}, target, running + best.labels)
TokenMatched(workbook, leandojo, wbTarget, ldTarget) ==
    LET w == Spend(Range(EligibleUnique(workbook)), wbTarget, 0)
        d == Spend({row \in Range(EligibleUnique(leandojo)) :
                        TheoremGroup(row) \notin {TheoremGroup(x) : x \in w}}, ldTarget, 0)
    IN <<w, d>>

------------------------------------------------------------------------------
(* random_manifest.py: rows [id, statement, proof, verified, truncated,    *)
(* attested, role, origin]                                                 *)

\* validate_verified_row; verified stands for its four fields
ValidVerified(row, allowDiscovery) ==
    /\ row.verified /\ row.attested /\ ~ row.truncated /\ row.proof # ""
    /\ {row.role, row.origin} \cap {"eval", "monitor", "benchmark"} = {}
    /\ row.origin = "discovery" => allowDiscovery
UniqueField(rows, field) == \A i, j \in DOMAIN rows : i # j => rows[i][field] # rows[j][field]
\* validate_manifest
ValidManifest(rows, allowDiscovery) ==
    /\ rows # <<>>
    /\ \A i \in DOMAIN rows : ValidVerified(rows[i], allowDiscovery)
    /\ UniqueField(rows, "statement") /\ UniqueField(rows, "id")
\* build_random_subset_manifest: the two files, <<>> when it raises; order[n]
\* is what the seed makes of n sorted rows
SubsetManifest(source, size, order) ==
    LET eligible == SelectSeq(source, LAMBDA row : ValidVerified(row, FALSE))
        sorted == SortSeq(eligible, LAMBDA a, b : a.statement < b.statement)
        permuted == [k \in DOMAIN sorted |-> sorted[order[Len(sorted)][k]]]
    IN IF /\ UniqueField(eligible, "statement") /\ UniqueField(eligible, "id")
          /\ size <= Len(eligible)
       THEN <<Prefix(permuted, size), SubSeq(permuted, size + 1, Len(permuted))>>
       ELSE <<>>

(* check_data_leakage.py: rows [statement, hash]; hash is <<>> or the      *)
(* field statement_hash of the row, which is believed                      *)
RecordHash(row) == IF row.hash # <<>> THEN row.hash ELSE <<row.statement>>
Overlapping(left, right) ==
    {RecordHash(row) : row \in left} \cap {RecordHash(row) : row \in right}
\* build_report and enforce_policy; allow holds the pairs of files let through
PolicyHolds(files, allow) ==
    \A pair \in {<<"train", "validation">>, <<"train", "benchmark">>, <<"validation", "benchmark">>} :
        pair \in allow \/ Overlapping(files[pair[1]], files[pair[2]]) = {}

------------------------------------------------------------------------------
(* What the audits promise                                                 *)

\* Deduplication keeps one row of every statement and proof, the best one, and
\* loses no proof of a statement; no copy has two canonical rows.
DedupKeepsProofs(rows) ==
    /\ {Pair(rows[i]) : i \in Canonical(rows)} = {Pair(rows[i]) : i \in DOMAIN rows}
    /\ \A i, j \in Canonical(rows) : i # j => Pair(rows[i]) # Pair(rows[j])
    /\ \A g \in ProofVariants(rows) : \A i, j \in g : i # j => rows[i].proof # rows[j].proof

\* A workbook row is an alias exactly when a LeanDojo row has its statement and
\* its proof; what is left of the workbook repeats no LeanDojo row.
CrossSourceIsExact(leandojo, workbook) ==
    {w.id : w \in {w \in workbook : \E d \in leandojo : Pair(w) = Pair(d)}}
        = WorkbookAliases(leandojo, workbook)

\* No retained row shares its source, its text or its statement with a protected
\* row, nor does a row of its theorem; a removed row that is listed for review
\* precedes the copy of its statement whose source condemned the theorem.
LeakageIsRemoved(rows, protected) ==
    /\ \A i \in Retained(rows, protected) : \A p \in protected :
         /\ rows[i].identity # p.identity /\ Normalized(rows[i]) # Normalized(p)
         /\ \A j \in Removed(rows, protected) : TheoremGroup(rows[i]) # TheoremGroup(rows[j])
    /\ \A i \in Removed(rows, protected) : Reviewed(rows, protected, i) =>
         \E j \in DOMAIN rows : /\ j > i /\ TheoremGroup(rows[j]) = TheoremGroup(rows[i])
                                /\ Levels(rows[j], protected) = {0}

\* A sample has the requested rows of each source and no theorem twice.
SampleHasQuotas(workbook, leandojo, m, n) ==
    LET s == SampleRows(workbook, leandojo, m, n) IN
    s # <<>> => /\ Len(s) = m + n
                /\ \A i, j \in DOMAIN s : i # j => TheoremGroup(s[i]) # TheoremGroup(s[j])

\* No row left over would bring a source nearer its budget of label tokens.
BudgetIsNearest(workbook, leandojo, wbTarget, ldTarget) ==
    LET m == TokenMatched(workbook, leandojo, wbTarget, ldTarget)
        Sum(rows) == MapThenSumSet(LAMBDA row : row.labels, rows)
        groups == {TheoremGroup(x) : x \in m[1] \cup m[2]}
        left(pool) == {row \in Range(EligibleUnique(pool)) : TheoremGroup(row) \notin groups}
        Nearest(chosen, target, rest) == \A row \in rest :
            target > 0 => /\ chosen # {}
                          /\ Distance(target, Sum(chosen)) <= Distance(target, Sum(chosen) + row.labels)
    IN /\ Nearest(m[1], wbTarget, left(workbook))
       /\ Nearest(m[2], ldTarget, left(leandojo))
       /\ Cardinality(groups) = Cardinality(m[1]) + Cardinality(m[2])

\* The two files of a subset divide the eligible rows, either is a valid
\* manifest, and a smaller sample of the same seed begins a larger one.
SubsetsNest(source, order) ==
    \A size \in 0 .. Len(source) :
        LET s == SubsetManifest(source, size, order) IN
        s # <<>> =>
          /\ Range(s[1]) \cup Range(s[2]) = {row \in Range(source) : ValidVerified(row, FALSE)}
          /\ Range(s[1]) \cap Range(s[2]) = {}
          /\ size > 0 => ValidManifest(s[1], FALSE)
          /\ size > 0 => /\ SubsetManifest(source, size - 1, order) # <<>>
                         /\ IsPrefix(SubsetManifest(source, size - 1, order)[1], s[1])

\* Files that pass without a permission share no hash, and no statement unless a
\* row carries the hash of another one.
PolicyIsDisjoint(files) ==
    PolicyHolds(files, {}) =>
      \A f, g \in DOMAIN files : f # g =>
        /\ Overlapping(files[f], files[g]) = {}
        /\ \A a \in files[f], b \in files[g] :
             a.statement = b.statement => ~ ({a.hash, b.hash} \subseteq {<<>>, <<a.statement>>})
================================================================================

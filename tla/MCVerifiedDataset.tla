-------------------------- MODULE MCVerifiedDataset --------------------------
EXTENDS VerifiedDataset, FiniteSets

Row(id, stmt, tactic, before, after) ==
    [id |-> id, status |-> "proved", stmt |-> stmt, tactic |-> tactic,
     before |-> before, after |-> after]
Two(id, stmt, first, last) ==
    <<Row(id, stmt, first, "goal", "rest"), Row(id, stmt, last, "rest", "no goals")>>
One(id, stmt, tactic) == <<Row(id, stmt, tactic, "goal", "no goals")>>

\* two long proofs and two short ones, a repeated statement, a record that was
\* disproved and one whose last row is missing
Parquet ==
    Two("a", "A", "intro", "omega") \o Two("b", "B", "intro", "simp")
      \o One("c", "C", "simp") \o One("d", "D", "simp") \o One("e", "A", "linarith")
      \o <<[Row("f", "F", "intro", "goal", "rest") EXCEPT !.status = "disproved"],
           Row("g", "G", "intro", "goal", "rest")>>
\* the same ids, another proof of A
Replaced == [Parquet EXCEPT ![2].tactic = "ring"]
OneRevision == {Parquet}
TwoRevisions == {Parquet, Replaced}
ASSUME DistinctIds(TwoRevisions) /\ ContentsKeepIds(TwoRevisions)
ASSUME IdsNameContents(OneRevision) /\ ~ IdsNameContents(TwoRevisions)

\* the upgrade renames what the proof of B uses; nothing proves A with ring
CompilesIn(c, e) == ~ (c[1] = "B" /\ e = "new") /\ "ring" \notin Range(c[2])
AssemblesAll(c) == c[1] # "D"
FitsAll(c) == TRUE
SignatureOf(p) == p

(* Corpora of CorpusAudit: copies, renamed theorems, a lemma of the same     *)
(* body, a longer statement, repeated ids and sources.                       *)
Corpus == INSTANCE CorpusAudit
Text(kind, name, body) == [kind |-> kind, name |-> name, body |-> body]
Texts == {Text("theorem", "f", <<"p">>), Text("theorem", "g", <<"p">>),
          Text("lemma", "f", <<"p">>), Text("theorem", "f", <<"q", "r">>)}
Entry(id, source, t, proof) ==
    [id |-> id, identity |-> source, kind |-> t.kind, name |-> t.name, body |-> t.body,
     proof |-> proof, rank |-> (id + source) % 2, labels |-> id + source]
Corpora == {<<Entry(1, 1, a, p), Entry(2, x, b, q), Entry(y, 3, c, "s")>> :
                a, b, c \in Texts, p, q \in {"s", "t"}, x \in {1, 2}, y \in {1, 3}}
Benchmarks == {{Entry(9, source, t, "s")} : source \in {1, 3, 4}, t \in Texts}
Sources == {c \in Corpora : c[1].name = "f" /\ c[1].kind = "theorem" /\ c[1].proof = "s" /\ c[2].proof = "t" /\ c[3].id = 3}
ASSUME \A c \in Corpora : Corpus!DedupKeepsProofs(c)
ASSUME \A c \in Corpora, p \in Benchmarks : Corpus!LeakageIsRemoved(c, p)
ASSUME \E c \in Corpora, p \in Benchmarks :
           \E i \in Corpus!Removed(c, p) : Corpus!Reviewed(c, p, i)
ASSUME \A c, d \in Sources :
    /\ Corpus!CrossSourceIsExact(Range(c), Range(d))
    /\ \A m, n \in {0, 2} : Corpus!SampleHasQuotas(c, d, m, n)
    /\ Corpus!BudgetIsNearest(c, d, 4, 3)
ManifestRow(id, statement, origin, verified) ==
    [id |-> id, statement |-> statement, proof |-> "s", verified |-> verified,
     truncated |-> FALSE, attested |-> TRUE, role |-> "train", origin |-> origin]
Backwards == [n \in 0 .. 4 |-> [i \in 1 .. n |-> n + 1 - i]]
ASSUME \A a, b \in {"train", "eval", "discovery"}, c \in BOOLEAN, x \in {2, 3}, y \in {1, 3} :
    Corpus!SubsetsNest(<<ManifestRow(1, 3, a, TRUE), ManifestRow(2, x, b, TRUE),
                        ManifestRow(y, 1, "train", c), ManifestRow(4, 4, "train", TRUE)>>, Backwards)
HashedRows == [statement : {"S", "T"}, hash : {<<>>, <<"S">>, <<"T">>}]
RowFiles == {s \in SUBSET HashedRows : Cardinality(s) <= 2}
ASSUME \A a, b, c \in RowFiles :
    Corpus!PolicyIsDisjoint([train |-> a, validation |-> b, benchmark |-> c])

(* Traces of TraceReconstruction: whole, cut, broken, with sorry, without     *)
(* text, and a state that is not a theorem.                                  *)
StateTheorem(s) == IF s = "odd" THEN <<>> ELSE <<s>>
Space(n) == IF n = "N.f" THEN "N" ELSE ""
Bad(t) == t = "sorry"
BadCode(c) == c = "axiom"
Hidden(n) == n = "hidden"
Traces == INSTANCE TraceReconstruction
    WITH TheoremOf <- StateTheorem, NamespaceOf <- Space, ForbiddenText <- Bad,
         ForbiddenCode <- BadCode, Private <- Hidden
Step(b, t, a) == [before |-> b, tactic |-> t, after |-> a]
AllTraces ==
    {<<>>, <<Step("odd", "simp", "no goals")>>, <<Step("A", "", "no goals")>>,
     <<Step("A", "simp", "no goals")>>, <<Step("A", "simp", "no goals to be solved")>>,
     <<Step("A", "intro", "B")>>, <<Step("A", "intro", "B"), Step("C", "simp", "no goals")>>,
     <<Step("A", "intro", "B"), Step("B", "simp", "no goals")>>,
     <<Step("A", "intro", "B"), Step("B", "sorry", "no goals")>>}
SplitRow(s, n, t) == [source |-> <<s, n>>, file |-> "F", name |-> n, trace |-> t]
Declared(n, c) == [name |-> n, code |-> c]
CorpusFiles ==
    <<[file |-> "E", declarations |-> <<Declared("f", "axiom")>>],
      [file |-> "F", declarations |-> <<Declared("f", "axiom"), Declared("g", "code"), Declared("f", "code")>>],
      [file |-> "F", declarations |-> <<Declared("hidden", "code"), Declared("N.f", "axiom"), Declared("g", "axiom")>>]>>
Names == {"f", "g", "hidden", "none", "N.f"}
ASSUME \A wanted \in SUBSET ({"E", "F"} \X Names) : Traces!CorpusIsSearched(CorpusFiles, wanted)
ASSUME \A t, u \in AllTraces, n, m \in Names, s \in 1 .. 2 :
    LET rows == <<SplitRow(1, n, t), SplitRow(s, m, u), SplitRow(1, "f", t)>>
        declarations == Traces!Declarations(CorpusFiles, {<<"F", n>>, <<"F", m>>})
    IN /\ Traces!CleanIsProved(rows, declarations)
       /\ Traces!DuplicatesAreRepeats(rows, declarations)
ASSUME Traces!SampleIsUniform(5, 2) /\ Traces!SampleIsUniform(4, 4)
ASSUME \A r \in [statement : {"", "A", "sorry"}, proof : {<<>>, <<"simp">>, <<"sorry">>},
                 code : {"lemma", "sorry"}, path : {"src", "test"}, pinned : BOOLEAN,
                 placed : BOOLEAN, size : {1, 9}, style : {"term", "tactic", "mixed"},
                 trace : AllTraces] : Traces!PassedIsWhole(r, 8)
=============================================================================

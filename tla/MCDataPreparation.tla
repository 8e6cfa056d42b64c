--------------------------- MODULE MCDataPreparation ---------------------------
(* Instances of DataPreparation, and the scans of LeanScanner.              *)
EXTENDS DataPreparation
Scanner == INSTANCE LeanScanner

Row(id, stmt, proof) ==
    [id |-> <<id>>, stmt |-> stmt, proof |-> proof, shape |-> "ok", attested |-> FALSE]
Attested(row) == [row EXCEPT !.attested = TRUE]
By(tactic) == <<"by", tactic>>

\* an identifier that names two problems, a repeated row, a second proof, a
\* tactic without by, a statement with a placeholder, rows that are refused
Crawled == <<Row("a", "S", By("simp")), Row("a", "K", By("loop")), Row("b", "S", By("simp")),
             Row("q", "Q", By("simp")), Row("c", "S", By("ring")), Row("a", "T", <<"simp">>),
             Row("e", "bad", By("simp")), Row("f", "T", By("sorry")),
             [Row("g", "T", By("omega")) EXCEPT !.shape = "raises"]>>
Prompts == <<Row("m", "S", <<>>), Row("n", "T", <<>>), Row("m", "V", <<>>), Row("o", "W", <<>>)>>
Archive == <<Attested(Row("x", "S", By("simp"))), Attested(Row("y", "V", <<"fun">>))>>
Mirror == <<Attested(Row("x", "V", <<"by", "exact", "fun">>)), Attested(Row("z", "S", By("omega")))>>

Command(role, sources, verify, divide) ==
    [role |-> role, sources |-> sources, verify |-> verify, limit |-> 6,
     divide |-> divide, exclude |-> role = "grpo"]
Prepare == {Command("sft", <<Crawled>>, TRUE, TRUE), Command("sft", <<Crawled>>, FALSE, FALSE),
            [Command("sft", <<Crawled>>, TRUE, FALSE) EXCEPT !.limit = 2],
            Command("unify", <<Archive, Mirror>>, FALSE, FALSE),
            Command("grpo", <<[i \in DOMAIN Prompts |-> Attested(Prompts[i])]>>, FALSE, TRUE),
            Command("grpo", <<Prompts>>, TRUE, FALSE)}
Release == {Command("sft", <<Crawled>>, TRUE, FALSE)}

\* K kills the server, ring times out; exact takes a term, not a tactic
LeanSays(source) ==
    CASE source[1] = "K" -> "kills"
      [] "ring" \in Range(source[2]) -> "times_out"
      [] "sorry" \in Range(source[2]) -> "sorry"
      [] source[2] = <<"by", "exact", "simp">> -> "rejects"
      [] OTHER -> "accepts"
Refused(source) == "sorry" \in Range(source[2])
PrefixedAll(stmt) == stmt # "bad"
QuotesQ(stmt) == stmt = "Q"
FitsAll(r) == r.stmt # "W"

Texts(n) == UNION {[1 .. k -> {":", "=", "-", "/", "(", ")", "\"", "b", "s"}] : k \in 0 .. n}
Proofs == {<<"b">>, <<"b", ":", "=", "b">>, <<"-", "-", "\n", "b">>,
           <<"/", "-", "s", "-", "/", " ", "b", "\"">>}
ASSUME Scanner!SplitsWhatIsComposed(Texts(4), Proofs)
ASSUME Scanner!FindsPlaceholders(Texts(4))
================================================================================

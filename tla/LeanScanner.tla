------------------------------ MODULE LeanScanner ------------------------------
(***************************************************************************)
(* preparation.py: the lexical scans that separate a Lean declaration from *)
(* its proof and find forbidden words.  A text is a sequence of characters;*)
(* "b" stands for a word that starts a proof (by, fun, ...), "s" for a     *)
(* placeholder (sorry, admit, sorryAx).                                    *)
(***************************************************************************)
EXTENDS Integers, Sequences, SequencesExt

Openers == {"(", "["}
CloserOf(c) == IF c = "(" THEN ")" ELSE "]"
Closers == {CloserOf(c) : c \in Openers}

At(code, i) == IF i \in DOMAIN code THEN code[i] ELSE ""
Pair(code, i) == <<At(code, i), At(code, i + 1)>>
Letters == {"b", "s"}
\* the letter is a word of its own, not a part of an identifier
IsWord(code, i, letter) ==
    code[i] = letter /\ At(code, i - 1) \notin Letters /\ At(code, i + 1) \notin Letters

\* where: "code", "line" and "block" comments, "string"; skip: the character
\* belongs to a pair that was read with the one before it
Start == [where |-> "code", depth |-> 0, escaped |-> FALSE, skip |-> FALSE,
          stack |-> <<>>, candidates |-> <<>>]

InLine(s, code, i) == IF code[i] = "\n" THEN [s EXCEPT !.where = "code"] ELSE s

InBlock(s, code, i) ==
    CASE Pair(code, i) = <<"/", "-">> -> [s EXCEPT !.depth = @ + 1, !.skip = TRUE]
      [] Pair(code, i) = <<"-", "/">> ->
            [s EXCEPT !.depth = @ - 1, !.skip = TRUE,
                      !.where = IF s.depth = 1 THEN "code" ELSE "block"]
      [] OTHER -> s

InString(s, code, i) ==
    CASE s.escaped -> [s EXCEPT !.escaped = FALSE]
      [] ~ s.escaped /\ code[i] = "\\" -> [s EXCEPT !.escaped = TRUE]
      [] ~ s.escaped /\ code[i] = "\"" -> [s EXCEPT !.where = "code"]
      [] OTHER -> s

InCode(s, code, i) ==
    CASE Pair(code, i) = <<"-", "-">> -> [s EXCEPT !.where = "line", !.skip = TRUE]
      [] Pair(code, i) = <<"/", "-">> ->
            [s EXCEPT !.where = "block", !.depth = 1, !.skip = TRUE]
      [] code[i] = "\"" -> [s EXCEPT !.where = "string"]
      [] code[i] \in Openers -> [s EXCEPT !.stack = Append(@, CloserOf(code[i]))]
      [] code[i] \in Closers /\ s.stack # <<>> /\ Last(s.stack) = code[i] ->
            [s EXCEPT !.stack = Front(@)]
      [] Pair(code, i) = <<":", "=">> /\ s.stack = <<>> ->
            [s EXCEPT !.candidates = Append(@, i), !.skip = TRUE]
      [] OTHER -> s

Read(s, code, i) ==
    CASE s.skip -> [s EXCEPT !.skip = FALSE]
      [] ~ s.skip /\ s.where = "line" -> InLine(s, code, i)
      [] ~ s.skip /\ s.where = "block" -> InBlock(s, code, i)
      [] ~ s.skip /\ s.where = "string" -> InString(s, code, i)
      [] ~ s.skip /\ s.where = "code" -> InCode(s, code, i)

Scan(code) ==
    FoldLeft(LAMBDA s, i : Read(s, code, i), Start, [i \in DOMAIN code |-> i])

\* _strip_leading_space_and_comments: where the text proper begins
Blank == {" ", "\n"}
LeadEnd(text) ==
    LET step(s, i) ==
            CASE s.at # 0 \/ s.skip -> [s EXCEPT !.skip = FALSE]
              [] s.at = 0 /\ ~ s.skip /\ s.where = "line" -> InLine(s, text, i)
              [] s.at = 0 /\ ~ s.skip /\ s.where = "block" -> InBlock(s, text, i)
              [] OTHER ->
                    CASE text[i] \in Blank -> s
                      [] Pair(text, i) = <<"-", "-">> ->
                            [s EXCEPT !.where = "line", !.skip = TRUE]
                      [] Pair(text, i) = <<"/", "-">> ->
                            [s EXCEPT !.where = "block", !.depth = 1, !.skip = TRUE]
                      [] OTHER -> [s EXCEPT !.at = i]
    IN FoldLeft(step, [where |-> "code", depth |-> 0, skip |-> FALSE, at |-> 0],
                [i \in DOMAIN text |-> i]).at

\* _rhs_starts_like_proof
StartsLikeProof(rhs) == LeadEnd(rhs) # 0 /\ IsWord(rhs, LeadEnd(rhs), "b")

Rest(code, i) == SubSeq(code, i, Len(code))

\* find_top_level_declaration_assignment: 0 stands for None, -1 for the error
Assignment(code) ==
    LET candidates == Scan(code).candidates
        proofLike == SelectSeq(candidates, LAMBDA i : StartsLikeProof(Rest(code, i + 2)))
    IN CASE candidates = <<>> -> 0
         [] proofLike # <<>> -> proofLike[1]
         [] proofLike = <<>> /\ Len(candidates) = 1 -> candidates[1]
         [] OTHER -> -1

\* split_lean_statement_and_proof of a text that is not ambiguous
SplitStatement(code) ==
    IF Assignment(code) = 0 THEN <<code, <<>>>>
    ELSE <<SubSeq(code, 1, Assignment(code) - 1), Rest(code, Assignment(code) + 2)>>

\* strip_lean_proof_body: an ambiguous text is taken for a statement
StatementOf(code) == IF Assignment(code) = -1 THEN code ELSE SplitStatement(code)[1]

\* contains_forbidden_proof_token, lean_code_tokens: a placeholder counts when
\* it is read as code
ForbiddenAt(code, i) ==
    LET before == Scan(SubSeq(code, 1, i - 1))
    IN IsWord(code, i, "s") /\ before.where = "code" /\ ~ before.skip
ContainsForbidden(code) == \E i \in DOMAIN code : ForbiddenAt(code, i)

-----------------------------------------------------------------------------
(* What the callers rely on, for every text of bounded length.             *)

\* A declaration that is composed of a statement without an assignment of its
\* own and a proof is taken apart again into the same two parts.
SplitsWhatIsComposed(statements, proofs) ==
    \A s \in statements, p \in proofs :
        LET end == Scan(s) IN
        (end.where = "code" /\ ~ end.skip /\ end.stack = <<>> /\ end.candidates = <<>>
            /\ (s = <<>> \/ Last(s) \notin {"-", "/", ":"}))
          => SplitStatement(s \o <<":", "=", " ">> \o p) = <<s, <<" ">> \o p>>

\* Nothing before a placeholder hides it from the scan of a source but an open
\* comment or string, which Lean does not read either; and only texts that have
\* one are refused.
FindsPlaceholders(texts) ==
    \A t \in texts :
        /\ (Scan(t).where = "code" /\ ~ Scan(t).skip)
             => ContainsForbidden(t \o <<" ", "s">>)
        /\ ContainsForbidden(t) => \E i \in DOMAIN t : t[i] = "s"
================================================================================

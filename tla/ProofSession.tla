----------------------------- MODULE ProofSession -----------------------------
(***************************************************************************)
(* backends/pantograph_backend.py: the proof states a search holds over    *)
(* one Pantograph server.  The server numbers its states from 0 in each    *)
(* process; the backend knows them by that number alone, also after        *)
(* close() and a new start().  A session is a record, an operation maps it *)
(* to the next one; true is the path the server really took, which the     *)
(* backend does not keep.                                                  *)
(***************************************************************************)
EXTENDS Integers, Sequences, FiniteSets, Functions, SequencesExt

Empty == [i \in {} |-> <<>>]
Closed == [up |-> FALSE, gen |-> 0, next |-> 0, states |-> Empty, lineage |-> Empty,
           released |-> {}, held |-> {}]

\* _ensure_server
Ensured(s) == IF s.up THEN s ELSE [s EXCEPT !.up = TRUE, !.gen = @ + 1, !.next = 0]
\* _register: the new state replaces whatever had its number
Register(s, parent, tactic, true, finished) ==
    LET h == [id |-> s.next, gen |-> s.gen, parent |-> parent, tactic |-> tactic,
              true |-> true, finished |-> finished]
        With(f) == [i \in DOMAIN f \cup {h.id} |-> IF i = h.id THEN h ELSE f[i]]
    IN [s EXCEPT !.next = @ + 1, !.states = With(@), !.lineage = With(@),
                 !.held = @ \cup {h}]
Start(s) == Register(Ensured(s), <<>>, <<>>, <<>>, FALSE)

\* _assert_live
Live(s, h) == h.id \in DOMAIN s.states /\ h.id \notin s.released
\* apply_tactic; the server applies the tactic to its state of that number
ApplyTactic(s, h, tactic, finishes) ==
    IF ~ Live(s, h) \/ h.finished THEN s
    ELSE Register(s, <<h.id>>, <<tactic>>, Append(s.states[h.id].true, tactic), finishes)
ReleaseState(s, h) ==
    IF ~ s.up \/ h.id \in s.released THEN s
    ELSE [s EXCEPT !.released = @ \cup {h.id},
                   !.states = Restrict(@, DOMAIN @ \ {h.id})]
Close(s) == [s EXCEPT !.up = FALSE, !.states = Empty, !.lineage = Empty, !.released = {}]

\* tactic_path: <<path>>, or <<>> when a parent is missing; ids fall on the way
\* up in every lineage the backend can hold, as many as there are states
RECURSIVE TacticPath(_, _)
TacticPath(s, h) ==
    IF h.parent = <<>> THEN <<<<>>>>
    ELSE IF h.parent[1] \notin DOMAIN s.lineage THEN <<>>
    ELSE LET above == TacticPath(s, s.lineage[h.parent[1]])
         IN IF above = <<>> THEN <<>> ELSE <<above[1] \o h.tactic>>

Steps(s, tactics) ==
    {Start(s), Close(s)}
      \cup {ReleaseState(s, h) : h \in s.held}
      \cup {ApplyTactic(s, h, t, f) : h \in s.held, t \in tactics, f \in BOOLEAN}
RECURSIVE After(_, _)
After(tactics, n) ==
    IF n = 0 THEN {Closed}
    ELSE LET before == After(tactics, n - 1)
         IN before \cup UNION {Steps(s, tactics) : s \in before}

\* While a server lives, the path of each of its states is the one the server
\* took, also below a released state, and a released state is never live again.
\* A state of a closed server may be taken for another one: only such a state
\* has a wrong path.
PathsAreTrue(s) ==
    \A h \in s.held : h.gen = s.gen /\ s.up =>
        /\ TacticPath(s, h) = <<h.true>>
        /\ Live(s, h) <=> h.id \notin s.released
StaleIsMistaken(s) == \E h \in s.held : h.gen < s.gen /\ Live(s, h)
================================================================================

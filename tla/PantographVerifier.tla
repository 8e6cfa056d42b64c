-------------------------- MODULE PantographVerifier --------------------------
(***************************************************************************)
(* verification/pantograph.py: how one worker turns a task into a verdict. *)
(* The worker keeps one Pantograph server, which is "up" or "down"; Lean's *)
(* answer to a source is a parameter.                                      *)
(***************************************************************************)
EXTENDS Integers, FiniteSets

CONSTANTS
    Reaction(_),      \* Lean's answer to a source, one of Reactions
    HasForbidden(_),  \* contains_forbidden_proof_token of a source
    Umbrella          \* the import that covers every other one (Mathlib)

\* accepts with a warning is "sorry"; the server may die
Reactions == {"accepts", "rejects", "sorry", "times_out", "kills"}
Servers == {"up", "down"}
Succeeds(verdict) == verdict = "accepted"

\* imports_are_covered
Covered(imports, serverImports) ==
    imports \subseteq serverImports \/ Umbrella \in serverImports

\* check_source: a verdict and what it leaves of the server.  A request that
\* times out may or may not take the server with it.
Check(server, source, rejectForbidden) ==
    LET verdicts(v, servers) == {v} \X servers IN
    IF rejectForbidden /\ HasForbidden(source) THEN verdicts("forbidden", {server})
    ELSE IF server = "down" THEN verdicts("gone", {"down"})
    ELSE CASE Reaction(source) = "accepts" -> verdicts("accepted", {"up"})
           [] Reaction(source) \in {"rejects", "sorry"} -> verdicts("rejected", {"up"})
           [] Reaction(source) = "times_out" -> verdicts("timeout", Servers)
           [] Reaction(source) = "kills" -> verdicts("gone", {"down"})

\* Mutant of ShouldRestart: a dead server is left as it is.
NeverRestart(verdict) == FALSE
\* _should_restart: the markers of a dead server, not those of a time-out
ShouldRestart(verdict) == verdict = "gone"

\* verify: a server that is found dead is replaced and the source checked once
\* more.  The new server may not start: the exception is the worker's.
Verify(server, task) ==
    IF ~ Covered(task.imports, task.serverImports) THEN {<<"uncovered", server>>}
    ELSE LET first == Check(server, task.source, task.rejectForbidden)
         IN {o \in first : ~ ShouldRestart(o[1])}
              \cup IF \A o \in first : ~ ShouldRestart(o[1]) THEN {}
                   ELSE Check("up", task.source, task.rejectForbidden)
                          \cup {<<"raises", "down">>}

-----------------------------------------------------------------------------
(* classify_pantograph_messages.  A message has the values of its fields   *)
(* severity, level, kind, type, in this order, and a marker in its text.   *)

Known == {"error", "warning", "info"}

\* _message_severity: the first field with a known value
Severity(message) ==
    LET known == {i \in DOMAIN message.fields : message.fields[i] \in Known} IN
    IF known = {} THEN "none"
    ELSE message.fields[CHOOSE i \in known : \A j \in known : i <= j]

IsA(kind, message) ==
    \/ Severity(message) = kind
    \/ Severity(message) = "none" /\ message.marker = kind

\* A check succeeds when no message is an error or a warning about sorry.
NoErrors(messages) ==
    \A m \in messages : ~ IsA("error", m) /\ ~ (IsA("warning", m) /\ m.sorry)
===============================================================================

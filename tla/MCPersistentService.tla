------------------------- MODULE MCPersistentService -------------------------
(* A small instance of PersistentService. *)
EXTENDS PersistentService

\* every sequence of five operations on one proof backend
Backend == INSTANCE ProofSession
Sessions == Backend!After({"intro", "simp"}, 5)
ASSUME \A s \in Sessions : Backend!PathsAreTrue(s)
ASSUME \E s \in Sessions : Backend!StaleIsMistaken(s)
=============================================================================

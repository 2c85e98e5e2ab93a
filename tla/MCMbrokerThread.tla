-------------------------- MODULE MCMbrokerThread --------------------------
(* Small instances of MbrokerThread for TLC. *)
EXTENDS MbrokerThread

CONSTANT x

MCNameOrder == <<"/a", "/b", "/c">>
MCMessages == {<<x>>}
\* Requests of different clients, and the session threads, are interchangeable.
ClientSymmetry == Permutations(Managers) \cup Permutations(Publishers)
                  \cup Permutations(SessionThreads)
=============================================================================

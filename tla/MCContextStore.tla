--------------------------- MODULE MCContextStore ---------------------------
(* Instances of ContextStore for TLC. *)
EXTENDS ContextStore, TLC

CONSTANTS a, b, r1, r2, v1, v2

MCWriters == {a, b}
MCOneReader == {r1}
MCContents == {v1, v2}

Symmetry == Permutations(MCWriters) \cup Permutations(MCContents)
=============================================================================

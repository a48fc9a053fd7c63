---------------------------- MODULE MCSafeProxy ----------------------------
(* Instances of SafeProxy for TLC. *)
EXTENDS SafeProxy, TLC

CONSTANTS w1, w2, c1, c2, q1, q2

MCWorkers   == {w1, w2}
MCOneWorker == {w1}
MCContents  == {c1, c2}
MCQueries   == {q1, q2}
MCOneQuery  == {q1}
MCOversized == {c2}

\* One run below the budget of 2, one that meets it exactly.
MCLatencies == {1, 2}

Symmetry == Permutations(MCWorkers) \cup Permutations(MCQueries)
=============================================================================

---------------------------- MODULE MCPathHistory ----------------------------
(* Small instances of PathHistory.  Three shadows against a limit of two: a  *)
(* third one pushes the oldest out, and one can be mapped again.  Two paths  *)
(* can share a shadow.                                                       *)
EXTENDS PathHistory, TLC

CONSTANTS w1, w2, p1, p2, s1, s2, s3

MCOneSetter == {w1}
MCSetters == {w1, w2}
MCOnePath == {p1}
MCPaths == {p1, p2}
MCShadows == {s1, s2, s3}

Symmetry == Permutations(MCSetters) \cup Permutations(MCPaths) \cup Permutations(MCShadows)
=============================================================================

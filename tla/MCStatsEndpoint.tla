-------------------------- MODULE MCStatsEndpoint --------------------------
(* An instance of StatsEndpoint for TLC: one worker and the stats handler. *)
EXTENDS StatsEndpoint, TLC

CONSTANTS w1, c1, c2, q1, q2

MCWorkers   == {w1}
MCContents  == {c1, c2}
MCQueries   == {q1, q2}
MCOversized == {c2}
MCLatencies == {1, 2}
=============================================================================

----------------------------- MODULE MCLiveRun -----------------------------
(* An instance of LiveRun for TLC: one scenario of two turns, one of one. *)
EXTENDS LiveRun

MCSessionTurns == <<2, 1>>
=============================================================================

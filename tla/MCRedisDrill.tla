---------------------------- MODULE MCRedisDrill ----------------------------
(* An instance of RedisDrill for TLC: the cfg gives the bound. *)
EXTENDS RedisDrill
=============================================================================

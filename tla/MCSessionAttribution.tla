----------------------- MODULE MCSessionAttribution -----------------------
(* Small instances of SessionAttribution: the cfgs give every bound. *)
EXTENDS SessionAttribution
=============================================================================

------------------------- MODULE MCRolloutPipeline -------------------------
(* An instance of RolloutPipeline for TLC: two tasks of one type, one of another. *)
EXTENDS RolloutPipeline

MCTaskType == [t \in {"d1", "d2", "e1"} |->
                 IF t \in {"d1", "d2"} THEN "debugging" ELSE "edit_critical"]
MCManifest == <<"d1", "e1", "d2">>
=============================================================================

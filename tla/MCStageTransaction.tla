------------------------- MODULE MCStageTransaction -------------------------
(***************************************************************************)
(* A stage with a marker, a file every bundle has and an optional file.    *)
(* Odd versions have the optional file, even ones remove it.               *)
(***************************************************************************)
EXTENDS StageTransaction

MCNames == {"marker", "body", "optional"}
MCVersions == 1..4
MCBundle == [v \in MCVersions |->
                IF v % 2 = 1 THEN MCNames ELSE {"marker", "body"}]
=============================================================================

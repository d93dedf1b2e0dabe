--------------------------- MODULE MCStage6Caches ----------------------------
(***************************************************************************)
(* Two inputs: the caches of one can be met by a run for the other.        *)
(***************************************************************************)
EXTENDS Stage6Caches

CONSTANTS i1, i2

MCInputs == {i1, i2}
=============================================================================

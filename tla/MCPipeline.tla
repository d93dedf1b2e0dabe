----------------------------- MODULE MCPipeline -----------------------------
(***************************************************************************)
(* Two patches; the bounds are given in the configurations.                *)
(***************************************************************************)
EXTENDS Pipeline

CONSTANTS p1, p2

TwoPatches == <<p1, p2>>
OnePatch == <<p1>>
=============================================================================

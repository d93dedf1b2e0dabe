---------------------------- MODULE MCStage6Solve ----------------------------
(***************************************************************************)
(* Two inputs over four interferograms: the first solves three of them, the *)
(* second, with one more dropped, two.  Pools of one and six threads give   *)
(* one and two workers, so that a chunk of two is followed by one of one.   *)
(* The grid of the second input has one cell more than the largest usize.   *)
(***************************************************************************)
EXTENDS Stage6Solve

CONSTANTS i1, i2

MCInputs == {i1, i2}
MCIfgs == 1..4
MCUnwrap == [i \in MCInputs |-> IF i = i1 THEN {1, 3, 4} ELSE {1, 3}]
MCPools == {1, 6}
MCUsizeMax == 16777215
MCRows == [i \in MCInputs |-> IF i = i1 THEN 932 ELSE 4096]
MCCols == [i \in MCInputs |-> IF i = i1 THEN 2361 ELSE 4096]
=============================================================================

--------------------------- MODULE MCFlowOptimizer --------------------------
(***************************************************************************)
(* Instances of FlowOptimizer on the grid of two by three cells, the        *)
(* smallest with a cycle of three nodes, and of three by three cells, which *)
(* has four plaquettes and several windows.                                 *)
(***************************************************************************)
EXTENDS FlowOptimizer

(* Edges as costs.rs makes them: a measured edge with its variance and      *)
(* offset, and an edge of noise above 1.3 rad, which has a shelf of 1.      *)
Measured(sigsq, offset) ==
    [cost |-> sigsq, offset |-> offset, dzmax |-> 32000, laycost |-> NoShelf]
Noisy == [cost |-> 1, offset |-> 0, dzmax |-> 32000, laycost |-> 1]

(* One value per cell or edge, counted from 0. *)
Table(values) == [index \in 0 .. Len(values) - 1 |-> values[index + 1]]

(* Three by three, and the same without the last cell. *)
SquarePhases ==
    {Table(<<0, upper, -1, -1, 1, 1, 0, lower, 1>>) : upper \in {-1, 1}, lower \in {0, 1}}
    \cup {Table(<<0, upper, -1, -1, 1, 1, 0, 1>>) : upper \in {-1, 1}}

(* Every edge measured: some well and with a steep offset, and the others   *)
(* badly.                                                                   *)
MeasuredCosts ==
    {[edge \in Edges |-> IF edge \in steep THEN Measured(5000, offset)
                         ELSE Measured(20000, IF edge % 2 = 0 THEN 0 ELSE -offset)] :
        steep \in {{2}, {0, 2, 7}, {2, 4, 5, 9}, {1, 2, 6, 10, 11}},
        offset \in {150, 300, 500}}

(* Every third edge noisy. *)
ShelvedCosts ==
    {[edge \in Edges |-> IF edge % 3 = first THEN Noisy
                         ELSE Measured(10000, IF edge % 2 = 0 THEN offset ELSE -400)] :
        first \in {0, 1}, offset \in {0, 100, 400}}

SquareCosts == MeasuredCosts \cup ShelvedCosts

(* One interferogram without an end of its flow. *)
EndlessPhase == {Table(<<1, -1, -1, -1, 1, 0>>)}
EndlessCosts ==
    {Table(<<Measured(5000, 100), Measured(32767, 400), Measured(32767, -400),
             Measured(5000, 200), Measured(10000, 0), Noisy, Noisy>>)}
=============================================================================

----------------------------- MODULE UnwrapGrid -----------------------------
(***************************************************************************)
(* The grid a Stage 6 solve unwraps and the graph its flow runs on, from    *)
(* rustamps-core/src/stage6/unwrap (prefix stage6_ of its files left out).  *)
(*                                                                         *)
(* Cells are numbered row by row.  An edge joins two neighbouring cells;    *)
(* horizontal edges are numbered before vertical ones, as the arc pairs of  *)
(* residual_view.rs are.  A plaquette is the square between four cells;     *)
(* plaquettes and one ground node are the nodes of the flow, and an edge is *)
(* crossed by two arcs, 2 * edge and 2 * edge + 1, that point either way.   *)
(* An absent edge is one that is not in the domain of the cost function.    *)
(***************************************************************************)
EXTENDS Integers, FiniteSets

CONSTANTS
    NRow, NCol,      \* cells of the grid
    NShortCycle,     \* nshortcycle: cost units of one cycle (200 in solve.rs)
    Turn             \* phase steps of one turn, odd: no difference is half a turn

ASSUME GridAssumption ==
    /\ NRow \in Nat \ {0, 1}
    /\ NCol \in Nat \ {0, 1}
    /\ NShortCycle \in Nat \ {0}
    /\ Turn \in Nat /\ Turn % 2 = 1

PRow == NRow - 1
PCol == NCol - 1

Cells == 0 .. NRow * NCol - 1
HorizontalEdges == NRow * PCol
Edges == 0 .. HorizontalEdges + PRow * NCol - 1
IsHorizontal(edge) == edge < HorizontalEdges

(* horizontal_index, vertical_index read backwards: the cells of an edge,   *)
(* left to right or top to bottom.                                          *)
CellsOf(edge) ==
    IF IsHorizontal(edge)
    THEN LET left == (edge \div PCol) * NCol + (edge % PCol) IN <<left, left + 1>>
    ELSE LET upper == edge - HorizontalEdges IN <<upper, upper + NCol>>

(* flow_sign of decode_cost_edges. *)
FlowSign(edge) == IF IsHorizontal(edge) THEN 1 ELSE -1

-----------------------------------------------------------------------------
(* Plaquettes and arcs. *)

Ground == PRow * PCol
Nodes == 0 .. Ground

(* horizontal_arc, vertical_arc: the nodes on both sides of an edge. *)
NodesOf(edge) ==
    IF IsHorizontal(edge)
    THEN <<IF edge < PCol THEN Ground ELSE edge - PCol,
           IF edge >= PRow * PCol THEN Ground ELSE edge>>
    ELSE LET row == (edge - HorizontalEdges) \div NCol
             col == (edge - HorizontalEdges) % NCol
         IN  <<IF col = PCol THEN Ground ELSE row * PCol + col,
               IF col = 0 THEN Ground ELSE row * PCol + col - 1>>

EdgeOf(arc) == arc \div 2
IsReverse(arc) == arc % 2 = 1
ArcsOf(edges) == {2 * edge : edge \in edges} \cup {2 * edge + 1 : edge \in edges}
EdgesOf(arcs) == {EdgeOf(arc) : arc \in arcs}

From == [arc \in ArcsOf(Edges) |-> NodesOf(EdgeOf(arc))[IF IsReverse(arc) THEN 2 ELSE 1]]
To == [arc \in ArcsOf(Edges) |-> NodesOf(EdgeOf(arc))[IF IsReverse(arc) THEN 1 ELSE 2]]

(* The edges around a plaquette and, of edge_residues, their signs. *)
Top(node) == node
Bottom(node) == node + PCol
Left(node) == HorizontalEdges + (node \div PCol) * NCol + (node % PCol)
Right(node) == Left(node) + 1
EdgesAround(node) == {Top(node), Right(node), Bottom(node), Left(node)}

(* edge_residues: a plaquette with a missing edge has none. *)
Residue(delta, node) ==
    IF EdgesAround(node) \subseteq DOMAIN delta
    THEN delta[Top(node)] + delta[Right(node)] - delta[Bottom(node)] - delta[Left(node)]
    ELSE 0

-----------------------------------------------------------------------------
(* Decoding. *)

(* desired_label_delta with wrap_phase: the turns that are missing between  *)
(* two wrapped phases.  The code keeps a float that rounds to this integer. *)
DesiredDelta(from, to) ==
    LET half == (Turn - 1) \div 2
        wrapped == (((to - from) + half) % Turn) - half
    IN  (wrapped - (to - from)) \div Turn

(* decode_cost_edges: an edge exists between two cells with a phase; the    *)
(* validity marker of a cost is never zero in the costs that costs.rs       *)
(* builds.  A cell without phase is not in the domain.                      *)
PresentEdges(phase) ==
    {edge \in Edges : {CellsOf(edge)[1], CellsOf(edge)[2]} \subseteq DOMAIN phase}

DecodedDelta(phase) ==
    [edge \in PresentEdges(phase) |->
        DesiredDelta(phase[CellsOf(edge)[1]], phase[CellsOf(edge)[2]])]

-----------------------------------------------------------------------------
(* Costs. *)

Masked == 32000      \* the cost that makes an edge free, and the largest dzmax
NoShelf == -32000    \* the laycost of an edge without a shelf
MaxIncrement == 32000

AbsVal(value) == IF value < 0 THEN -value ELSE value
AtLeast(value, bound) == IF value < bound THEN bound ELSE value
AtMost(value, bound) == IF value > bound THEN bound ELSE value

(* defo_edge_cost. *)
EdgeCost(edge, flow) ==
    LET sigsq == AtLeast(edge.cost, 1)
        dz == AbsVal(flow * NShortCycle + edge.offset)
        dzmax == IF edge.laycost = NoShelf THEN Masked ELSE AtLeast(edge.dzmax, 0)
        bowl == (dz * dz) \div sigsq
    IN  IF edge.cost = Masked THEN 0
        ELSE IF dz > dzmax
        THEN ((dz - dzmax) * (dz - dzmax)) \div (2 * sigsq) + edge.laycost
        ELSE IF edge.laycost = NoShelf THEN bowl ELSE AtMost(bowl, edge.laycost)

(* scale_increment: rounds away from zero and saturates. *)
ScaleIncrement(value, nflow) ==
    LET divisor == nflow * nflow
        scaled == IF value >= 0 THEN (value + divisor - 1) \div divisor
                                ELSE value \div divisor
    IN  AtMost(AtLeast(scaled, -MaxIncrement), MaxIncrement)

(* residual_arc_cost with defo_incremental_costs: what it costs to raise    *)
(* (or, on a reverse arc, lower) the delta of an edge by nflow.             *)
Correction(arc, nflow) == IF IsReverse(arc) THEN -nflow ELSE nflow

ArcCost(cost, flow, nflow, arc) ==
    LET edge == EdgeOf(arc)
        moved == flow[edge] + FlowSign(edge) * Correction(arc, nflow)
    IN  ScaleIncrement(EdgeCost(cost[edge], moved) - EdgeCost(cost[edge], flow[edge]), nflow)
=============================================================================

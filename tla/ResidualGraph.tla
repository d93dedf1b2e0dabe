--------------------------- MODULE ResidualGraph ----------------------------
(***************************************************************************)
(* How the flow optimizer of Stage 6 picks what it changes: the first       *)
(* routing of the residues (mst_flow.rs, mst.rs), the spanning trees        *)
(* (tree_compact.rs, compact_dsu.rs), the cycles a tree arc closes          *)
(* (tree_basis.rs, tree_candidates.rs), the Bellman-Ford search             *)
(* (residual.rs) and its windows (local_cycles.rs).                         *)
(***************************************************************************)
EXTENDS UnwrapGrid, Sequences, FiniteSetsExt, SequencesExt

CONSTANTS
    WindowRadius,    \* LOCAL_WINDOW_RADIUS (8)
    WindowLimit,     \* LOCAL_WINDOW_LIMIT (256)
    None

ASSUME ResidualAssumption ==
    /\ WindowRadius \in Nat /\ WindowLimit \in Nat \ {0}
    /\ None \notin Int

(* Tuples are compared as the code's are. *)
Precedes(left, right) ==
    \E i \in DOMAIN left : left[i] < right[i] /\ \A j \in 1 .. i - 1 : left[j] = right[j]

(* The count smallest tuples of a set, as a sequence. *)
Smallest(tuples, count) ==
    [index \in 1 .. AtMost(Cardinality(tuples), count) |->
        CHOOSE x \in tuples : Cardinality({y \in tuples : Precedes(y, x)}) = index - 1]

(* The arcs, or edges, that end the tuples: the other elements are a key.   *)
SortedBy(tuples, count) ==
    LET sorted == Smallest(tuples, count)
    IN  [index \in DOMAIN sorted |-> sorted[index][Len(sorted[index])]]

-----------------------------------------------------------------------------
(* Trees of the residual graph, as sets of arcs. *)

(* In one set of a CompactDisjointSet after the unions of arcs: an arc      *)
(* crosses every border between the two nodes.                              *)
Joined(arcs, left, right) ==
    \A part \in SUBSET Nodes :
        left \in part /\ right \notin part
            => \E arc \in arcs : (From[arc] \in part) # (To[arc] \in part)

(* What find_negative_cycle needs of a tree: rebuild fails otherwise. *)
IsSpanningTree(tree) ==
    /\ Cardinality(tree) + 1 = Cardinality(Nodes)
    /\ \A node \in Nodes : Joined(tree, Ground, node)

(* spanning_tree_arc_indices_compact_with_order: the arcs that join what    *)
(* the arcs before them, in the order of the keys, have not.                *)
GreedyTree(arcs, key) ==
    {arc \in arcs :
        ~Joined({other \in arcs : Precedes(key[other], key[arc])}, From[arc], To[arc])}

(* CompactTreeState::new, for nflow 1: ArcOrder::Forward, NegativeFirst. *)
InitialTrees(cost, flow) ==
    LET arcs == ArcsOf(DOMAIN cost)
        Price(arc) == ArcCost(cost, flow, 1, arc)
        forward == [arc \in arcs |-> <<arc>>]
        negativeFirst ==
            [arc \in arcs |-> IF Price(arc) < 0 THEN <<0, Price(arc), arc>> ELSE <<1, 0, arc>>]
    IN  <<GreedyTree(arcs, forward), GreedyTree(arcs, negativeFirst)>>

(* path_arcs: the arcs that lead from one node to another inside a tree.  A *)
(* tree edge is on the path when the ends are apart without it.             *)
TreePath(tree, from, to) ==
    {arc \in ArcsOf(EdgesOf(tree)) :
        LET rest == {other \in tree : EdgeOf(other) # EdgeOf(arc)}
        IN  /\ ~Joined(rest, from, to)
            /\ Joined(rest, from, From[arc]) /\ Joined(rest, To[arc], to)}

(* cycle_for_arc: an arc outside the tree and the way back inside it.       *)
TreeCycle(tree, entering) == {entering} \cup TreePath(tree, To[entering], From[entering])

CycleCost(cost, flow, nflow, cycle) ==
    MapThenSumSet(LAMBDA arc : ArcCost(cost, flow, nflow, arc), cycle)

(* best_negative_arc, negative_candidate_arcs: the limit cheapest arcs that *)
(* close a negative cycle, the cheapest first.  The parallel search returns *)
(* the same.                                                                *)
NegativeArcs(cost, flow, nflow, tree, limit) ==
    LET outside == ArcsOf(DOMAIN cost \ EdgesOf(tree))
        priced == {<<CycleCost(cost, flow, nflow, TreeCycle(tree, arc)), arc>> :
                      arc \in outside}
    IN  SortedBy({pair \in priced : pair[1] < 0}, limit)

\* Mutant: an arc that need not be on the cycle leaves the tree.
PivotAnywhere(tree, entering) ==
    (tree \ {CHOOSE arc \in tree : \A other \in tree : arc >= other}) \cup {entering}

(* pivot_compact_tree_on_cycle_fast: the entering arc takes the place of    *)
(* the first tree arc of the cycle, the one that leaves its head.           *)
Pivot(tree, entering) ==
    LET leaving == CHOOSE arc \in TreePath(tree, To[entering], From[entering]) :
                       From[arc] = To[entering]
    IN  {arc \in tree : EdgeOf(arc) # EdgeOf(leaving)} \cup {entering}

-----------------------------------------------------------------------------
(* find_negative_unit_cycle. *)

(* One relaxation; an arc does not go straight back over the edge that its  *)
(* tail was reached by.                                                     *)
Relax(cost, flow, nflow, search, arc) ==
    LET via == search.via[From[arc]]
        next == search.dist[From[arc]] + ArcCost(cost, flow, nflow, arc)
    IN  IF (via # None /\ EdgeOf(via) = EdgeOf(arc)) \/ next >= search.dist[To[arc]]
        THEN search
        ELSE [dist |-> [search.dist EXCEPT ![To[arc]] = next],
              via |-> [search.via EXCEPT ![To[arc]] = arc],
              relaxed |-> To[arc]]

(* After the given number of rounds over all arcs; a round that relaxes     *)
(* nothing ends the search.                                                 *)
Search(cost, flow, nflow, arcs, rounds) ==
    LET Visit(search, arc) == Relax(cost, flow, nflow, search, arc)
        after[round \in 0 .. rounds] ==
            IF round = 0
            THEN [dist |-> [node \in Nodes |-> 0], via |-> [node \in Nodes |-> None],
                  relaxed |-> 0]
            ELSE LET search == after[round - 1]
                 IN  IF search.relaxed = None THEN search
                     ELSE FoldLeft(Visit, [search EXCEPT !.relaxed = None], arcs)
    IN  after[rounds]

(* Walk back long enough from the node relaxed last to be on a cycle, if    *)
(* there is one, and then once around it.                                   *)
CycleBehind(search, rounds) ==
    LET Back(node) == IF node = None \/ search.via[node] = None THEN None
                      ELSE From[search.via[node]]
        walk[steps \in 0 .. 2 * rounds] ==
            IF steps = 0 THEN search.relaxed ELSE Back(walk[steps - 1])
        around == {walk[steps] : steps \in rounds .. 2 * rounds}
    IN  IF None \in around THEN {} ELSE {search.via[node] : node \in around}

(* The cycle found among arcs, or {}. *)
FoundCycle(cost, flow, nflow, arcs, rounds) ==
    LET Negative(cycle) == IF CycleCost(cost, flow, nflow, cycle) < 0 THEN cycle ELSE {}
    IN  Negative(CycleBehind(Search(cost, flow, nflow, arcs, rounds), rounds))

(* build_residual_arcs_with_nflow, with the nodes of the whole graph. *)
AllArcs(cost) == SortedBy({<<arc>> : arc \in ArcsOf(DOMAIN cost)}, 2 * Cardinality(DOMAIN cost))

-----------------------------------------------------------------------------
(* Windows of local_cycles.rs, as <<first row, first column, row after the  *)
(* last, column after the last>> of plaquettes.                             *)

(* candidate_windows: around the edges with the cheapest negative arcs.     *)
Windows(cost, flow, nflow) ==
    LET Best(edge) == Min({ArcCost(cost, flow, nflow, 2 * edge),
                           ArcCost(cost, flow, nflow, 2 * edge + 1)})
        Line(index, count) == AtMost(AtLeast(index - 1, 0), count - 1)
        Row(edge) == IF IsHorizontal(edge) THEN Line(edge \div PCol, PRow)
                     ELSE (edge - HorizontalEdges) \div NCol
        Col(edge) == IF IsHorizontal(edge) THEN edge % PCol
                     ELSE Line((edge - HorizontalEdges) % NCol, PCol)
        priced == {<<Best(edge), Row(edge), Col(edge), edge>> : edge \in DOMAIN cost}
        Window(edge) ==
            <<AtLeast(Row(edge) - WindowRadius, 0), AtLeast(Col(edge) - WindowRadius, 0),
              AtMost(Row(edge) + WindowRadius + 1, PRow),
              AtMost(Col(edge) + WindowRadius + 1, PCol)>>
        AddNew(windows, edge) ==
            IF Contains(windows, Window(edge)) THEN windows
            ELSE Append(windows, Window(edge))
    IN  FoldLeft(AddNew, <<>>, SortedBy({tuple \in priced : tuple[1] < 0}, WindowLimit))

NodesIn(window) ==
    {node \in Nodes \ {Ground} :
        /\ node \div PCol \in window[1] .. window[3] - 1
        /\ node % PCol \in window[2] .. window[4] - 1}

(* window_residual_arcs: the arcs between the plaquettes of a window and    *)
(* the ground, horizontal edges column by column.                           *)
WindowArcs(cost, window) ==
    LET inside == NodesIn(window) \cup {Ground}
        arcs == {arc \in ArcsOf(DOMAIN cost) : {From[arc], To[arc]} \subseteq inside}
        Column(arc) == IF IsHorizontal(EdgeOf(arc)) THEN EdgeOf(arc) % PCol ELSE PCol
    IN  SortedBy({<<Column(arc), arc>> : arc \in arcs}, Cardinality(arcs))

-----------------------------------------------------------------------------
(* shortest_path_initial_flows. *)

(* mst_scalar_weight. *)
Weight(edge) ==
    LET base == EdgeCost(edge, 0)
    IN  AtMost(AtLeast(Min({EdgeCost(edge, 1), EdgeCost(edge, -1)}) - base, 1), 1000)

(* The loop over the heap: nodes leave it by distance and number, and each  *)
(* keeps the arc towards the node that reached it first, over a vertical    *)
(* edge before a horizontal one.  A node is <<distance, node, distance of   *)
(* the node before it, that node, 0 or 1, arc>>.                            *)
ShortestPaths(cost, root) ==
    LET Reached(settled) ==
            {<<pair[1][1] + Weight(cost[EdgeOf(pair[2])]), From[pair[2]],
               pair[1][1], pair[1][2],
               IF IsHorizontal(EdgeOf(pair[2])) THEN 1 ELSE 0, pair[2]>> :
                pair \in {p \in settled \X ArcsOf(DOMAIN cost) :
                    /\ To[p[2]] = p[1][2]
                    /\ \A other \in settled : other[2] # From[p[2]]}}
        Settle(settled) == settled \cup Range(Smallest(Reached(settled), 1))
        after[count \in Nodes] ==
            IF count = 0 THEN {<<0, root, 0, root, 0, None>>}
            ELSE Settle(after[count - 1])
    IN  after[Ground]

(* The corrections mst_initial_flows and apply_mst_flows make to the deltas:*)
(* every charge is pushed along the tree of shortest paths to the root.     *)
InitialCorrections(cost, delta) ==
    LET Charge(node) ==
            IF node # Ground THEN Residue(delta, node)
            ELSE -MapThenSumSet(LAMBDA n : Residue(delta, n), Nodes \ {Ground})
        terminals == {node \in Nodes : Charge(node) # 0}
        root == Min(terminals)
        links == {path[6] : path \in {p \in ShortestPaths(cost, root) : p[2] # root}}
        Amount(arc) ==
            MapThenSumSet(Charge, {node \in terminals : arc \in TreePath(links, node, root)})
    IN  [edge \in DOMAIN cost |->
            IF terminals = {} THEN 0 ELSE Amount(2 * edge) - Amount(2 * edge + 1)]
=============================================================================

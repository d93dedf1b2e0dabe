--------------------------- MODULE FlowOptimizer ----------------------------
(***************************************************************************)
(* optimize_edge_flows_with_parallel (native_flow.rs): the integer flow     *)
(* that turns wrapped phase differences into consistent ones at low cost.   *)
(*                                                                         *)
(* The residues are routed once.  Then phases follow each other, each with  *)
(* its increment nflow: a phase repeats passes until one changes nothing; a *)
(* pass saturates negative cycles that its two spanning trees close         *)
(* (optimize_tree_cycles_compact_with_state, optimize_large_tree_cycles)    *)
(* and then negative cycles found by search (cancel_negative_cycles_with_   *)
(* nflow, cancel_local_negative_cycles_with_nflow).  After a phase the      *)
(* objective decides whether there is another one.                          *)
(*                                                                         *)
(* The code is sequential and deterministic; all choice is in the initial   *)
(* state, the phase and the costs of an interferogram.                      *)
(***************************************************************************)
EXTENDS ResidualGraph

CONSTANTS
    PhaseGrids,      \* the wrapped phases of Init: functions on subsets of Cells
    CostGrids,       \* the costs of Init: functions on Edges
    MaxCycles,       \* snaphu_flow_tree_cycle_limit: cycles of one pass (28 and more)
    MaxNFlowCycles,  \* snaphu_max_nflow_cycles: 0 on grids below 50 000 cells
    MaxFlow,         \* SNAPHU_DEFAULT_MAX_FLOW (4)
    MaxPasses,       \* max_flow_passes, or None: run to convergence
    ExactNodes,      \* values of SMALL_GRAPH_EXACT_CYCLE_NODES (4096 in the code)
    RebaseNodes,     \* REBASE_NODE_LIMIT (8192)
    BatchLimit       \* CANDIDATE_BATCH_LIMIT (32)

ASSUME OptimizerAssumption ==
    /\ MaxCycles \in Nat \ {0} /\ MaxNFlowCycles \in Nat /\ MaxFlow \in Nat \ {0}
    /\ MaxPasses = None \/ MaxPasses \in Nat \ {0}
    /\ ExactNodes \subseteq Nat /\ RebaseNodes \in Nat /\ BatchLimit \in Nat \ {0}

\* What optimize_edge_flows_with_parallel is given: phases in units that are integers, and
\* four integers of cost for each edge.
ASSUME InputsAssumption ==
    /\ \A grid \in PhaseGrids :
          DOMAIN grid \subseteq Cells /\ \A cell \in DOMAIN grid : grid[cell] \in Int
    /\ \A grid \in CostGrids, edge \in Edges :
          grid[edge] \in [cost : Int, offset : Int, dzmax : Int, laycost : Int]

VARIABLES
    phase,           \* the wrapped phases (input)
    cost,            \* the costs of the present edges (input)
    exactNodes,      \* SMALL_GRAPH_EXACT_CYCLE_NODES (input): a grid of few plaquettes
                     \* stands for a small graph and for a large one
    delta, flow,     \* desired_delta and flow of every present edge
    trees,           \* CompactTreeState::trees
    pc,              \* route, pass, saturate, check, done
    stage,           \* of a pass: tree 1, tree 2, or 3 for the search
    windows,         \* of stage 3 on large graphs: windows still to search
    batch,           \* arcs or cycles selected and not yet saturated
    pushes,          \* increments of the cycle that is being saturated
    pivot,           \* the first arc of the batch that was pushed, or None
    applied,         \* cycles saturated in this pass
    total,           \* and in this phase
    passes,          \* passes used, if they are limited
    nflow, nflowDone, minimum, nondecreasing

input == <<phase, cost, exactNodes>>
arrays == <<delta, flow>>
inPass == <<stage, windows, batch, pushes, pivot, applied>>
control == <<nflow, nflowDone, minimum, nondecreasing>>
vars == <<input, arrays, trees, pc, inPass, total, passes, control>>

-----------------------------------------------------------------------------
(* edge_flow_objective. *)
Objective(flows) ==
    MapThenSumSet(LAMBDA edge : EdgeCost(cost[edge], flows[edge]), DOMAIN cost)

(* max_abs_edge_flow, at least 1. *)
MostFlow(flows) == Max({1} \cup {AbsVal(flows[edge]) : edge \in DOMAIN cost})

IsSmall == Cardinality(Nodes) <= exactNodes
CandidateLimit ==
    IF IsSmall \/ Cardinality(Nodes) <= RebaseNodes THEN 1 ELSE BatchLimit

(* connected in optimize_tree_cycles_compact_with_state. *)
SomeTreeSpans == \E index \in 1 .. 2 : Cardinality(trees[index]) + 1 = Cardinality(Nodes)

\* Mutant: arcs that point backwards raise the delta too.
OneWayCorrectionOf(arcs, edge) == IF edge \in EdgesOf(arcs) THEN nflow ELSE 0

(* apply_edge_correction on the edges of a cycle. *)
CorrectionOf(arcs, edge) ==
    IF 2 * edge \in arcs THEN Correction(2 * edge, nflow)
    ELSE IF 2 * edge + 1 \in arcs THEN Correction(2 * edge + 1, nflow)
    ELSE 0

CorrectBy(change) ==
    /\ delta' = [edge \in DOMAIN delta |-> delta[edge] + change[edge]]
    /\ flow' = [edge \in DOMAIN flow |-> flow[edge] + FlowSign(edge) * change[edge]]

-----------------------------------------------------------------------------
Init ==
    /\ phase \in PhaseGrids
    /\ \E costs \in CostGrids : cost = [edge \in PresentEdges(phase) |-> costs[edge]]
    /\ exactNodes \in ExactNodes
    /\ delta = DecodedDelta(phase)
    /\ flow = [edge \in PresentEdges(phase) |-> 0]
    /\ trees = <<{}, {}>>
    /\ pc = "route"
    /\ stage = 1 /\ windows = <<>> /\ batch = <<>> /\ pushes = 0 /\ pivot = None
    /\ applied = 0 /\ total = 0 /\ passes = 0
    /\ nflow = 1 /\ nflowDone = 0 /\ minimum = 0 /\ nondecreasing = 0

(* Up to the loop: route the residues, build the trees. *)
Route ==
    /\ pc = "route"
    /\ CorrectBy(InitialCorrections(cost, delta))
    /\ trees' = InitialTrees(cost, flow')
    /\ minimum' = Objective(flow')
    /\ pc' = "pass"
    /\ UNCHANGED <<input, inPass, total, passes, nflow, nflowDone, nondecreasing>>

(* A cycle to saturate: a tree stage keeps the arc that closes it, which is *)
(* looked up in the tree again; the search keeps the cycle itself.          *)
CycleOf(selected) ==
    IF stage = 3 THEN selected ELSE TreeCycle(trees[stage], selected)

Candidates ==
    IF stage = 3 \/ applied >= MaxCycles \/ ~IsSpanningTree(trees[stage]) THEN <<>>
    ELSE NegativeArcs(cost, flow, nflow, trees[stage],
                      Min({CandidateLimit, MaxCycles - applied}))

\* Mutant: an empty selection is saturated too.
SelectEmpty ==
    /\ pc = "pass" /\ stage < 3
    /\ batch' = Candidates
    /\ pc' = "saturate"
    /\ UNCHANGED <<input, arrays, trees, stage, windows, pushes, pivot, applied, total,
                   passes, control>>

(* The selection of one tree: find_negative_cycle or negative_cycles. *)
SelectTreeCycles ==
    /\ pc = "pass" /\ stage < 3
    /\ LET selected == Candidates
       IN  /\ selected # <<>>
           /\ batch' = selected
    /\ pc' = "saturate"
    /\ UNCHANGED <<input, arrays, trees, stage, windows, pushes, pivot, applied, total,
                   passes, control>>

(* Nothing is left to do for a tree.  The windows are chosen when the last  *)
(* one is left.                                                             *)
NextTree ==
    /\ stage' = stage + 1
    /\ windows' = IF stage = 2 /\ ~IsSmall THEN Windows(cost, flow, nflow) ELSE <<>>

LeaveTree ==
    /\ pc = "pass" /\ stage < 3
    /\ Candidates = <<>>
    /\ NextTree
    /\ UNCHANGED <<input, arrays, trees, pc, batch, pushes, pivot, applied, total, passes,
                   control>>

\* Mutant: the first increment is not priced again.
PushUnpriced ==
    /\ pc = "saturate"
    /\ \E cycle \in {CycleOf(Head(batch))} :
           /\ pushes = 0 \/ CycleCost(cost, flow, nflow, cycle) < 0
           /\ CorrectBy([edge \in DOMAIN delta |-> CorrectionOf(cycle, edge)])
    /\ pushes' = pushes + 1
    /\ UNCHANGED <<input, trees, pc, stage, windows, batch, pivot, applied, total, passes,
                   control>>

(* One increment of saturate_compact_residual_cycle_with_nflow or           *)
(* saturate_residual_cycle, whose cost is computed from the current flows.  *)
Push ==
    /\ pc = "saturate"
    /\ LET cycle == CycleOf(Head(batch))
       IN  /\ CycleCost(cost, flow, nflow, cycle) < 0
           /\ CorrectBy([edge \in DOMAIN delta |-> CorrectionOf(cycle, edge)])
    /\ pushes' = pushes + 1
    /\ UNCHANGED <<input, trees, pc, stage, windows, batch, pivot, applied, total, passes,
                   control>>

(* The cycle is not negative any more, or never was since the batch before  *)
(* it changed the flows.  A saturated cycle counts once.  A small or        *)
(* rebased tree, and a full pass, drop the rest of the batch; at its end    *)
(* the tree is pivoted on the first cycle that was pushed, and left if none *)
(* was.                                                                     *)
EndOfCycle ==
    /\ pc = "saturate"
    /\ CycleCost(cost, flow, nflow, CycleOf(Head(batch))) >= 0
    /\ LET count == applied + (IF pushes > 0 THEN 1 ELSE 0)
           first == IF pivot = None /\ pushes > 0 THEN Head(batch) ELSE pivot
           ends == \/ Len(batch) = 1
                   \/ pushes > 0 /\ (CandidateLimit = 1 \/ count = MaxCycles)
       IN  /\ applied' = count
           /\ IF ends THEN pc' = "pass" /\ batch' = <<>> /\ pivot' = None
              ELSE UNCHANGED pc /\ batch' = Tail(batch) /\ pivot' = first
           /\ IF ends /\ stage < 3 /\ first # None
              THEN trees' = [trees EXCEPT ![stage] = Pivot(@, first)] ELSE UNCHANGED trees
           /\ IF ends /\ stage < 3 /\ first = None
              THEN NextTree ELSE UNCHANGED <<stage, windows>>
    /\ pushes' = 0
    /\ UNCHANGED <<input, arrays, total, passes, control>>

\* Mutant: cycles are only looked for in the trees.
NoSearchResult == {}

(* Stage 3: the arcs and rounds of the next search.  Small graphs are       *)
(* searched whole; after a large graph's window follows the next one.       *)
SearchResult ==
    IF applied >= MaxCycles \/ ~SomeTreeSpans \/ (windows = <<>> /\ ~IsSmall) THEN {}
    ELSE FoundCycle(cost, flow, nflow,
             IF IsSmall THEN AllArcs(cost) ELSE WindowArcs(cost, Head(windows)),
             Cardinality(IF IsSmall THEN Nodes ELSE NodesIn(Head(windows)) \cup {Ground}))

(* A cycle that crosses an edge both ways is not saturated. *)
IsSaturable(cycle) == cycle # {} /\ Cardinality(EdgesOf(cycle)) = Cardinality(cycle)

SelectFoundCycle ==
    /\ pc = "pass" /\ stage = 3
    /\ LET cycle == SearchResult
       IN  /\ IsSaturable(cycle)
           /\ batch' = <<cycle>>
    /\ pc' = "saturate"
    /\ UNCHANGED <<input, arrays, trees, stage, windows, pushes, pivot, applied, total,
                   passes, control>>

NextWindow ==
    /\ pc = "pass" /\ stage = 3
    /\ ~IsSaturable(SearchResult)
    /\ applied < MaxCycles /\ SomeTreeSpans /\ windows # <<>>
    /\ windows' = Tail(windows)
    /\ UNCHANGED <<input, arrays, trees, pc, stage, batch, pushes, pivot, applied, total,
                   passes, control>>

(* The end of a pass in optimize_flow_increment: another one unless it      *)
(* changed nothing or the passes are used up.                               *)
EndOfPass ==
    /\ pc = "pass" /\ stage = 3
    /\ ~IsSaturable(SearchResult)
    /\ applied >= MaxCycles \/ ~SomeTreeSpans \/ windows = <<>>
    /\ LET used == IF MaxPasses = None THEN 0 ELSE passes + 1
           outOfPasses == MaxPasses # None /\ used >= MaxPasses
       IN  /\ passes' = used
           /\ pc' = IF outOfPasses THEN "done" ELSE IF applied = 0 THEN "check" ELSE "pass"
    /\ total' = total + applied
    /\ stage' = 1 /\ windows' = <<>> /\ applied' = 0
    /\ UNCHANGED <<input, arrays, trees, batch, pushes, pivot, control>>

(* next_flow_increment. *)
NextFlowIncrement(most) ==
    IF nflow + 1 > MaxFlow \/ nflow + 1 > most THEN 1 ELSE nflow + 1

\* Mutant: phases that change nothing are not counted.
CheckObjectiveUncounted ==
    /\ pc = "check"
    /\ nflowDone' = 1
    /\ minimum' = Min({Objective(flow), minimum})
    /\ IF MostFlow(flow) = 1
       THEN pc' = "done" /\ nflow' = nflow
       ELSE pc' = "pass" /\ nflow' = NextFlowIncrement(MostFlow(flow))
    /\ total' = 0
    /\ UNCHANGED <<input, arrays, trees, inPass, passes, nondecreasing>>

(* After a phase: the end of the loop of optimize_edge_flows_with_parallel. *)
CheckObjective ==
    /\ pc = "check"
    /\ nflowDone' = IF total <= MaxNFlowCycles THEN nflowDone + 1 ELSE 1
    /\ LET most == MostFlow(flow)
           objective == Objective(flow)
       IN  /\ nondecreasing' = IF objective > minimum THEN nondecreasing + 1 ELSE 0
           /\ minimum' = Min({objective, minimum})
           /\ IF \/ nondecreasing' >= 2 * most
                 \/ nflowDone' >= Min({MaxFlow, most})
              THEN pc' = "done" /\ nflow' = nflow
              ELSE pc' = "pass" /\ nflow' = NextFlowIncrement(most)
    /\ total' = 0
    /\ UNCHANGED <<input, arrays, trees, inPass, passes>>

Finished == pc = "done" /\ UNCHANGED vars

Next ==
    \/ Route \/ SelectTreeCycles \/ LeaveTree \/ Push \/ EndOfCycle
    \/ SelectFoundCycle \/ NextWindow \/ EndOfPass \/ CheckObjective
    \/ Finished

(* The loop is straight-line code of one thread, which runs until it is     *)
(* done.  Next is enabled until then (the runs check deadlock), so this is  *)
(* the fairness of Next; the first disjunct of Runs is a case of the second *)
(* that spares TLC to work out what enables Next.                           *)
Runs ==
    /\ pc # "done"
    /\ \/ pc' = "done" /\ UNCHANGED <<input, arrays, trees, inPass, total, passes, control>>
       \/ vars' # vars

Spec == Init /\ [][Next]_vars /\ WF_vars(Runs)

-----------------------------------------------------------------------------
(* Properties. *)

(* Every variable has its type. *)
TypeOK ==
    /\ DOMAIN delta = DOMAIN cost /\ DOMAIN flow = DOMAIN cost
    /\ \A edge \in DOMAIN cost : delta[edge] \in Int /\ flow[edge] \in Int
    /\ pc \in {"route", "pass", "saturate", "check", "done"}
    /\ stage \in 1 .. 3
    /\ nflow \in 1 .. MaxFlow
    /\ applied \in 0 .. MaxCycles
    /\ pc = "saturate" <=> batch # <<>>
    /\ pushes \in Nat /\ total \in Nat /\ passes \in Nat
    /\ nflowDone \in Nat /\ nondecreasing \in Nat

(* Once the residues are routed, the deltas around every plaquette add up   *)
(* to zero and no cycle that is pushed later brings a residue back: the     *)
(* labels that reseed_labels_from_edge_deltas reads off do not depend on    *)
(* the way it walks.  Holds of graphs whose plaquettes are all connected.   *)
ResiduesVanish ==
    pc # "route" /\ SomeTreeSpans => \A node \in Nodes \ {Ground} : Residue(delta, node) = 0

(* A tree that spans the graph does so after every pivot, although the      *)
(* pivot replaces an arc without looking: otherwise rebuild would fail and  *)
(* the tree would be left out from then on.                                 *)
TreesKeepSpanning ==
    pc # "route" => \A index \in 1 .. 2 :
        Cardinality(trees[index]) + 1 = Cardinality(Nodes) => IsSpanningTree(trees[index])

(* The scaled costs of an edge add up to a potential along the flows that   *)
(* are nflow apart.                                                         *)
EdgePotential(edge, flows, step) ==
    LET base == flows % step
        Rise(k) == ScaleIncrement(EdgeCost(edge, base + (k + 1) * step)
                                  - EdgeCost(edge, base + k * step), step)
        distance == (flows - base) \div step
    IN  IF distance >= 0
        THEN MapThenSumSet(Rise, 0 .. distance - 1)
        ELSE -MapThenSumSet(Rise, distance .. -1)

Potential ==
    MapThenSumSet(LAMBDA edge : EdgePotential(cost[edge], flow[edge], nflow), DOMAIN cost)

(* Every increment of every cycle lowers the potential of its phase, though *)
(* each arc rounds and saturates its own cost, the two directions of an     *)
(* edge are priced separately, and a batch was selected before the flows    *)
(* changed.  A phase can therefore not come back to where it was.           *)
PushLowersPotential ==
    [][arrays' # arrays /\ pc = "saturate" => Potential' < Potential]_vars

(* docs/native_runtime.md: the flow optimizer converges. *)
Converges == <>(pc = "done")

(* The simple cycles that cross no edge twice. *)
SimpleCycles ==
    LET IsPath(chain) ==
            /\ \A i \in 1 .. Len(chain) - 1 : To[chain[i]] = From[chain[i + 1]]
            /\ \A i, j \in DOMAIN chain : i # j => From[chain[i]] # From[chain[j]]
            /\ Cardinality(EdgesOf(Range(chain))) = Len(chain)
        paths[length \in Nodes] ==
            IF length = 0 THEN {<<arc>> : arc \in ArcsOf(Edges)}
            ELSE {path \in {Append(chain, arc) : chain \in paths[length - 1],
                                                arc \in ArcsOf(Edges)} : IsPath(path)}
    IN  {Range(path) : path \in {p \in UNION {paths[n] : n \in Nodes} :
                                    To[p[Len(p)]] = From[p[1]]}}

NegativeCycleExists(step) ==
    \E cycle \in SimpleCycles :
        /\ EdgesOf(cycle) \subseteq DOMAIN cost
        /\ CycleCost(cost, flow, step, cycle) < 0

AllMeasured == \A edge \in DOMAIN cost : cost[edge].laycost = NoShelf

(* When the loop ends on a small graph because nothing was left to do, no   *)
(* single unit of flow around any cycle would make the result cheaper.      *)
(* Beside noisy edges the search can overlook a cycle.                      *)
ConvergedIsOptimal ==
    pc = "done" /\ MaxPasses = None /\ nondecreasing = 0 /\ IsSmall /\ AllMeasured
        => ~NegativeCycleExists(1)
=============================================================================

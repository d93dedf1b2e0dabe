------------------------- MODULE FlowOptimizerProofs -------------------------
(***************************************************************************)
(* What holds of the flow optimizer for every grid, every set of inputs     *)
(* and every size of the windows:                                           *)
(*                                                                          *)
(*   TypeCorrect           the types of its state,                          *)
(*   TreesSpan             the spanning trees keep spanning,                *)
(*   PushesLowerPotential  a push of a cycle lowers the potential,          *)
(*   ResiduesStayClear     routed residues stay zero.                       *)
(*                                                                          *)
(* The invariant, SolverInv, says besides that what is in the batch is a    *)
(* cycle: as many of its arcs enter a node as leave it, and it crosses no   *)
(* edge both ways.  The parts come in the order in which they are used:     *)
(* prices, sums, the potential, the residual graph, the search, forests by  *)
(* their cuts, ways through a forest, the first routing, the invariant, the *)
(* residues.                                                                *)
(***************************************************************************)
EXTENDS FlowOptimizer, FiniteSetTheorems, SequenceTheorems, WellFoundedInduction, TLAPS

(* The prices of the arcs.                                                *)

IsEdge(edge) ==
    /\ edge.cost \in Int /\ edge.offset \in Int
    /\ edge.dzmax \in Int /\ edge.laycost \in Int

(* The arc that crosses the same edge the other way. *)
Opposite(arc) == IF IsReverse(arc) THEN arc - 1 ELSE arc + 1

-----------------------------------------------------------------------------
\* scale_increment is odd, its rounding and its saturation included.
LEMMA ScaleIncrementIsOdd ==
    ASSUME NEW value \in Int, NEW step \in Nat \ {0}
    PROVE  ScaleIncrement(-value, step) = -ScaleIncrement(value, step)
  BY DEF ScaleIncrement, AtMost, AtLeast, MaxIncrement

\* The price of an edge is a number: variances are at least one.
LEMMA EdgeCostIsInt ==
    ASSUME NEW edge, IsEdge(edge), NEW flows \in Int
    PROVE  EdgeCost(edge, flows) \in Int
<1> DEFINE sigsq == AtLeast(edge.cost, 1)
           dz == AbsVal(flows * NShortCycle + edge.offset)
           dzmax == IF edge.laycost = NoShelf THEN Masked ELSE AtLeast(edge.dzmax, 0)
<1>1. sigsq \in Nat \ {0}
  BY DEF IsEdge, AtLeast
<1>2. flows * NShortCycle \in Int
  BY GridAssumption
<1>3. dz \in Int
  BY <1>2 DEF IsEdge, AbsVal
<1>4. dzmax \in Int
  BY DEF IsEdge, AtLeast, Masked
<1> HIDE DEF sigsq, dz, dzmax
<1>5. (dz * dz) \div sigsq \in Int
  BY <1>1, <1>3
<1>6. ((dz - dzmax) * (dz - dzmax)) \div (2 * sigsq) \in Int
  BY <1>1, <1>3, <1>4
<1> DEFINE bowl == (dz * dz) \div sigsq
           ramp == ((dz - dzmax) * (dz - dzmax)) \div (2 * sigsq)
<1> HIDE DEF bowl, ramp
<1>7. EdgeCost(edge, flows) =
        IF edge.cost = Masked THEN 0
        ELSE IF dz > dzmax THEN ramp + edge.laycost
        ELSE IF edge.laycost = NoShelf THEN bowl ELSE AtMost(bowl, edge.laycost)
  BY DEF EdgeCost, sigsq, dz, dzmax, bowl, ramp
<1>8. bowl \in Int /\ ramp \in Int
  BY <1>5, <1>6 DEF bowl, ramp
<1> QED
  BY <1>7, <1>8 DEF IsEdge, AtMost

\* Opposite arcs cross the same edge in opposite directions.
LEMMA OppositeArcs ==
    ASSUME NEW arc \in Nat
    PROVE  /\ Opposite(arc) \in Nat
           /\ EdgeOf(Opposite(arc)) = EdgeOf(arc)
           /\ IsReverse(Opposite(arc)) <=> ~IsReverse(arc)
           /\ arc \in ArcsOf(Edges) =>
                 From[Opposite(arc)] = To[arc] /\ To[Opposite(arc)] = From[arc]
<1>1. arc % 2 \in {0, 1} /\ arc = 2 * (arc \div 2) + (arc % 2)
  OBVIOUS
<1>2. /\ Opposite(arc) \in Nat
      /\ EdgeOf(Opposite(arc)) = EdgeOf(arc)
      /\ IsReverse(Opposite(arc)) <=> ~IsReverse(arc)
  BY <1>1 DEF Opposite, EdgeOf, IsReverse
<1>3. ASSUME arc \in ArcsOf(Edges)
      PROVE  Opposite(arc) \in ArcsOf(Edges)
  <2>1. PICK edge \in Edges : arc = 2 * edge \/ arc = 2 * edge + 1
    BY <1>3 DEF ArcsOf
  <2>2. edge \in Int
    BY GridAssumption DEF Edges, HorizontalEdges, PRow, PCol
  <2>3. Opposite(arc) = 2 * edge \/ Opposite(arc) = 2 * edge + 1
    BY <1>1, <2>1, <2>2 DEF Opposite, IsReverse
  <2> QED
    BY <2>3 DEF ArcsOf
<1> QED
  BY <1>2, <1>3 DEF From, To

\* residual_arc_cost: once an increment has been made along an arc, the arc
\* that takes it back costs exactly what the increment gained, whatever the
\* rounding and the saturation.
THEOREM UndoingCostsTheGain ==
    ASSUME NEW costs, NEW flows, NEW moved, NEW arc \in Nat, NEW step \in Nat \ {0},
           IsEdge(costs[EdgeOf(arc)]), flows[EdgeOf(arc)] \in Int,
           moved[EdgeOf(arc)]
             = flows[EdgeOf(arc)] + FlowSign(EdgeOf(arc)) * Correction(arc, step)
    PROVE  ArcCost(costs, moved, step, Opposite(arc)) = -ArcCost(costs, flows, step, arc)
<1> DEFINE edge == EdgeOf(arc)
           before == EdgeCost(costs[edge], flows[edge])
           after == EdgeCost(costs[edge], moved[edge])
<1>1. /\ EdgeOf(Opposite(arc)) = edge
      /\ Correction(Opposite(arc), step) = -Correction(arc, step)
      /\ Correction(arc, step) \in Int
  BY OppositeArcs DEF Correction
<1>2. FlowSign(edge) \in {1, -1}
  BY DEF FlowSign
<1>3. /\ moved[edge] \in Int
      /\ moved[edge] + FlowSign(edge) * Correction(Opposite(arc), step) = flows[edge]
  BY <1>1, <1>2
<1>4. before \in Int /\ after \in Int
  BY <1>3, EdgeCostIsInt
<1> HIDE DEF before, after
<1>5. ArcCost(costs, flows, step, arc) = ScaleIncrement(after - before, step)
  BY DEF ArcCost, before, after
<1>6. ArcCost(costs, moved, step, Opposite(arc)) = ScaleIncrement(before - after, step)
  BY <1>1, <1>3 DEF ArcCost, before, after
<1>7. before - after = -(after - before)
  BY <1>4
<1>8. ScaleIncrement(-(after - before), step) = -ScaleIncrement(after - before, step)
  BY <1>4, ScaleIncrementIsOdd
<1> QED
  BY <1>5, <1>6, <1>7, <1>8

-----------------------------------------------------------------------------
(* Induction and sums.                                                     *)

\* Every set of naturals has a least element.
LEMMA LeastOf ==
    ASSUME NEW T \in SUBSET Nat, T # {}
    PROVE  \E m \in T : \A k \in T : m <= k
<1> DEFINE R == OpToRel(<, Nat)
<1>1. IsWellFoundedOn(R, Nat)
  BY NatLessThanWellFounded
<1>2. \A i, j \in Nat : <<i, j>> \in R <=> i < j
  BY DEF OpToRel
<1> HIDE DEF R
<1>3. PICK m \in T : \A k \in T : ~(<<k, m>> \in R)
  BY <1>1, WFMin
<1>4. ASSUME NEW k \in T PROVE m <= k
  <2>1. k \in Nat /\ m \in Nat
    OBVIOUS
  <2>2. ~(k < m)
    BY <1>2, <1>3, <2>1
  <2> QED BY <2>1, <2>2
<1> QED BY <1>4

\* Of some subsets of a finite set, one contains no other.
LEMMA SmallestOf ==
    ASSUME NEW S, IsFiniteSet(S), NEW Sets \in SUBSET SUBSET S, Sets # {}
    PROVE  \E T \in Sets : \A U \in Sets : U \subseteq T => U = T
<1> DEFINE R == StrictSubsetOrdering(S)
<1>1. IsWellFoundedOn(R, SUBSET S)
  BY FS_StrictSubsetOrderingWellFounded, FS_FiniteSubsetsOfFinite
<1>2. \A U, T \in SUBSET S : <<U, T>> \in R <=> U \subseteq T /\ U # T
  BY DEF StrictSubsetOrdering
<1> HIDE DEF R
<1>3. PICK T \in Sets : \A U \in Sets : ~(<<U, T>> \in R)
  BY <1>1, WFMin
<1> QED BY <1>2, <1>3

\* A fold from base over the subsets of S, which takes elements in the order
\* of pick.
Picks(pick, S) == \A s \in SUBSET S : s # {} => pick[s] \in s
StaysIn(op, S, V) == \A x \in S, v \in V : op[<<x, v>>] \in V
IsFold(it, op, base, pick, S) ==
    \A s \in SUBSET S :
        it[s] = IF s = {} THEN base ELSE op[<<pick[s], it[s \ {pick[s]}]>>]

\* A fold over the subsets of a finite set is well defined: there is a
\* function that satisfies its recursion.
LEMMA FoldExists ==
    ASSUME NEW S, IsFiniteSet(S), NEW V, NEW base \in V,
           NEW pick, Picks(pick, S), NEW op, StaysIn(op, S, V)
    PROVE  \E it \in [SUBSET S -> V] : IsFold(it, op, base, pick, S)
<1> DEFINE Holds(it, s) ==
             it[s] = IF s = {} THEN base ELSE op[<<pick[s], it[s \ {pick[s]}]>>]
           Upto(n) == \E it \in [SUBSET S -> V] :
                          \A s \in SUBSET S : Cardinality(s) <= n => Holds(it, s)
           Bad == {n \in Nat : ~Upto(n)}
<1>1. \A s \in SUBSET S : /\ IsFiniteSet(s) /\ Cardinality(s) \in Nat
                          /\ Cardinality(s) <= Cardinality(S)
                          /\ s # {} => Cardinality(s \ {pick[s]}) = Cardinality(s) - 1
                          /\ Cardinality(s) = 0 <=> s = {}
  BY FS_Subset, FS_CardinalityType, FS_RemoveElement, FS_EmptySet DEF Picks
<1>2. Upto(0)
  <2> DEFINE it == [s \in SUBSET S |-> base]
  <2>1. it \in [SUBSET S -> V]
    OBVIOUS
  <2>2. ASSUME NEW s \in SUBSET S, Cardinality(s) <= 0 PROVE Holds(it, s)
    <3>1. Cardinality(s) \in Nat /\ (Cardinality(s) = 0 <=> s = {})
      BY <1>1
    <3>2. s = {}
      BY <2>2, <3>1
    <3> QED BY <3>2
  <2> QED BY <2>1, <2>2
<1>3. ASSUME NEW n \in Nat, Upto(n) PROVE Upto(n + 1)
  <2>1. PICK it \in [SUBSET S -> V] : \A s \in SUBSET S : Cardinality(s) <= n => Holds(it, s)
    BY <1>3
  <2> DEFINE more == [s \in SUBSET S |->
                        IF Cardinality(s) <= n THEN it[s]
                        ELSE IF s = {} THEN base ELSE op[<<pick[s], it[s \ {pick[s]}]>>]]
  <2>2. \A s \in SUBSET S : s # {} =>
           pick[s] \in S /\ s \ {pick[s]} \in SUBSET S /\ it[s \ {pick[s]}] \in V
    BY DEF Picks
  <2>3. more \in [SUBSET S -> V]
    BY <2>2 DEF StaysIn
  <2>4. ASSUME NEW s \in SUBSET S, Cardinality(s) <= n + 1 PROVE Holds(more, s)
    <3>1. CASE s = {}
      <4>1. Cardinality(s) <= n
        <5>1. Cardinality(s) = 0
          BY <1>1, <3>1
        <5> QED BY <5>1
      <4> QED BY <2>1, <3>1, <4>1
    <3>2. CASE s # {}
      <4>1. Cardinality(s \ {pick[s]}) <= n
        <5>1. Cardinality(s) \in Nat /\ Cardinality(s \ {pick[s]}) = Cardinality(s) - 1
          BY <1>1, <3>2
        <5> QED BY <2>4, <5>1
      <4>2. more[s \ {pick[s]}] = it[s \ {pick[s]}]
        BY <2>2, <3>2, <4>1
      <4>3. more[s] = op[<<pick[s], it[s \ {pick[s]}]>>]
        BY <2>1, <3>2
      <4> QED BY <3>2, <4>2, <4>3
    <3> QED BY <3>1, <3>2
  <2> HIDE DEF more, Holds
  <2> QED BY <2>3, <2>4
<1> HIDE DEF Upto
<1>4. Bad = {}
  <2>1. SUFFICES ASSUME Bad # {} PROVE FALSE
    OBVIOUS
  <2>2. PICK m \in Bad : \A k \in Bad : m <= k
    BY <2>1, LeastOf
  <2>3. m \in Nat /\ m # 0 /\ m - 1 \in Nat
    BY <1>2, <2>2
  <2>4. m - 1 \notin Bad
    BY <2>2, <2>3
  <2>5. Upto(m - 1 + 1)
    BY <1>3, <2>3, <2>4
  <2>6. m - 1 + 1 = m
    BY <2>3
  <2> QED BY <2>2, <2>5, <2>6
<1>5. Upto(Cardinality(S))
  BY <1>1, <1>4
<1> QED BY <1>1, <1>5 DEF Upto, IsFold

Some(s) == CHOOSE x \in s : TRUE

\* The sum of a function over a set, as the modules compute it.
SumOver(g, S) == MapThenSumSet(LAMBDA x : g[x], S)

\* The recursion of MapThenFoldSet for a sum.
IsSum(it, g, S) ==
    it = [s \in SUBSET S |-> IF s = {} THEN 0 ELSE g[Some(s)] + it[s \ {Some(s)}]]

\* The recursion of a sum has a solution.
LEMMA SumExists ==
    ASSUME NEW S, IsFiniteSet(S), NEW g, \A x \in S : g[x] \in Int
    PROVE  \E it \in [SUBSET S -> Int] : IsSum(it, g, S)
<1> DEFINE pick == [s \in SUBSET S |-> Some(s)]
           op == [pair \in S \X Int |-> g[pair[1]] + pair[2]]
<1>1. Picks(pick, S)
  BY DEF Some, Picks
<1>2. \A x \in S, v \in Int : op[<<x, v>>] = g[x] + v /\ op[<<x, v>>] \in Int
  OBVIOUS
<1>3. \A s \in SUBSET S : pick[s] = Some(s)
  OBVIOUS
<1>6. StaysIn(op, S, Int)
  BY <1>2 DEF StaysIn
<1> HIDE DEF pick, op
<1>7. PICK it \in [SUBSET S -> Int] : IsFold(it, op, 0, pick, S)
  <2>1. 0 \in Int
    OBVIOUS
  <2> QED BY <1>1, <1>6, <2>1, FoldExists
<1>4. \A s \in SUBSET S : it[s] = IF s = {} THEN 0 ELSE op[<<pick[s], it[s \ {pick[s]}]>>]
  BY <1>7 DEF IsFold
<1>5. ASSUME NEW s \in SUBSET S
      PROVE  it[s] = IF s = {} THEN 0 ELSE g[Some(s)] + it[s \ {Some(s)}]
  <2>1. CASE s = {}
    BY <1>4, <2>1
  <2>2. CASE s # {}
    <3>1. pick[s] \in S /\ s \ {pick[s]} \in SUBSET S
      BY <1>1, <2>2 DEF Picks
    <3>2. it[s \ {pick[s]}] \in Int
      BY <3>1
    <3> QED BY <1>2, <1>3, <1>4, <2>2, <3>1, <3>2
  <2> QED BY <2>1, <2>2
<1> QED BY <1>5 DEF IsSum

\* Two solutions agree wherever both are defined.
LEMMA SumsAgree ==
    ASSUME NEW S, IsFiniteSet(S), NEW T \in SUBSET S, NEW g, NEW it, IsSum(it, g, S),
           NEW jt, IsSum(jt, g, T)
    PROVE  \A s \in SUBSET T : it[s] = jt[s]
<1> DEFINE Bad == {s \in SUBSET T : it[s] # jt[s]}
<1>1. SUFFICES ASSUME Bad # {} PROVE FALSE
  OBVIOUS
<1>2. IsFiniteSet(T)
  BY FS_Subset
<1>3. PICK s \in Bad : \A u \in Bad : u \subseteq s => u = s
  <2>1. Bad \in SUBSET SUBSET T
    OBVIOUS
  <2> HIDE DEF Bad
  <2> QED BY <1>1, <1>2, <2>1, SmallestOf
<1>4. s \in SUBSET T /\ s \in SUBSET S /\ it[s] # jt[s]
  BY <1>3
<1>5. it[s] = IF s = {} THEN 0 ELSE g[Some(s)] + it[s \ {Some(s)}]
  BY <1>4 DEF IsSum
<1>6. jt[s] = IF s = {} THEN 0 ELSE g[Some(s)] + jt[s \ {Some(s)}]
  BY <1>4 DEF IsSum
<1>7. s # {}
  BY <1>4, <1>5, <1>6
<1>8. Some(s) \in s
  BY <1>7 DEF Some
<1>9. s \ {Some(s)} \in SUBSET T /\ s \ {Some(s)} \subseteq s /\ s \ {Some(s)} # s
  BY <1>4, <1>8
<1>10. it[s \ {Some(s)}] = jt[s \ {Some(s)}]
  BY <1>3, <1>9
<1> QED BY <1>4, <1>5, <1>6, <1>7, <1>10

\* A sum is the value of any solution.
LEMMA SumIs ==
    ASSUME NEW S, IsFiniteSet(S), NEW g, \A x \in S : g[x] \in Int, NEW it, IsSum(it, g, S)
    PROVE  it[S] = SumOver(g, S) /\ SumOver(g, S) \in Int
<1> DEFINE I == CHOOSE jt : IsSum(jt, g, S)
<1>1. PICK jt \in [SUBSET S -> Int] : IsSum(jt, g, S)
  BY SumExists
<1>2. IsSum(I, g, S)
  BY <1>1
<1>3. SumOver(g, S) = I[S]
  BY DEF SumOver, MapThenSumSet, MapThenFoldSet, Some, IsSum
<1> HIDE DEF I
<1>4. it[S] = I[S] /\ jt[S] = I[S]
  BY <1>1, <1>2, SumsAgree
<1> QED BY <1>1, <1>3, <1>4

\* The recursion, on the sums themselves.
LEMMA SumStep ==
    ASSUME NEW S, IsFiniteSet(S), NEW g, \A x \in S : g[x] \in Int
    PROVE  /\ SumOver(g, S) \in Int
           /\ S = {} => SumOver(g, S) = 0
           /\ S # {} => Some(S) \in S /\ SumOver(g, S) = g[Some(S)] + SumOver(g, S \ {Some(S)})
<1>1. PICK it \in [SUBSET S -> Int] : IsSum(it, g, S)
  BY SumExists
<1>2. it[S] = SumOver(g, S) /\ SumOver(g, S) \in Int
  BY <1>1, SumIs
<1>3. it[S] = IF S = {} THEN 0 ELSE g[Some(S)] + it[S \ {Some(S)}]
  BY <1>1 DEF IsSum
<1>4. ASSUME S # {} PROVE Some(S) \in S /\ it[S \ {Some(S)}] = SumOver(g, S \ {Some(S)})
  <2> DEFINE rest == S \ {Some(S)}
  <2>1. Some(S) \in S
    BY <1>4 DEF Some
  <2>2. rest \in SUBSET S /\ IsFiniteSet(rest) /\ \A x \in rest : g[x] \in Int
    BY FS_Subset
  <2> HIDE DEF rest
  <2>3. PICK jt \in [SUBSET rest -> Int] : IsSum(jt, g, rest)
    BY <2>2, SumExists
  <2>4. jt[rest] = SumOver(g, rest)
    BY <2>2, <2>3, SumIs
  <2>5. it[rest] = jt[rest]
    BY <1>1, <2>2, <2>3, SumsAgree
  <2> QED BY <2>1, <2>4, <2>5 DEF rest
<1> QED BY <1>2, <1>3, <1>4

\* A sum does not depend on which element is taken first.
LEMMA SumRemove ==
    ASSUME NEW S, IsFiniteSet(S), NEW g, \A x \in S : g[x] \in Int, NEW x \in S
    PROVE  SumOver(g, S) = g[x] + SumOver(g, S \ {x}) /\ SumOver(g, S \ {x}) \in Int
<1> DEFINE Bad == {T \in SUBSET S : \E y \in T : SumOver(g, T) # g[y] + SumOver(g, T \ {y})}
<1>1. \A T \in SUBSET S : IsFiniteSet(T) /\ (\A y \in T : g[y] \in Int) /\ SumOver(g, T) \in Int
  BY FS_Subset, SumStep
<1>2. Bad = {}
  <2>1. SUFFICES ASSUME Bad # {} PROVE FALSE
    OBVIOUS
  <2>2. PICK T \in Bad : \A U \in Bad : U \subseteq T => U = T
    <3>1. Bad \in SUBSET SUBSET S
      OBVIOUS
    <3> HIDE DEF Bad
    <3> QED BY <2>1, <3>1, SmallestOf
  <2>3. PICK y \in T : SumOver(g, T) # g[y] + SumOver(g, T \ {y})
    BY <2>2
  <2> DEFINE z == Some(T)
  <2>4. T \in SUBSET S /\ T # {}
    BY <2>2, <2>3
  <2>5. z \in T /\ SumOver(g, T) = g[z] + SumOver(g, T \ {z})
    BY <1>1, <2>4, SumStep
  <2> HIDE DEF z
  <2>6. z # y
    BY <2>3, <2>5
  <2>7. T \ {z} \in SUBSET S /\ T \ {y} \in SUBSET S /\ T \ {z} # T /\ T \ {y} # T
    BY <2>3, <2>4, <2>5
  <2>8. T \ {z} \notin Bad /\ T \ {y} \notin Bad
    BY <2>2, <2>7
  <2>9. SumOver(g, T \ {z}) = g[y] + SumOver(g, (T \ {z}) \ {y})
    BY <2>3, <2>6, <2>7, <2>8
  <2>10. SumOver(g, T \ {y}) = g[z] + SumOver(g, (T \ {y}) \ {z})
    BY <2>5, <2>6, <2>7, <2>8
  <2> DEFINE rest == (T \ {y}) \ {z}
  <2>11. (T \ {z}) \ {y} = rest /\ rest \in SUBSET S
    BY <2>4
  <2>12. g[y] \in Int /\ g[z] \in Int /\ SumOver(g, rest) \in Int
    BY <1>1, <2>3, <2>4, <2>5, <2>11
  <2>13. /\ SumOver(g, T \ {z}) = g[y] + SumOver(g, rest)
         /\ SumOver(g, T \ {y}) = g[z] + SumOver(g, rest)
    BY <2>9, <2>10, <2>11
  <2> HIDE DEF rest, Bad
  <2> QED BY <2>3, <2>5, <2>12, <2>13
<1>3. S \ {x} \in SUBSET S
  OBVIOUS
<1> QED BY <1>1, <1>2, <1>3

\* Sums of functions that agree on the set agree.
LEMMA SumCongruence ==
    ASSUME NEW S, IsFiniteSet(S), NEW g, \A x \in S : g[x] \in Int,
           NEW h, \A x \in S : h[x] = g[x]
    PROVE  SumOver(h, S) = SumOver(g, S)
<1>1. PICK it \in [SUBSET S -> Int] : IsSum(it, g, S)
  BY SumExists
<1>2. ASSUME NEW s \in SUBSET S, s # {} PROVE g[Some(s)] = h[Some(s)]
  BY <1>2 DEF Some
<1>3. IsSum(it, h, S)
  BY <1>1, <1>2 DEF IsSum
<1>4. \A x \in S : h[x] \in Int
  OBVIOUS
<1> QED BY <1>1, <1>3, <1>4, SumIs

\* The sum of a function that differs from another in one place.
LEMMA SumUpdate ==
    ASSUME NEW S, IsFiniteSet(S), NEW g, \A x \in S : g[x] \in Int,
           NEW h, \A x \in S : h[x] \in Int, NEW y \in S, \A x \in S \ {y} : h[x] = g[x]
    PROVE  SumOver(h, S) = SumOver(g, S) + h[y] - g[y]
<1>1. /\ SumOver(g, S) = g[y] + SumOver(g, S \ {y}) /\ SumOver(g, S \ {y}) \in Int
      /\ SumOver(h, S) = h[y] + SumOver(h, S \ {y})
  BY SumRemove
<1>2. SumOver(h, S \ {y}) = SumOver(g, S \ {y})
  <2>1. IsFiniteSet(S \ {y}) /\ \A x \in S \ {y} : g[x] \in Int
    BY FS_RemoveElement
  <2> QED BY <2>1, SumCongruence
<1>3. g[y] \in Int /\ h[y] \in Int
  OBVIOUS
<1> QED BY <1>1, <1>2, <1>3

\* What a sum gains when places of a function gain: at[c] is the place that
\* gains gain[c].
LEMMA SumGains ==
    ASSUME NEW S, IsFiniteSet(S), NEW g, \A x \in S : g[x] \in Int,
           NEW C, IsFiniteSet(C), NEW gain, \A c \in C : gain[c] \in Int,
           NEW at, \A c \in C : at[c] \in S,
           \A c, d \in C : at[c] = at[d] => c = d,
           NEW h, \A c \in C : h[at[c]] = g[at[c]] + gain[c],
           \A x \in S : (\A c \in C : at[c] # x) => h[x] = g[x]
    PROVE  SumOver(h, S) = SumOver(g, S) + SumOver(gain, C)
<1> DEFINE Part(T) == [x \in S |-> IF \E c \in T : at[c] = x THEN h[x] ELSE g[x]]
           Bad == {T \in SUBSET C : SumOver(Part(T), S) # SumOver(g, S) + SumOver(gain, T)}
<1>1. \A x \in S : h[x] \in Int
  <2> TAKE x \in S
  <2>1. CASE \E c \in C : at[c] = x
    <3>1. PICK c \in C : at[c] = x
      BY <2>1
    <3>2. h[x] = g[x] + gain[c] /\ g[x] \in Int /\ gain[c] \in Int
      BY <3>1
    <3> QED BY <3>2
  <2>2. CASE \A c \in C : at[c] # x
    BY <2>2
  <2> QED BY <2>1, <2>2
<1>2. \A T \in SUBSET C : \A x \in S : Part(T)[x] \in Int
  BY <1>1
<1>3. SumOver(g, S) \in Int /\ \A T \in SUBSET C : IsFiniteSet(T) /\ \A c \in T : gain[c] \in Int
  BY SumStep, FS_Subset
<1>4. \A T \in SUBSET C : SumOver(gain, T) \in Int
  BY <1>3, SumStep
<1>5. ASSUME Bad # {} PROVE FALSE
  <2>1. PICK T \in Bad : \A U \in Bad : U \subseteq T => U = T
    <3>1. Bad \in SUBSET SUBSET C
      OBVIOUS
    <3> HIDE DEF Bad
    <3> QED BY <1>5, <3>1, SmallestOf
  <2>2. T \in SUBSET C /\ SumOver(Part(T), S) # SumOver(g, S) + SumOver(gain, T)
    BY <2>1
  <2>3. CASE T = {}
    <3>1. \A x \in S : Part({})[x] = g[x]
      OBVIOUS
    <3> HIDE DEF Part
    <3>2. SumOver(Part({}), S) = SumOver(g, S)
      BY <3>1, SumCongruence
    <3>3. SumOver(gain, {}) = 0
      BY <1>3, SumStep
    <3> QED BY <1>3, <2>2, <2>3, <3>2, <3>3
  <2>4. CASE T # {}
    <3>1. PICK c \in T : TRUE
      BY <2>4
    <3> DEFINE U == T \ {c}
               y == at[c]
    <3>2. U \in SUBSET C /\ U \subseteq T /\ U # T /\ c \in C /\ y \in S
      BY <2>2, <3>1
    <3>3. SumOver(Part(U), S) = SumOver(g, S) + SumOver(gain, U)
      BY <2>1, <3>2
    <3>4. SumOver(gain, T) = gain[c] + SumOver(gain, U)
      <4>1. IsFiniteSet(T) /\ \A d \in T : gain[d] \in Int
        BY <1>3, <2>2
      <4> HIDE DEF Bad, Part
      <4> QED BY <3>1, <4>1, SumRemove
    <3>5. Part(T)[y] = g[y] + gain[c] /\ Part(U)[y] = g[y]
      <4>1. ~\E d \in U : at[d] = y
        BY <3>2
      <4> QED BY <3>1, <3>2, <4>1
    <3>6. \A x \in S \ {y} : Part(T)[x] = Part(U)[x]
      BY <3>1
    <3>7. /\ \A x \in S : Part(T)[x] \in Int
          /\ \A x \in S : Part(U)[x] \in Int
      BY <1>2, <2>2, <3>2
    <3>8. /\ g[y] \in Int /\ gain[c] \in Int /\ SumOver(gain, U) \in Int
      BY <1>4, <3>2
    <3> HIDE DEF Part, U, y, Bad
    <3>9. SumOver(Part(T), S) = SumOver(Part(U), S) + Part(T)[y] - Part(U)[y]
      BY <3>2, <3>6, <3>7, SumUpdate
    <3> QED BY <1>3, <2>2, <3>3, <3>4, <3>5, <3>8, <3>9
  <2> QED BY <2>3, <2>4
<1>6. SumOver(Part(C), S) = SumOver(g, S) + SumOver(gain, C)
  BY <1>5
<1>7. \A x \in S : Part(C)[x] = h[x]
  OBVIOUS
<1> HIDE DEF Part
<1>8. SumOver(Part(C), S) = SumOver(h, S)
  BY <1>1, <1>7, SumCongruence
<1> QED BY <1>6, <1>8

-----------------------------------------------------------------------------
(* The potential of an edge.                                               *)

\* The scaled price of raising the flow of an edge by one increment.
Rise(edge, flows, step) ==
    ScaleIncrement(EdgeCost(edge, flows + step) - EdgeCost(edge, flows), step)

\* Prices are scaled to numbers.
LEMMA RiseIsInt ==
    ASSUME NEW edge, IsEdge(edge), NEW flows \in Int, NEW step \in Nat \ {0}
    PROVE  Rise(edge, flows, step) \in Int
<1> DEFINE value == EdgeCost(edge, flows + step) - EdgeCost(edge, flows)
<1>1. value \in Int
  <2>1. flows + step \in Int
    OBVIOUS
  <2> QED BY <2>1, EdgeCostIsInt
<1>2. step * step \in Nat \ {0}
  OBVIOUS
<1> DEFINE divisor == step * step
<1> HIDE DEF value, divisor
<1>3. value \div divisor \in Int /\ (value + divisor - 1) \div divisor \in Int
  BY <1>1, <1>2 DEF divisor
<1>4. ScaleIncrement(value, step) \in Int
  BY <1>3 DEF ScaleIncrement, divisor, AtMost, AtLeast, MaxIncrement
<1> QED BY <1>4 DEF Rise, value

\* The rises of an edge from base, one increment after the other.
Rises(edge, base, step) == [k \in Int |-> Rise(edge, base + k * step, step)]

\* How far the flow is from the base, in increments, and the potential there.
StartsAt(flows, step, base, distance) ==
    /\ base \in Int /\ base = flows % step
    /\ distance \in Int /\ distance = (flows - base) \div step
PotentialFrom(rises, distance) ==
    IF distance >= 0 THEN SumOver(rises, 0 .. distance - 1) ELSE -SumOver(rises, distance .. -1)

\* The potential is the sum of the rises below the flow, or of minus those
\* between the flow and zero.
LEMMA PotentialIsSum ==
    ASSUME NEW edge, IsEdge(edge), NEW flows \in Int, NEW step \in Nat \ {0},
           NEW base, NEW distance, StartsAt(flows, step, base, distance)
    PROVE  EdgePotential(edge, flows, step) = PotentialFrom(Rises(edge, base, step), distance)
<1> DEFINE Up(k) == ScaleIncrement(EdgeCost(edge, base + (k + 1) * step)
                                   - EdgeCost(edge, base + k * step), step)
           rises == Rises(edge, base, step)
<1>0. base \in Int /\ distance \in Int
  BY DEF StartsAt
<1>1. \A k \in Int : rises[k] = Up(k) /\ rises[k] \in Int
  <2> TAKE k \in Int
  <2>1. base + k * step \in Int /\ base + (k + 1) * step = base + k * step + step
    BY <1>0
  <2>2. rises[k] = Rise(edge, base + k * step, step)
    BY DEF Rises
  <2> HIDE DEF rises
  <2> QED BY <2>1, <2>2, RiseIsInt DEF Rise
<1> HIDE DEF rises
<1>2. ASSUME NEW S \in SUBSET Int, IsFiniteSet(S)
      PROVE  MapThenSumSet(Up, S) = SumOver(rises, S)
  <2> DEFINE I == CHOOSE it : it = [s \in SUBSET S |-> IF s = {} THEN 0
                                                  ELSE Up(Some(s)) + it[s \ {Some(s)}]]
  <2>1. MapThenSumSet(Up, S) = I[S]
    BY DEF MapThenSumSet, MapThenFoldSet, Some
  <2>2. \A x \in S : rises[x] \in Int
    BY <1>1
  <2>3. PICK jt \in [SUBSET S -> Int] : IsSum(jt, rises, S)
    BY <1>2, <2>2, SumExists
  <2>4. \A s \in SUBSET S : s # {} => Some(s) \in Int /\ rises[Some(s)] = Up(Some(s))
    BY <1>1 DEF Some
  <2> HIDE DEF Up
  <2>5. jt = [s \in SUBSET S |-> IF s = {} THEN 0 ELSE Up(Some(s)) + jt[s \ {Some(s)}]]
    BY <2>3, <2>4 DEF IsSum
  <2>6. I = [s \in SUBSET S |-> IF s = {} THEN 0 ELSE Up(Some(s)) + I[s \ {Some(s)}]]
    BY <2>5
  <2> HIDE DEF I
  <2>7. IsSum(I, rises, S)
    BY <2>4, <2>6 DEF IsSum
  <2>8. I[S] = SumOver(rises, S)
    BY <1>2, <2>2, <2>7, SumIs
  <2> QED BY <2>1, <2>8
<1>3. /\ 0 .. distance - 1 \in SUBSET Int /\ IsFiniteSet(0 .. distance - 1)
      /\ distance .. -1 \in SUBSET Int /\ IsFiniteSet(distance .. -1)
  BY <1>0, FS_Interval
<1>4. EdgePotential(edge, flows, step) =
          IF distance >= 0 THEN MapThenSumSet(Up, 0 .. distance - 1)
          ELSE -MapThenSumSet(Up, distance .. -1)
  BY DEF EdgePotential, StartsAt
<1> HIDE DEF Up
<1>5. /\ MapThenSumSet(Up, 0 .. distance - 1) = SumOver(rises, 0 .. distance - 1)
      /\ MapThenSumSet(Up, distance .. -1) = SumOver(rises, distance .. -1)
  BY <1>2, <1>3
<1> QED BY <1>4, <1>5 DEF rises, PotentialFrom

\* Quotient and remainder of a number whose parts are known.
LEMMA DivisionIsUnique ==
    ASSUME NEW n \in Nat \ {0}, NEW q \in Int, NEW r \in 0 .. n - 1
    PROVE  (q * n + r) \div n = q /\ (q * n + r) % n = r
<1> DEFINE k == q * n + r
           d == k \div n
           m == k % n
<1>1. k \in Int
  OBVIOUS
<1>2. d \in Int /\ m \in 0 .. n - 1 /\ k = n * d + m
  BY <1>1
<1> HIDE DEF d, m
<1>3. n * d + m = q * n + r
  BY <1>2
<1> DEFINE diff == d - q
<1>4. diff \in Int /\ n * diff = r - m
  BY <1>2, <1>3
<1> HIDE DEF diff
<1>5. diff = 0
  <2>1. -n < n * diff /\ n * diff < n
    BY <1>2, <1>4
  <2>2. ~(diff >= 1)
    <3>1. diff >= 1 => n * diff >= n
      BY <1>4
    <3> QED BY <1>4, <2>1, <3>1
  <2>3. ~(diff <= -1)
    <3>1. diff <= -1 => n * diff <= -n
      BY <1>4
    <3> QED BY <1>4, <2>1, <3>1
  <2> QED BY <1>4, <2>2, <2>3
<1>6. d = q
  BY <1>2, <1>5 DEF diff
<1>7. m = r
  BY <1>2, <1>3, <1>6
<1> QED BY <1>6, <1>7 DEF d, m

\* The potential is a number, and an increment raises it by its price.
LEMMA PotentialRises ==
    ASSUME NEW edge, IsEdge(edge), NEW flows \in Int, NEW step \in Nat \ {0}
    PROVE  /\ EdgePotential(edge, flows, step) \in Int
           /\ EdgePotential(edge, flows + step, step)
                = EdgePotential(edge, flows, step) + Rise(edge, flows, step)
<1> DEFINE base == flows % step
           distance == flows \div step
           rises == Rises(edge, base, step)
<1>1. base \in 0 .. step - 1 /\ distance \in Int /\ flows = distance * step + base
  BY DEF base, distance
<1> HIDE DEF base, distance
<1>2. /\ (flows + step) % step = base
      /\ flows - base = distance * step /\ flows + step - base = (distance + 1) * step
  <2>1. flows + step = (distance + 1) * step + base
    BY <1>1
  <2>2. ((distance + 1) * step + base) % step = base
    BY <1>1, DivisionIsUnique
  <2> QED BY <1>1, <2>1, <2>2
<1>3. (distance * step) \div step = distance /\ ((distance + 1) * step) \div step = distance + 1
  <2>1. /\ (distance * step + 0) \div step = distance
        /\ ((distance + 1) * step + 0) \div step = distance + 1
    BY <1>1, DivisionIsUnique
  <2>2. distance * step + 0 = distance * step /\ (distance + 1) * step + 0 = (distance + 1) * step
    BY <1>1
  <2> QED BY <2>1, <2>2
<1>4. EdgePotential(edge, flows, step) = PotentialFrom(rises, distance)
  <2>1. distance = (flows - base) \div step
    BY <1>2, <1>3
  <2>2. StartsAt(flows, step, base, distance)
    BY <1>1, <2>1 DEF StartsAt, base
  <2> QED BY <2>2, PotentialIsSum
<1>5. EdgePotential(edge, flows + step, step) = PotentialFrom(rises, distance + 1)
  <2>1. base = (flows + step) % step /\ base \in Int /\ flows + step \in Int
    BY <1>1, <1>2
  <2>2. distance + 1 \in Int /\ distance + 1 = (flows + step - base) \div step
    BY <1>1, <1>2, <1>3
  <2>3. StartsAt(flows + step, step, base, distance + 1)
    BY <2>1, <2>2 DEF StartsAt
  <2> QED BY <2>1, <2>3, PotentialIsSum
<1>6. \A k \in Int : rises[k] \in Int
  <2> TAKE k \in Int
  <2>1. base + k * step \in Int
    BY <1>1
  <2> QED BY <2>1, RiseIsInt DEF Rises
<1>7. rises[distance] = Rise(edge, flows, step)
  BY <1>1 DEF Rises
<1> HIDE DEF rises
<1>8. \A i, j \in Int : IsFiniteSet(i .. j) /\ (\A k \in i .. j : rises[k] \in Int)
                        /\ SumOver(rises, i .. j) \in Int
  <2> TAKE i, j \in Int
  <2>1. IsFiniteSet(i .. j) /\ \A k \in i .. j : rises[k] \in Int
    BY <1>6, FS_Interval
  <2> QED BY <2>1, SumStep
<1>9. \A i, j \in Int : \A k \in i .. j :
          SumOver(rises, i .. j) = rises[k] + SumOver(rises, (i .. j) \ {k})
  <2> TAKE i, j \in Int
  <2> TAKE k \in i .. j
  <2> DEFINE S == i .. j
  <2>1. k \in S /\ IsFiniteSet(S) /\ \A l \in S : rises[l] \in Int
    BY <1>8
  <2> HIDE DEF S
  <2>2. SumOver(rises, S) = rises[k] + SumOver(rises, S \ {k})
    BY <2>1, SumRemove
  <2> QED BY <2>2 DEF S
<1>10. \A i \in Int : PotentialFrom(rises, i) \in Int
  <2> TAKE i \in Int
  <2>1. SumOver(rises, 0 .. i - 1) \in Int /\ SumOver(rises, i .. -1) \in Int
    BY <1>8
  <2> QED BY <2>1 DEF PotentialFrom
<1>12. ASSUME NEW next \in Int, next >= 0
       PROVE  PotentialFrom(rises, next) = SumOver(rises, 0 .. next - 1)
  BY <1>12 DEF PotentialFrom
<1>11. PotentialFrom(rises, distance + 1) = PotentialFrom(rises, distance) + rises[distance]
  <2>1. CASE distance >= 0
    <3>1. /\ (0 .. distance) \ {distance} = 0 .. distance - 1
          /\ distance + 1 - 1 = distance /\ distance + 1 >= 0
      BY <1>1, <2>1
    <3>2. SumOver(rises, 0 .. distance)
            = rises[distance] + SumOver(rises, (0 .. distance) \ {distance})
      BY <1>1, <1>9, <2>1
    <3>3. rises[distance] \in Int /\ SumOver(rises, 0 .. distance - 1) \in Int
      BY <1>1, <1>6, <1>8
    <3>4. 0 .. distance + 1 - 1 = 0 .. distance
      BY <3>1
    <3>5. PotentialFrom(rises, distance + 1) = SumOver(rises, 0 .. distance + 1 - 1)
      BY <1>1, <1>12, <3>1
    <3>6. PotentialFrom(rises, distance) = SumOver(rises, 0 .. distance - 1)
      BY <1>1, <1>12, <2>1
    <3>7. SumOver(rises, 0 .. distance + 1 - 1) = SumOver(rises, 0 .. distance)
      BY <3>4
    <3>8. SumOver(rises, 0 .. distance) = rises[distance] + SumOver(rises, 0 .. distance - 1)
      BY <3>1, <3>2
    <3> QED BY <3>3, <3>5, <3>6, <3>7, <3>8
  <2>2. CASE distance < 0
    <3>1. (distance .. -1) \ {distance} = distance + 1 .. -1 /\ ~(distance >= 0)
      BY <1>1, <2>2
    <3>2. SumOver(rises, distance .. -1)
            = rises[distance] + SumOver(rises, (distance .. -1) \ {distance})
      BY <1>1, <1>9, <2>2
    <3>3. /\ rises[distance] \in Int /\ SumOver(rises, distance + 1 .. -1) \in Int
          /\ SumOver(rises, distance .. -1) \in Int
      BY <1>1, <1>6, <1>8
    <3>4. PotentialFrom(rises, distance) = -SumOver(rises, distance .. -1)
      BY <3>1 DEF PotentialFrom
    <3>5. PotentialFrom(rises, distance + 1) = -SumOver(rises, distance + 1 .. -1)
      <4>1. CASE distance = -1
        <5>1. 0 .. distance + 1 - 1 = {} /\ distance + 1 .. -1 = {} /\ distance + 1 >= 0
          BY <4>1
        <5>2. SumOver(rises, {}) = 0
          BY SumStep, FS_EmptySet
        <5>3. PotentialFrom(rises, distance + 1) = SumOver(rises, 0 .. distance + 1 - 1)
          BY <1>1, <1>12, <5>1
        <5>4. /\ SumOver(rises, 0 .. distance + 1 - 1) = SumOver(rises, {})
              /\ SumOver(rises, distance + 1 .. -1) = SumOver(rises, {})
          BY <5>1
        <5> QED BY <5>2, <5>3, <5>4
      <4>2. CASE distance # -1
        <5>1. ~(distance + 1 >= 0)
          BY <1>1, <2>2, <4>2
        <5> QED BY <5>1 DEF PotentialFrom
      <4> QED BY <4>1, <4>2
    <3>6. SumOver(rises, distance .. -1) = rises[distance] + SumOver(rises, distance + 1 .. -1)
      BY <3>1, <3>2
    <3> QED BY <3>3, <3>4, <3>5, <3>6
  <2> QED BY <1>1, <2>1, <2>2
<1> QED BY <1>1, <1>4, <1>5, <1>7, <1>10, <1>11

-----------------------------------------------------------------------------
(* Increments of a cycle.                                                  *)

\* A set of arcs that crosses no edge both ways.
IsOneWay(arcs) == \A a, b \in arcs : EdgeOf(a) = EdgeOf(b) => a = b

\* The edges are finitely many numbers.
LEMMA EdgesAreFinite ==
    Edges \in SUBSET Nat /\ IsFiniteSet(Edges) /\ IsFiniteSet(ArcsOf(Edges))
<1>1. HorizontalEdges + PRow * NCol - 1 \in Int /\ HorizontalEdges + PRow * NCol - 1 >= 0
  <2>1. NRow \in Nat /\ NCol \in Nat /\ NRow >= 2 /\ NCol >= 2
    BY GridAssumption
  <2>2. NRow * PCol \in Nat /\ PRow * NCol \in Nat
    BY <2>1 DEF PRow, PCol
  <2>3. PRow * NCol >= 1
    <3>1. PRow \in Nat /\ PRow >= 1
      BY <2>1 DEF PRow
    <3> QED BY <2>1, <3>1
  <2> QED BY <2>2, <2>3 DEF HorizontalEdges
<1> DEFINE last == HorizontalEdges + PRow * NCol - 1
<1>2. Edges = 0 .. last /\ last \in Nat
  BY <1>1 DEF Edges
<1> HIDE DEF last
<1>3. IsFiniteSet(Edges) /\ Edges \in SUBSET Nat
  BY <1>2, FS_Interval
<1>4. ArcsOf(Edges) \in SUBSET (0 .. 2 * last + 1)
  BY <1>2 DEF ArcsOf
<1>5. IsFiniteSet(0 .. 2 * last + 1)
  BY <1>2, FS_Interval
<1> QED BY <1>3, <1>4, <1>5, FS_Subset

\* The edge and the direction of an arc.
LEMMA ArcFacts ==
    ASSUME NEW D \in SUBSET Edges, NEW arc \in ArcsOf(D)
    PROVE  /\ arc \in Nat /\ EdgeOf(arc) \in D /\ EdgeOf(arc) \in Nat
           /\ arc \in ArcsOf(Edges)
           /\ IF IsReverse(arc) THEN arc = 2 * EdgeOf(arc) + 1 ELSE arc = 2 * EdgeOf(arc)
<1>1. PICK edge \in D : arc = 2 * edge \/ arc = 2 * edge + 1
  BY DEF ArcsOf
<1>2. edge \in Nat /\ edge \in Edges
  BY EdgesAreFinite
<1>3. arc \in Nat /\ EdgeOf(arc) = edge
  BY <1>1, <1>2 DEF EdgeOf
<1>4. IF IsReverse(arc) THEN arc = 2 * edge + 1 ELSE arc = 2 * edge
  BY <1>1, <1>2 DEF IsReverse
<1> QED BY <1>1, <1>2, <1>3, <1>4 DEF ArcsOf

\* Costs and flows of the edges of a grid.
AreCosts(costs) ==
    /\ DOMAIN costs \subseteq Edges
    /\ \A edge \in DOMAIN costs : IsEdge(costs[edge])
AreFlows(flows, D) == \A edge \in D : flows[edge] \in Int

\* What a cycle adds to the delta of an edge.
LEMMA CorrectionOfArcs ==
    ASSUME NEW D \in SUBSET Edges, NEW arcs \in SUBSET ArcsOf(D), IsOneWay(arcs),
           nflow \in Nat \ {0}
    PROVE  /\ \A arc \in arcs : CorrectionOf(arcs, EdgeOf(arc)) = Correction(arc, nflow)
           /\ \A edge \in D : edge \notin EdgesOf(arcs) => CorrectionOf(arcs, edge) = 0
           /\ \A edge \in D : CorrectionOf(arcs, edge) \in Int
<1>1. ASSUME NEW arc \in arcs
      PROVE  CorrectionOf(arcs, EdgeOf(arc)) = Correction(arc, nflow)
  <2> DEFINE edge == EdgeOf(arc)
  <2>1. edge \in Nat /\ IF IsReverse(arc) THEN arc = 2 * edge + 1 ELSE arc = 2 * edge
    BY ArcFacts
  <2>2. EdgeOf(2 * edge) = edge /\ EdgeOf(2 * edge + 1) = edge /\ 2 * edge # 2 * edge + 1
        /\ ~IsReverse(2 * edge) /\ IsReverse(2 * edge + 1)
    BY <2>1 DEF EdgeOf, IsReverse
  <2> HIDE DEF edge
  <2>3. CASE arc = 2 * edge
    BY <2>3, <2>2 DEF CorrectionOf, edge
  <2>4. CASE arc = 2 * edge + 1
    <3>1. 2 * edge \notin arcs
      BY <2>2, <2>4 DEF IsOneWay
    <3> QED BY <2>4, <3>1 DEF CorrectionOf, edge
  <2> QED BY <2>1, <2>3, <2>4
<1>2. ASSUME NEW edge \in D, edge \notin EdgesOf(arcs)
      PROVE  CorrectionOf(arcs, edge) = 0
  <2>1. edge \in Nat
    BY EdgesAreFinite
  <2>2. EdgeOf(2 * edge) = edge /\ EdgeOf(2 * edge + 1) = edge
    BY <2>1 DEF EdgeOf
  <2>3. 2 * edge \notin arcs /\ 2 * edge + 1 \notin arcs
    BY <1>2, <2>2 DEF EdgesOf
  <2> QED BY <2>3 DEF CorrectionOf
<1>3. \A edge \in D : CorrectionOf(arcs, edge) \in Int
  BY DEF CorrectionOf, Correction
<1> QED BY <1>1, <1>2, <1>3

\* An increment along an arc adds the price of the arc to the potential of
\* its edge.
LEMMA ArcRaisesPotential ==
    ASSUME NEW costs, AreCosts(costs), NEW flows, AreFlows(flows, DOMAIN costs),
           NEW step \in Nat \ {0}, NEW arc \in ArcsOf(DOMAIN costs),
           NEW moved, moved = flows[EdgeOf(arc)]
                              + FlowSign(EdgeOf(arc)) * Correction(arc, step)
    PROVE  /\ moved \in Int /\ ArcCost(costs, flows, step, arc) \in Int
           /\ EdgePotential(costs[EdgeOf(arc)], moved, step)
                = EdgePotential(costs[EdgeOf(arc)], flows[EdgeOf(arc)], step)
                  + ArcCost(costs, flows, step, arc)
<1> DEFINE edge == EdgeOf(arc)
           item == costs[edge]
           old == flows[edge]
<1>1. edge \in DOMAIN costs
  BY ArcFacts DEF AreCosts
<1>2. IsEdge(item) /\ old \in Int
  BY <1>1 DEF AreCosts, AreFlows
<1>3. moved = old + step \/ moved = old - step
  BY <1>2 DEF FlowSign, Correction
<1>4. ArcCost(costs, flows, step, arc)
        = ScaleIncrement(EdgeCost(item, moved) - EdgeCost(item, old), step)
  BY DEF ArcCost
<1> HIDE DEF edge, item, old
<1>5. moved \in Int /\ old + step \in Int
  BY <1>2, <1>3
<1>6. EdgeCost(item, moved) \in Int /\ EdgeCost(item, old) \in Int
  BY <1>2, <1>5, EdgeCostIsInt
<1>7. CASE moved = old + step
  <2>1. ArcCost(costs, flows, step, arc) = Rise(item, old, step)
    BY <1>4, <1>7 DEF Rise
  <2>2. Rise(item, old, step) \in Int
    BY <1>2, RiseIsInt
  <2>3. EdgePotential(item, old + step, step)
          = EdgePotential(item, old, step) + Rise(item, old, step)
    BY <1>2, PotentialRises
  <2> QED BY <1>5, <1>7, <2>1, <2>2, <2>3 DEF item, old, edge
<1>8. CASE moved = old - step
  <2>1. moved + step = old
    BY <1>2, <1>8
  <2>2. Rise(item, moved, step) = ScaleIncrement(EdgeCost(item, old) - EdgeCost(item, moved), step)
    BY <2>1 DEF Rise
  <2>3. EdgeCost(item, moved) - EdgeCost(item, old)
          = -(EdgeCost(item, old) - EdgeCost(item, moved))
        /\ EdgeCost(item, old) - EdgeCost(item, moved) \in Int
    BY <1>6
  <2>4. ArcCost(costs, flows, step, arc) = -Rise(item, moved, step)
    BY <1>4, <2>2, <2>3, ScaleIncrementIsOdd
  <2>5. Rise(item, moved, step) \in Int
    BY <1>2, <1>5, RiseIsInt
  <2>6. /\ EdgePotential(item, moved + step, step)
             = EdgePotential(item, moved, step) + Rise(item, moved, step)
        /\ EdgePotential(item, moved, step) \in Int
    BY <1>2, <1>5, PotentialRises
  <2> QED BY <1>5, <2>1, <2>4, <2>5, <2>6 DEF item, old, edge
<1> QED BY <1>3, <1>7, <1>8

\* The potential of all edges, and the prices of the arcs of a cycle.
PotentialOf(costs, flows, step) ==
    MapThenSumSet(LAMBDA edge : EdgePotential(costs[edge], flows[edge], step), DOMAIN costs)
Potentials(costs, flows, step) ==
    [edge \in DOMAIN costs |-> EdgePotential(costs[edge], flows[edge], step)]
Prices(costs, flows, step, arcs) == [arc \in arcs |-> ArcCost(costs, flows, step, arc)]

\* The potential is a sum of a function.
LEMMA PotentialOfIsSum ==
    ASSUME NEW costs, AreCosts(costs), NEW flows, AreFlows(flows, DOMAIN costs),
           NEW step \in Nat \ {0}
    PROVE  /\ PotentialOf(costs, flows, step)
                = SumOver(Potentials(costs, flows, step), DOMAIN costs)
           /\ \A edge \in DOMAIN costs : Potentials(costs, flows, step)[edge] \in Int
           /\ IsFiniteSet(DOMAIN costs)
<1> DEFINE Of(edge) == EdgePotential(costs[edge], flows[edge], step)
           g == Potentials(costs, flows, step)
           S == DOMAIN costs
           I == CHOOSE it : it = [s \in SUBSET S |-> IF s = {} THEN 0
                                             ELSE Of(Some(s)) + it[s \ {Some(s)}]]
<1>1. PotentialOf(costs, flows, step) = I[S]
  BY DEF PotentialOf, MapThenSumSet, MapThenFoldSet, Some
<1>2. \A x \in S : g[x] = Of(x) /\ g[x] \in Int
  BY PotentialRises DEF Potentials, AreCosts, AreFlows
<1>3. IsFiniteSet(S)
  BY EdgesAreFinite, FS_Subset DEF AreCosts
<1> HIDE DEF Of, g, S
<1>4. PICK jt \in [SUBSET S -> Int] : IsSum(jt, g, S)
  BY <1>2, <1>3, SumExists
<1>5. \A s \in SUBSET S : s # {} => g[Some(s)] = Of(Some(s))
  BY <1>2 DEF Some
<1>6. jt = [s \in SUBSET S |-> IF s = {} THEN 0 ELSE Of(Some(s)) + jt[s \ {Some(s)}]]
  BY <1>4, <1>5 DEF IsSum
<1>7. I = [s \in SUBSET S |-> IF s = {} THEN 0 ELSE Of(Some(s)) + I[s \ {Some(s)}]]
  BY <1>6
<1> HIDE DEF I
<1>8. IsSum(I, g, S)
  BY <1>5, <1>7 DEF IsSum
<1>9. I[S] = SumOver(g, S)
  BY <1>2, <1>3, <1>8, SumIs
<1> QED BY <1>1, <1>2, <1>3, <1>9 DEF g, S

\* The cost of a cycle is the sum of the prices of its arcs.
LEMMA CycleCostIsSum ==
    ASSUME NEW costs, NEW flows, NEW step, NEW arcs, IsFiniteSet(arcs),
           \A arc \in arcs : ArcCost(costs, flows, step, arc) \in Int
    PROVE  /\ CycleCost(costs, flows, step, arcs)
                = SumOver(Prices(costs, flows, step, arcs), arcs)
           /\ CycleCost(costs, flows, step, arcs) \in Int
<1> DEFINE Of(arc) == ArcCost(costs, flows, step, arc)
           g == Prices(costs, flows, step, arcs)
           I == CHOOSE it : it = [s \in SUBSET arcs |-> IF s = {} THEN 0
                                             ELSE Of(Some(s)) + it[s \ {Some(s)}]]
<1>1. CycleCost(costs, flows, step, arcs) = I[arcs]
  BY DEF CycleCost, MapThenSumSet, MapThenFoldSet, Some
<1>2. \A x \in arcs : g[x] = Of(x) /\ g[x] \in Int
  BY DEF Prices
<1> HIDE DEF Of, g
<1>4. PICK jt \in [SUBSET arcs -> Int] : IsSum(jt, g, arcs)
  BY <1>2, SumExists
<1>5. \A s \in SUBSET arcs : s # {} => g[Some(s)] = Of(Some(s))
  BY <1>2 DEF Some
<1>6. jt = [s \in SUBSET arcs |-> IF s = {} THEN 0 ELSE Of(Some(s)) + jt[s \ {Some(s)}]]
  BY <1>4, <1>5 DEF IsSum
<1>7. I = [s \in SUBSET arcs |-> IF s = {} THEN 0 ELSE Of(Some(s)) + I[s \ {Some(s)}]]
  BY <1>6
<1> HIDE DEF I
<1>8. IsSum(I, g, arcs)
  BY <1>5, <1>7 DEF IsSum
<1>9. I[arcs] = SumOver(g, arcs) /\ SumOver(g, arcs) \in Int
  BY <1>2, <1>8, SumIs
<1> QED BY <1>1, <1>9 DEF g

\* An increment of a cycle adds its cost to the potential: the arcs of the
\* cycle cross different edges.
LEMMA CycleRaisesPotential ==
    ASSUME NEW costs, AreCosts(costs), NEW flows, AreFlows(flows, DOMAIN costs),
           nflow \in Nat \ {0}, NEW arcs \in SUBSET ArcsOf(DOMAIN costs), IsOneWay(arcs),
           NEW moved,
           \A edge \in DOMAIN costs :
               moved[edge] = flows[edge] + FlowSign(edge) * CorrectionOf(arcs, edge)
    PROVE  PotentialOf(costs, moved, nflow)
             = PotentialOf(costs, flows, nflow) + CycleCost(costs, flows, nflow, arcs)
<1> DEFINE D == DOMAIN costs
           g == Potentials(costs, flows, nflow)
           h == Potentials(costs, moved, nflow)
           gain == Prices(costs, flows, nflow, arcs)
           at == [arc \in arcs |-> EdgeOf(arc)]
<1>1. D \in SUBSET Edges
  BY DEF AreCosts
<1>2. AreFlows(moved, D)
  <2>1. \A edge \in D : CorrectionOf(arcs, edge) \in Int /\ flows[edge] \in Int
    BY <1>1, CorrectionOfArcs DEF AreFlows
  <2> QED BY <2>1 DEF AreFlows, FlowSign
<1>3. ASSUME NEW arc \in arcs
      PROVE  /\ at[arc] \in D /\ at[arc] = EdgeOf(arc)
             /\ gain[arc] \in Int /\ gain[arc] = ArcCost(costs, flows, nflow, arc)
             /\ h[at[arc]] = g[at[arc]] + gain[arc]
  <2> DEFINE edge == EdgeOf(arc)
  <2>1. arc \in ArcsOf(D) /\ at[arc] = edge /\ gain[arc] = ArcCost(costs, flows, nflow, arc)
    BY DEF Prices
  <2>2. edge \in D
    BY <1>1, <2>1, ArcFacts
  <2>3. moved[edge] = flows[edge] + FlowSign(edge) * Correction(arc, nflow)
    BY <1>1, <2>2, CorrectionOfArcs
  <2>4. /\ gain[arc] \in Int
        /\ EdgePotential(costs[edge], moved[edge], nflow)
             = EdgePotential(costs[edge], flows[edge], nflow) + gain[arc]
    BY <2>1, <2>3, ArcRaisesPotential
  <2>5. /\ g[edge] = EdgePotential(costs[edge], flows[edge], nflow)
        /\ h[edge] = EdgePotential(costs[edge], moved[edge], nflow)
    BY <2>2 DEF Potentials
  <2> QED BY <2>1, <2>2, <2>4, <2>5
<1>4. ASSUME NEW edge \in D, \A arc \in arcs : at[arc] # edge
      PROVE  h[edge] = g[edge]
  <2>1. edge \notin EdgesOf(arcs)
    BY <1>3, <1>4 DEF EdgesOf
  <2>2. CorrectionOf(arcs, edge) = 0 /\ flows[edge] \in Int
    BY <1>1, <2>1, CorrectionOfArcs DEF AreFlows
  <2>3. moved[edge] = flows[edge]
    BY <2>2 DEF FlowSign
  <2> QED BY <2>3 DEF Potentials
<1>5. \A a, b \in arcs : at[a] = at[b] => a = b
  BY DEF IsOneWay
<1>6. IsFiniteSet(D) /\ (\A edge \in D : g[edge] \in Int)
      /\ PotentialOf(costs, flows, nflow) = SumOver(g, D)
      /\ PotentialOf(costs, moved, nflow) = SumOver(h, D)
  BY <1>2, PotentialOfIsSum
<1>7. IsFiniteSet(arcs)
  <2>1. arcs \in SUBSET ArcsOf(Edges)
    BY <1>1 DEF ArcsOf
  <2> QED BY <2>1, EdgesAreFinite, FS_Subset
<1>8. CycleCost(costs, flows, nflow, arcs) = SumOver(gain, arcs)
  BY <1>3, <1>7, CycleCostIsSum
<1> HIDE DEF D, g, h, gain, at
<1>9. SumOver(h, D) = SumOver(g, D) + SumOver(gain, arcs)
  BY <1>3, <1>4, <1>5, <1>6, <1>7, SumGains
<1> QED BY <1>6, <1>8, <1>9

-----------------------------------------------------------------------------
(* The graph.                                                              *)

\* The grid has at least one row and one column of plaquettes.
LEMMA GridSizes ==
    /\ PRow \in Nat \ {0} /\ PCol \in Nat \ {0} /\ NRow = PRow + 1 /\ NCol = PCol + 1
    /\ Ground \in Nat \ {0} /\ HorizontalEdges \in Nat
    /\ NRow * PCol = PRow * PCol + PCol /\ PRow * PCol = Ground
<1>1. PRow \in Nat \ {0} /\ PCol \in Nat \ {0} /\ NRow = PRow + 1 /\ NCol = PCol + 1
  BY GridAssumption DEF PRow, PCol
<1>2. PRow * PCol \in Nat /\ PRow * PCol >= 1
  BY <1>1
<1>3. NRow * PCol = PRow * PCol + PCol
  BY <1>1
<1> QED BY <1>1, <1>2, <1>3 DEF Ground, HorizontalEdges

\* A plaquette is in the grid when its row and its column are.
LEMMA PlaquettePlace ==
    ASSUME NEW row \in 0 .. PRow - 1, NEW col \in 0 .. PCol - 1
    PROVE  row * PCol + col \in 0 .. Ground - 1
<1>1. row + 1 <= PRow /\ row \in Nat /\ PCol \in Nat /\ PRow \in Nat
  BY GridSizes
<1>2. (row + 1) * PCol <= PRow * PCol
  BY <1>1
<1>3. (row + 1) * PCol = row * PCol + PCol /\ row * PCol \in Nat
  BY <1>1
<1> DEFINE first == row * PCol
           all == PRow * PCol
<1> HIDE DEF first, all
<1>4. first + PCol <= all /\ first \in Nat /\ all = Ground
  BY <1>2, <1>3, GridSizes DEF first, all
<1>5. first + col \in 0 .. Ground - 1
  BY <1>1, <1>4, GridSizes
<1> QED BY <1>5 DEF first

\* An edge lies between two different nodes.
LEMMA EdgeEnds ==
    ASSUME NEW edge \in Edges
    PROVE  /\ NodesOf(edge)[1] \in Nodes /\ NodesOf(edge)[2] \in Nodes
           /\ NodesOf(edge)[1] # NodesOf(edge)[2]
<1>1. edge \in Nat /\ edge <= HorizontalEdges + PRow * NCol - 1
  BY EdgesAreFinite, GridSizes DEF Edges
<1>2. CASE IsHorizontal(edge)
  <2>1. edge < Ground + PCol /\ HorizontalEdges = Ground + PCol
    BY <1>1, <1>2, GridSizes DEF IsHorizontal, HorizontalEdges
  <2>2. NodesOf(edge) = <<IF edge < PCol THEN Ground ELSE edge - PCol,
                          IF edge >= Ground THEN Ground ELSE edge>>
    BY <1>2, GridSizes DEF NodesOf
  <2>3. PCol <= Ground
    <3>1. PCol <= PRow * PCol
      BY GridSizes
    <3> QED BY <3>1, GridSizes
  <2> QED BY <1>1, <2>1, <2>2, <2>3, GridSizes DEF Nodes
<1>3. CASE ~IsHorizontal(edge)
  <2> DEFINE v == edge - HorizontalEdges
             row == v \div NCol
             col == v % NCol
  <2>1. v \in Nat /\ v <= PRow * NCol - 1 /\ NCol \in Nat \ {0} /\ PRow * NCol \in Nat
    BY <1>1, <1>3, GridSizes DEF IsHorizontal
  <2> HIDE DEF v
  <2>2. row \in Nat /\ col \in 0 .. NCol - 1 /\ v = NCol * row + col
    BY <2>1
  <2>3. NodesOf(edge) = <<IF col = PCol THEN Ground ELSE row * PCol + col,
                          IF col = 0 THEN Ground ELSE row * PCol + col - 1>>
    BY <1>3 DEF NodesOf, v
  <2> HIDE DEF row, col
  <2>4. row <= PRow - 1
    <3>1. SUFFICES ASSUME row >= PRow PROVE FALSE
      BY <2>2, GridSizes
    <3>2. NCol * row >= NCol * PRow
      BY <2>1, <2>2, <3>1, GridSizes
    <3>3. NCol * PRow = PRow * NCol /\ NCol * row \in Nat
      BY <2>1, <2>2, GridSizes
    <3> QED BY <2>1, <2>2, <3>2, <3>3
  <2>5. col # PCol => row * PCol + col \in 0 .. Ground - 1
    <3>1. col # PCol => col \in 0 .. PCol - 1
      BY <2>2, GridSizes
    <3>2. row \in 0 .. PRow - 1
      BY <2>2, <2>4, GridSizes
    <3> QED BY <3>1, <3>2, PlaquettePlace
  <2>6. col # 0 => row * PCol + (col - 1) \in 0 .. Ground - 1
    <3>1. col # 0 => col - 1 \in 0 .. PCol - 1
      BY <2>2, GridSizes
    <3>2. row \in 0 .. PRow - 1
      BY <2>2, <2>4, GridSizes
    <3> QED BY <3>1, <3>2, PlaquettePlace
  <2> DEFINE first == row * PCol
  <2>7. first \in Nat /\ first + col - 1 = first + (col - 1)
    BY <2>2, GridSizes
  <2>8. NodesOf(edge) = <<IF col = PCol THEN Ground ELSE first + col,
                          IF col = 0 THEN Ground ELSE first + (col - 1)>>
    BY <2>3, <2>7
  <2> HIDE DEF first
  <2>9. /\ col # PCol => first + col \in 0 .. Ground - 1
        /\ col # 0 => first + (col - 1) \in 0 .. Ground - 1
    BY <2>5, <2>6 DEF first
  <2> QED BY <2>2, <2>7, <2>8, <2>9, GridSizes DEF Nodes
<1> QED BY <1>2, <1>3

\* The ends of an arc.
LEMMA ArcEnds ==
    ASSUME NEW arc \in ArcsOf(Edges)
    PROVE  From[arc] \in Nodes /\ To[arc] \in Nodes /\ From[arc] # To[arc]
<1>1. EdgeOf(arc) \in Edges
  BY ArcFacts
<1> QED BY <1>1, EdgeEnds DEF From, To

\* Connection by arcs is an equivalence.
LEMMA JoinedFacts ==
    ASSUME NEW arcs \in SUBSET ArcsOf(Edges), NEW x \in Nodes, NEW y \in Nodes, NEW z \in Nodes
    PROVE  /\ Joined(arcs, x, x)
           /\ Joined(arcs, x, y) => Joined(arcs, y, x)
           /\ Joined(arcs, x, y) /\ Joined(arcs, y, z) => Joined(arcs, x, z)
<1>1. Joined(arcs, x, x)
  BY DEF Joined
<1>2. ASSUME Joined(arcs, x, y) PROVE Joined(arcs, y, x)
  <2> SUFFICES ASSUME NEW part \in SUBSET Nodes, y \in part, x \notin part
               PROVE  \E arc \in arcs : (From[arc] \in part) # (To[arc] \in part)
    BY DEF Joined
  <2> DEFINE other == Nodes \ part
  <2>1. other \in SUBSET Nodes /\ x \in other /\ y \notin other
    OBVIOUS
  <2>2. PICK arc \in arcs : (From[arc] \in other) # (To[arc] \in other)
    BY <1>2, <2>1 DEF Joined
  <2>3. From[arc] \in Nodes /\ To[arc] \in Nodes
    BY ArcEnds
  <2> QED BY <2>2, <2>3
<1>3. ASSUME Joined(arcs, x, y), Joined(arcs, y, z) PROVE Joined(arcs, x, z)
  <2> SUFFICES ASSUME NEW part \in SUBSET Nodes, x \in part, z \notin part
               PROVE  \E arc \in arcs : (From[arc] \in part) # (To[arc] \in part)
    BY DEF Joined
  <2>1. CASE y \in part
    BY <1>3, <2>1 DEF Joined
  <2>2. CASE y \notin part
    BY <1>3, <2>2 DEF Joined
  <2> QED BY <2>1, <2>2
<1> QED BY <1>1, <1>2, <1>3

\* The cycle an arc closes is of the graph and crosses no edge both ways: a
\* bridge is crossed in the direction of the way from one end to the other.
LEMMA TreeCycleIsOneWay ==
    ASSUME NEW D \in SUBSET Edges, NEW tree \in SUBSET ArcsOf(D),
           NEW entering \in ArcsOf(D \ EdgesOf(tree))
    PROVE  TreeCycle(tree, entering) \in SUBSET ArcsOf(D) /\ IsOneWay(TreeCycle(tree, entering))
<1> DEFINE from == To[entering]
           to == From[entering]
           path == TreePath(tree, from, to)
<1>1. entering \in ArcsOf(D) /\ EdgeOf(entering) \notin EdgesOf(tree)
  <2>1. D \ EdgesOf(tree) \in SUBSET Edges
    OBVIOUS
  <2> QED BY <2>1, ArcFacts DEF ArcsOf
<1>2. ArcsOf(D) \in SUBSET ArcsOf(Edges) /\ EdgesOf(tree) \in SUBSET D
  BY ArcFacts DEF ArcsOf, EdgesOf
<1>3. from \in Nodes /\ to \in Nodes
  BY <1>1, <1>2, ArcEnds
<1>4. \A arc \in path : arc \in ArcsOf(D) /\ EdgeOf(arc) \in EdgesOf(tree)
  <2> TAKE arc \in path
  <2>1. arc \in ArcsOf(EdgesOf(tree)) /\ EdgesOf(tree) \in SUBSET Edges
    BY <1>2 DEF TreePath
  <2> QED BY <1>2, <2>1, ArcFacts DEF ArcsOf
<1>5. ASSUME NEW a \in path, NEW b \in path, EdgeOf(a) = EdgeOf(b), a # b
      PROVE  FALSE
  <2> DEFINE rest == {other \in tree : EdgeOf(other) # EdgeOf(a)}
  <2>1. /\ ~Joined(rest, from, to)
        /\ Joined(rest, from, From[a]) /\ Joined(rest, To[a], to)
        /\ Joined(rest, from, From[b]) /\ Joined(rest, To[b], to)
    BY <1>5 DEF TreePath
  <2>2. From[b] = To[a]
    <3>1. a \in ArcsOf(Edges) /\ b \in ArcsOf(Edges)
      BY <1>2, <1>4
    <3>2. IsReverse(a) # IsReverse(b)
      <4>1. /\ IF IsReverse(a) THEN a = 2 * EdgeOf(a) + 1 ELSE a = 2 * EdgeOf(a)
            /\ IF IsReverse(b) THEN b = 2 * EdgeOf(b) + 1 ELSE b = 2 * EdgeOf(b)
        BY <3>1, ArcFacts
      <4>2. IsReverse(a) \in BOOLEAN /\ IsReverse(b) \in BOOLEAN
        BY DEF IsReverse
      <4> QED BY <1>5, <4>1, <4>2
    <3>3. IsReverse(a) \in BOOLEAN /\ IsReverse(b) \in BOOLEAN
      BY DEF IsReverse
    <3> QED BY <1>5, <3>1, <3>2, <3>3 DEF From, To
  <2>3. rest \in SUBSET ArcsOf(Edges) /\ From[a] \in Nodes /\ To[a] \in Nodes
    BY <1>2, <1>4, ArcEnds
  <2> HIDE DEF rest, from, to
  <2> QED BY <1>3, <2>1, <2>2, <2>3, JoinedFacts
<1>6. TreeCycle(tree, entering) = {entering} \cup path
  BY DEF TreeCycle
<1> HIDE DEF path
<1> QED BY <1>1, <1>4, <1>5, <1>6 DEF IsOneWay

-----------------------------------------------------------------------------
(* Sorting.                                                                *)

\* Tuples of one length are totally ordered by their first difference.
LEMMA PrecedesIsTotal ==
    ASSUME NEW n \in Nat, NEW x \in [1 .. n -> Int], NEW y \in [1 .. n -> Int],
           NEW z \in [1 .. n -> Int]
    PROVE  /\ ~Precedes(x, x)
           /\ Precedes(x, y) /\ Precedes(y, z) => Precedes(x, z)
           /\ x = y \/ Precedes(x, y) \/ Precedes(y, x)
<1>1. ~Precedes(x, x)
  BY DEF Precedes
<1>2. ASSUME Precedes(x, y), Precedes(y, z) PROVE Precedes(x, z)
  <2>1. PICK i \in 1 .. n : x[i] < y[i] /\ \A j \in 1 .. i - 1 : x[j] = y[j]
    BY <1>2 DEF Precedes
  <2>2. PICK k \in 1 .. n : y[k] < z[k] /\ \A j \in 1 .. k - 1 : y[j] = z[j]
    BY <1>2 DEF Precedes
  <2>3. CASE i <= k
    <3>1. x[i] < z[i]
      BY <2>1, <2>2, <2>3
    <3>2. \A j \in 1 .. i - 1 : x[j] = z[j]
      BY <2>1, <2>2, <2>3
    <3> QED BY <3>1, <3>2 DEF Precedes
  <2>4. CASE k < i
    <3>1. x[k] < z[k]
      BY <2>1, <2>2, <2>4
    <3>2. \A j \in 1 .. k - 1 : x[j] = z[j]
      BY <2>1, <2>2, <2>4
    <3> QED BY <3>1, <3>2 DEF Precedes
  <2> QED BY <2>3, <2>4
<1>3. ASSUME x # y PROVE Precedes(x, y) \/ Precedes(y, x)
  <2> DEFINE T == {i \in 1 .. n : x[i] # y[i]}
  <2>1. T \in SUBSET Nat /\ T # {}
    BY <1>3
  <2>2. PICK i \in T : \A k \in T : i <= k
    BY <2>1, LeastOf
  <2>3. i \in 1 .. n /\ x[i] # y[i] /\ x[i] \in Int /\ y[i] \in Int
    BY <2>2
  <2>4. \A j \in 1 .. i - 1 : x[j] = y[j]
    BY <2>2, <2>3
  <2>5. DOMAIN x = 1 .. n /\ DOMAIN y = 1 .. n
    OBVIOUS
  <2> HIDE DEF T
  <2>6. CASE x[i] < y[i]
    BY <2>3, <2>4, <2>5, <2>6 DEF Precedes
  <2>7. CASE y[i] < x[i]
    <3>1. \A j \in 1 .. i - 1 : y[j] = x[j]
      BY <2>4
    <3> QED BY <2>3, <2>5, <2>7, <3>1 DEF Precedes
  <2> QED BY <2>3, <2>6, <2>7
<1> QED BY <1>1, <1>2, <1>3

\* In a finite set of tuples there is one for every rank: the element that
\* Smallest chooses exists.
LEMMA RanksAreTaken ==
    ASSUME NEW n \in Nat, NEW tuples \in SUBSET [1 .. n -> Int], IsFiniteSet(tuples),
           NEW rank \in 0 .. Cardinality(tuples) - 1
    PROVE  \E x \in tuples : Cardinality({y \in tuples : Precedes(y, x)}) = rank
<1> DEFINE Below(x) == {y \in tuples : Precedes(y, x)}
           size == Cardinality(tuples)
           ranks == [x \in tuples |-> Cardinality(Below(x))]
<1>1. size \in Nat
  BY FS_CardinalityType
<1>2. ASSUME NEW x \in tuples
      PROVE  /\ IsFiniteSet(Below(x)) /\ Cardinality(Below(x)) \in Nat
             /\ Cardinality(Below(x)) < size
  <2>1. x \notin Below(x) /\ Below(x) \in SUBSET tuples
    BY PrecedesIsTotal
  <2>2. /\ IsFiniteSet(Below(x)) /\ Cardinality(Below(x)) <= size
        /\ Cardinality(Below(x)) = size => tuples = Below(x)
    BY <2>1, FS_Subset
  <2>3. Cardinality(Below(x)) \in Nat
    BY <2>2, FS_CardinalityType
  <2> QED BY <1>1, <2>1, <2>2, <2>3
<1>3. ASSUME NEW x \in tuples, NEW y \in tuples, Precedes(x, y)
      PROVE  Cardinality(Below(x)) < Cardinality(Below(y))
  <2>1. Below(x) \in SUBSET Below(y) /\ x \in Below(y) /\ x \notin Below(x)
    BY <1>3, PrecedesIsTotal
  <2>2. /\ Cardinality(Below(x)) <= Cardinality(Below(y))
        /\ Cardinality(Below(y)) = Cardinality(Below(x)) => Below(y) = Below(x)
    BY <1>2, <2>1, FS_Subset
  <2>3. Cardinality(Below(x)) \in Nat /\ Cardinality(Below(y)) \in Nat
    BY <1>2
  <2> HIDE DEF Below
  <2> QED BY <2>1, <2>2, <2>3
<1> HIDE DEF Below, size
<1>4. \A x \in tuples : ranks[x] = Cardinality(Below(x)) /\ ranks[x] \in 0 .. size - 1
  <2> TAKE x \in tuples
  <2>1. Cardinality(Below(x)) \in Nat /\ Cardinality(Below(x)) < size
    BY <1>2
  <2> QED BY <1>1, <2>1
<1>5. ASSUME NEW x \in tuples, NEW y \in tuples, ranks[x] = ranks[y] PROVE x = y
  <2>1. x = y \/ Precedes(x, y) \/ Precedes(y, x)
    BY PrecedesIsTotal
  <2>2. Cardinality(Below(x)) \in Nat /\ Cardinality(Below(y)) \in Nat
    BY <1>2
  <2> QED BY <1>3, <1>4, <1>5, <2>1, <2>2
<1>6. ranks \in Injection(tuples, 0 .. size - 1)
  BY <1>4, <1>5 DEF Injection, IsInjective
<1>7. IsFiniteSet(0 .. size - 1) /\ Cardinality(0 .. size - 1) = size
  BY <1>1, FS_Interval
<1>8. ranks \in Surjection(tuples, 0 .. size - 1)
  BY <1>6, <1>7, FS_Injection DEF size
<1>9. \E x \in tuples : ranks[x] = rank
  BY <1>8 DEF Surjection, size
<1> QED BY <1>4, <1>9 DEF Below

\* SortedBy takes the ends of the smallest tuples, as many as it may.
LEMMA SortedByTakes ==
    ASSUME NEW n \in Nat \ {0}, NEW tuples \in SUBSET [1 .. n -> Int], IsFiniteSet(tuples),
           NEW count \in Nat
    PROVE  /\ SortedBy(tuples, count) \in Seq({x[n] : x \in tuples})
           /\ Len(SortedBy(tuples, count)) <= count
<1> DEFINE size == AtMost(Cardinality(tuples), count)
           sorted == Smallest(tuples, count)
<1>1. Cardinality(tuples) \in Nat
  BY FS_CardinalityType
<1>2. size \in Nat /\ size <= count /\ size <= Cardinality(tuples)
  BY <1>1 DEF AtMost
<1>3. ASSUME NEW index \in 1 .. size PROVE sorted[index] \in tuples
  <2>1. index - 1 \in 0 .. Cardinality(tuples) - 1
    BY <1>1, <1>2
  <2>2. \E x \in tuples : Cardinality({y \in tuples : Precedes(y, x)}) = index - 1
    BY <2>1, RanksAreTaken
  <2>3. sorted[index] =
          CHOOSE x \in tuples : Cardinality({y \in tuples : Precedes(y, x)}) = index - 1
    BY DEF Smallest
  <2> HIDE DEF sorted
  <2> QED BY <2>2, <2>3
<1>4. DOMAIN sorted = 1 .. size
  BY DEF Smallest
<1> HIDE DEF sorted, size
<1>5. SortedBy(tuples, count) = [index \in DOMAIN sorted |-> sorted[index][Len(sorted[index])]]
  BY DEF SortedBy, sorted
<1>6. ASSUME NEW x \in tuples PROVE Len(x) = n
  <2>1. x \in Seq(Int) /\ DOMAIN x = 1 .. n
    OBVIOUS
  <2> QED BY <2>1
<1>7. SortedBy(tuples, count) = [index \in 1 .. size |-> sorted[index][n]]
  BY <1>3, <1>4, <1>5, <1>6
<1>8. \A index \in 1 .. size : sorted[index][n] \in {x[n] : x \in tuples}
  BY <1>3
<1> QED BY <1>2, <1>7, <1>8

-----------------------------------------------------------------------------
(* The search for a negative cycle.                                        *)

\* f iterates op n times from base.
IsIteration(f, op, base, n) == f = [k \in 0 .. n |-> IF k = 0 THEN base ELSE op[f[k - 1]]]

\* A function that iterates another one exists.
LEMMA IterationExists ==
    ASSUME NEW V, NEW base \in V, NEW op, \A v \in V : op[v] \in V, NEW n \in Nat
    PROVE  \E f \in [0 .. n -> V] : IsIteration(f, op, base, n)
<1> DEFINE Upto(m) == \E f \in [0 .. m -> V] :
                          \A k \in 0 .. m : f[k] = IF k = 0 THEN base ELSE op[f[k - 1]]
           Bad == {m \in Nat : ~Upto(m)}
<1>1. Upto(0)
  <2> DEFINE f == [k \in 0 .. 0 |-> base]
  <2>1. f \in [0 .. 0 -> V] /\ \A k \in 0 .. 0 : f[k] = IF k = 0 THEN base ELSE op[f[k - 1]]
    OBVIOUS
  <2> HIDE DEF f
  <2> QED BY <2>1
<1>2. ASSUME NEW m \in Nat, Upto(m) PROVE Upto(m + 1)
  <2>1. PICK f \in [0 .. m -> V] : \A k \in 0 .. m : f[k] = IF k = 0 THEN base ELSE op[f[k - 1]]
    BY <1>2
  <2> DEFINE more == [k \in 0 .. m + 1 |-> IF k <= m THEN f[k] ELSE op[f[m]]]
  <2>2. m \in 0 .. m /\ f[m] \in V
    OBVIOUS
  <2>3. more \in [0 .. m + 1 -> V]
    BY <2>2
  <2>4. \A k \in 0 .. m + 1 : more[k] = IF k = 0 THEN base ELSE op[more[k - 1]]
    <3> TAKE k \in 0 .. m + 1
    <3>1. CASE k <= m
      <4>1. more[k] = f[k] /\ k \in 0 .. m /\ (k # 0 => more[k - 1] = f[k - 1])
        BY <3>1
      <4> HIDE DEF more
      <4> QED BY <2>1, <4>1
    <3>2. CASE k = m + 1
      <4>1. more[k] = op[f[m]] /\ k # 0 /\ k - 1 = m /\ more[k - 1] = f[m]
        BY <3>2
      <4> HIDE DEF more
      <4> QED BY <4>1
    <3> QED BY <3>1, <3>2
  <2> HIDE DEF more
  <2> QED BY <2>3, <2>4
<1> HIDE DEF Upto
<1>3. Bad = {}
  <2>1. SUFFICES ASSUME Bad # {} PROVE FALSE
    OBVIOUS
  <2>2. PICK m \in Bad : \A k \in Bad : m <= k
    BY <2>1, LeastOf
  <2>3. m \in Nat /\ m # 0 /\ m - 1 \in Nat
    BY <1>1, <2>2
  <2>4. m - 1 \notin Bad
    BY <2>2, <2>3
  <2>5. Upto(m - 1 + 1) /\ m - 1 + 1 = m
    BY <1>2, <2>3, <2>4
  <2> QED BY <2>2, <2>5
<1>4. PICK f \in [0 .. n -> V] : \A k \in 0 .. n : f[k] = IF k = 0 THEN base ELSE op[f[k - 1]]
  BY <1>3 DEF Upto
<1>5. f = [k \in 0 .. n |-> IF k = 0 THEN base ELSE op[f[k - 1]]]
  BY <1>4
<1> QED BY <1>5 DEF IsIteration

\* A finite set of numbers has a greatest one.
LEMMA GreatestIsIn ==
    ASSUME NEW n \in Nat, NEW s \in SUBSET (1 .. n), s # {}
    PROVE  Max(s) \in s
<1> DEFINE T == {k \in 0 .. n : n - k \in s}
<1>1. T \in SUBSET Nat
  OBVIOUS
<1>2. \A x \in s : x \in 1 .. n /\ n - (n - x) = x /\ n - x \in 0 .. n
  OBVIOUS
<1>3. T # {}
  BY <1>2
<1>4. PICK k \in T : \A l \in T : k <= l
  BY <1>1, <1>3, LeastOf
<1>5. \A x \in s : n - x \in T
  BY <1>2
<1>6. n - k \in s /\ \A x \in s : n - k >= x
  BY <1>2, <1>4, <1>5
<1> QED BY <1>6 DEF Max

\* The states of a search over arcs: a node is reached by an arc towards it.
Searches(arcs) ==
    {s \in [dist : [Nodes -> Int], via : [Nodes -> arcs \cup {None}],
            relaxed : Nodes \cup {None}] :
        \A node \in Nodes : s.via[node] # None => To[s.via[node]] = node}

\* A relaxation leads from a state of the search to one.
LEMMA RelaxStays ==
    ASSUME NEW costs, AreCosts(costs), NEW flows, AreFlows(flows, DOMAIN costs),
           NEW step \in Nat \ {0}, NEW arcs \in SUBSET ArcsOf(DOMAIN costs),
           NEW search \in Searches(arcs), NEW arc \in arcs
    PROVE  Relax(costs, flows, step, search, arc) \in Searches(arcs)
<1>1. DOMAIN costs \in SUBSET Edges /\ arc \in ArcsOf(Edges)
  BY ArcFacts DEF AreCosts
<1>2. From[arc] \in Nodes /\ To[arc] \in Nodes
  BY <1>1, ArcEnds
<1>3. ArcCost(costs, flows, step, arc) \in Int
  BY ArcRaisesPotential
<1> DEFINE next == search.dist[From[arc]] + ArcCost(costs, flows, step, arc)
           moved == [dist |-> [search.dist EXCEPT ![To[arc]] = next],
                     via |-> [search.via EXCEPT ![To[arc]] = arc],
                     relaxed |-> To[arc]]
<1>4. next \in Int
  BY <1>2, <1>3 DEF Searches
<1> HIDE DEF next
<1>5. moved \in [dist : [Nodes -> Int], via : [Nodes -> arcs \cup {None}],
                relaxed : Nodes \cup {None}]
  BY <1>2, <1>4 DEF Searches
<1>6. \A node \in Nodes : moved.via[node] # None => To[moved.via[node]] = node
  BY <1>2 DEF Searches
<1>7. moved \in Searches(arcs)
  BY <1>5, <1>6 DEF Searches
<1>8. Relax(costs, flows, step, search, arc) \in {search, moved}
  BY DEF Relax, next
<1> QED BY <1>7, <1>8

\* One round over all arcs.
Sweep(costs, flows, step, order, search) ==
    FoldLeft(LAMBDA s, arc : Relax(costs, flows, step, s, arc), search, order)

\* So does a round.
LEMMA RoundStays ==
    ASSUME NEW costs, AreCosts(costs), NEW flows, AreFlows(flows, DOMAIN costs),
           NEW step \in Nat \ {0}, NEW arcs \in SUBSET ArcsOf(DOMAIN costs),
           NEW order \in Seq(arcs), NEW search \in Searches(arcs)
    PROVE  Sweep(costs, flows, step, order, search) \in Searches(arcs)
<1> DEFINE S == DOMAIN order
           V == Searches(arcs)
           Visit(s, i) == Relax(costs, flows, step, s, order[i])
           pick == [s \in SUBSET S |-> Max(s)]
           op == [pair \in S \X V |-> Visit(pair[2], pair[1])]
           I == CHOOSE it : it = [s \in SUBSET S |-> IF s = {} THEN search
                                             ELSE Visit(it[s \ {Max(s)}], Max(s))]
<1>1. Sweep(costs, flows, step, order, search) = I[S]
  BY DEF Sweep, FoldLeft, MapThenFoldSet
<1>2. Len(order) \in Nat /\ S = 1 .. Len(order) /\ IsFiniteSet(S)
  BY FS_Interval
<1>3. \A s \in SUBSET S : s # {} => Max(s) \in s
  BY <1>2, GreatestIsIn
<1>4. \A i \in S : order[i] \in arcs
  OBVIOUS
<1>5. \A i \in S, v \in V : Visit(v, i) \in V
  BY <1>4, RelaxStays
<1> HIDE DEF Visit, S, V
<1>6. \A i \in S, v \in V : op[<<i, v>>] = Visit(v, i)
  OBVIOUS
<1>7. Picks(pick, S) /\ \A s \in SUBSET S : pick[s] = Max(s)
  BY <1>3 DEF Picks
<1>8. StaysIn(op, S, V)
  BY <1>5, <1>6 DEF StaysIn
<1>9. search \in V
  BY DEF V
<1> HIDE DEF pick, op
<1>10. PICK it \in [SUBSET S -> V] : IsFold(it, op, search, pick, S)
  BY <1>2, <1>7, <1>8, <1>9, FoldExists
<1>11. \A s \in SUBSET S :
          it[s] = IF s = {} THEN search ELSE Visit(it[s \ {Max(s)}], Max(s))
  <2> TAKE s \in SUBSET S
  <2>1. CASE s = {}
    BY <1>10, <2>1 DEF IsFold
  <2>2. CASE s # {}
    <3>1. Max(s) \in S /\ it[s \ {Max(s)}] \in V
      BY <1>3, <2>2
    <3>2. it[s] = op[<<Max(s), it[s \ {Max(s)}]>>]
      BY <1>7, <1>10, <2>2 DEF IsFold
    <3> QED BY <1>6, <2>2, <3>1, <3>2
  <2> QED BY <2>1, <2>2
<1>12. it = [s \in SUBSET S |-> IF s = {} THEN search ELSE Visit(it[s \ {Max(s)}], Max(s))]
  BY <1>11
<1>13. I = [s \in SUBSET S |-> IF s = {} THEN search ELSE Visit(I[s \ {Max(s)}], Max(s))]
  BY <1>12
<1> HIDE DEF I
<1>14. ASSUME NEW s \in SUBSET S PROVE I[s] \in V
  <2> DEFINE Bad == {u \in SUBSET S : I[u] \notin V}
  <2>1. ASSUME Bad # {} PROVE FALSE
    <3>1. PICK u \in Bad : \A w \in Bad : w \subseteq u => w = u
      <4>1. Bad \in SUBSET SUBSET S
        OBVIOUS
      <4>2. IsFiniteSet(S)
        BY <1>2
      <4> HIDE DEF Bad
      <4> QED BY <2>1, <4>1, <4>2, SmallestOf
    <3>2. u \in SUBSET S /\ I[u] \notin V /\ u # {}
      BY <1>9, <1>13, <3>1
    <3>3. Max(u) \in u /\ u \ {Max(u)} \in SUBSET S /\ u \ {Max(u)} # u
      BY <1>3, <3>2
    <3>4. I[u \ {Max(u)}] \in V
      BY <3>1, <3>3
    <3>5. I[u] = Visit(I[u \ {Max(u)}], Max(u))
      BY <1>13, <3>2
    <3> QED BY <1>5, <3>2, <3>3, <3>4, <3>5
  <2> QED BY <2>1
<1> QED BY <1>1, <1>14 DEF V

\* A cycle: every node that one of the arcs leads to is left by one, and by
\* no other.
IsCycle(arcs) ==
    \A node \in Nodes :
        \/ \A arc \in arcs : From[arc] # node /\ To[arc] # node
        \/ \E in, out \in arcs : /\ {arc \in arcs : To[arc] = node} = {in}
                                 /\ {arc \in arcs : From[arc] = node} = {out}

\* The search itself: what its rounds end with is a state of the search.
LEMMA SearchStays ==
    ASSUME NEW costs, AreCosts(costs), NEW flows, AreFlows(flows, DOMAIN costs),
           NEW step \in Nat \ {0}, NEW arcs \in SUBSET ArcsOf(DOMAIN costs),
           NEW order \in Seq(arcs), NEW rounds \in Nat
    PROVE  Search(costs, flows, step, order, rounds) \in Searches(arcs)
<1> DEFINE V == Searches(arcs)
           first == [dist |-> [node \in Nodes |-> 0], via |-> [node \in Nodes |-> None],
                     relaxed |-> 0]
           Round(s) == Sweep(costs, flows, step, order, [s EXCEPT !.relaxed = None])
           Next1(s) == IF s.relaxed = None THEN s ELSE Round(s)
           op == [s \in V |-> Next1(s)]
           after == CHOOSE f : f = [k \in 0 .. rounds |-> IF k = 0 THEN first
                                                          ELSE Next1(f[k - 1])]
<1>1. Search(costs, flows, step, order, rounds) = after[rounds]
  BY DEF Search, Sweep
<1>2. first \in V
  <2>1. 0 \in Nodes
    BY GridSizes DEF Nodes
  <2> QED BY <2>1 DEF Searches
<1>3. ASSUME NEW s \in V PROVE Next1(s) \in V
  <2> DEFINE t == [s EXCEPT !.relaxed = None]
  <2>1. t \in Searches(arcs)
    BY DEF Searches
  <2> HIDE DEF t
  <2>2. Sweep(costs, flows, step, order, t) \in Searches(arcs)
    BY <2>1, RoundStays
  <2> QED BY <2>2 DEF t
<1> HIDE DEF Next1, V, first
<1>4. \A s \in V : op[s] = Next1(s) /\ op[s] \in V
  BY <1>3
<1> HIDE DEF op
<1>10. PICK f \in [0 .. rounds -> V] : IsIteration(f, op, first, rounds)
  BY <1>2, <1>4, IterationExists
<1>5. f = [k \in 0 .. rounds |-> IF k = 0 THEN first ELSE op[f[k - 1]]]
  BY <1>10 DEF IsIteration
<1>6. \A k \in 0 .. rounds : f[k] = IF k = 0 THEN first ELSE Next1(f[k - 1])
  <2> TAKE k \in 0 .. rounds
  <2>1. k # 0 => k - 1 \in 0 .. rounds
    OBVIOUS
  <2> QED BY <1>4, <1>5, <2>1
<1>7. f = [k \in 0 .. rounds |-> IF k = 0 THEN first ELSE Next1(f[k - 1])]
  BY <1>5, <1>6
<1>8. after = [k \in 0 .. rounds |-> IF k = 0 THEN first ELSE Next1(after[k - 1])]
  BY <1>7
<1> HIDE DEF after
<1>9. \A k \in 0 .. rounds : after[k] \in V
  <2> DEFINE Bad == {k \in 0 .. rounds : after[k] \notin V}
  <2>1. ASSUME Bad # {} PROVE FALSE
    <3>1. PICK k \in Bad : \A l \in Bad : k <= l
      <4>1. Bad \in SUBSET Nat
        OBVIOUS
      <4> HIDE DEF Bad
      <4> QED BY <2>1, <4>1, LeastOf
    <3>2. k \in 0 .. rounds /\ after[k] \notin V /\ k # 0
      BY <1>2, <1>8, <3>1
    <3>3. k - 1 \in 0 .. rounds /\ k - 1 \notin Bad
      BY <3>1, <3>2
    <3>4. after[k] = Next1(after[k - 1])
      BY <1>8, <3>2
    <3> QED BY <1>3, <3>2, <3>3, <3>4
  <2> QED BY <2>1
<1> QED BY <1>1, <1>9 DEF V

\* The arcs that a set of nodes was reached by are a cycle when each node of
\* the set is left by one of them.
IsReached(around, via) ==
    /\ \A node \in around : To[via[node]] = node /\ From[via[node]] \in around
    /\ \A node \in around : \E other \in around : From[via[other]] = node

\* The arcs that a set of nodes was reached by are a cycle, if it is closed both ways
\* (IsReached): shortest_noncircular_cycle stops at the first one.
LEMMA ReachedByCycle ==
    ASSUME NEW around, IsFiniteSet(around), NEW via, IsReached(around, via)
    PROVE  IsCycle({via[node] : node \in around})
<1> USE DEF IsReached
<1> DEFINE tails == [node \in around |-> From[via[node]]]
           arcs == {via[node] : node \in around}
<1>1. tails \in Surjection(around, around)
  BY DEF Surjection
<1>2. tails \in Injection(around, around)
  BY <1>1, FS_SurjSameCardinalityImpliesInj
<1>3. \A m, n \in around : From[via[m]] = From[via[n]] => m = n
  BY <1>2 DEF Injection, IsInjective
<1>4. ASSUME NEW node \in Nodes
      PROVE  \/ \A arc \in arcs : From[arc] # node /\ To[arc] # node
             \/ \E in, out \in arcs : /\ {arc \in arcs : To[arc] = node} = {in}
                                      /\ {arc \in arcs : From[arc] = node} = {out}
  <2>1. CASE node \in around
    <3>1. PICK other \in around : From[via[other]] = node
      BY <2>1
    <3>2. via[node] \in arcs /\ via[other] \in arcs
      BY <2>1
    <3>3. {arc \in arcs : To[arc] = node} = {via[node]}
      BY <2>1
    <3>4. {arc \in arcs : From[arc] = node} = {via[other]}
      BY <1>3, <3>1
    <3> QED BY <3>2, <3>3, <3>4
  <2>2. CASE node \notin around
    BY <2>2
  <2> QED BY <2>1, <2>2
<1> QED BY <1>4 DEF IsCycle

\* The walk back from the node relaxed last.
BackIn(search, node) ==
    IF node = None \/ search.via[node] = None THEN None ELSE From[search.via[node]]
IsWalk(walk, search, n) ==
    walk = [k \in 0 .. n |-> IF k = 0 THEN search.relaxed ELSE BackIn(search, walk[k - 1])]

\* The walk exists and stays on nodes, or ends.
LEMMA WalkExists ==
    ASSUME NEW arcs \in SUBSET ArcsOf(Edges), NEW search \in Searches(arcs), NEW n \in Nat
    PROVE  /\ \E walk : IsWalk(walk, search, n)
           /\ \A walk : IsWalk(walk, search, n) => \A k \in 0 .. n : walk[k] \in Nodes \cup {None}
<1> DEFINE V == Nodes \cup {None}
           op == [node \in V |-> BackIn(search, node)]
<1>1. \A node \in V : op[node] = BackIn(search, node) /\ BackIn(search, node) \in V
  <2> TAKE node \in V
  <2>1. node # None => search.via[node] \in arcs \cup {None}
    BY DEF Searches
  <2> QED BY <2>1, ArcEnds DEF BackIn
<1>2. search.relaxed \in V
  BY DEF Searches
<1> HIDE DEF op, V
<1>3. \E walk : IsWalk(walk, search, n)
  <2>0. \A node \in V : op[node] \in V
    BY <1>1
  <2>1. PICK f \in [0 .. n -> V] : IsIteration(f, op, search.relaxed, n)
    BY <2>0, <1>2, IterationExists
  <2>2. \A k \in 0 .. n : f[k] = IF k = 0 THEN search.relaxed ELSE BackIn(search, f[k - 1])
    <3> TAKE k \in 0 .. n
    <3>1. k # 0 => k - 1 \in 0 .. n
      OBVIOUS
    <3> QED BY <1>1, <2>1, <3>1 DEF IsIteration
  <2>3. IsWalk(f, search, n)
    BY <2>2 DEF IsWalk
  <2> QED BY <2>3
<1>4. ASSUME NEW walk, IsWalk(walk, search, n) PROVE \A k \in 0 .. n : walk[k] \in V
  <2> DEFINE Bad == {k \in 0 .. n : walk[k] \notin V}
  <2>1. ASSUME Bad # {} PROVE FALSE
    <3>1. PICK k \in Bad : \A l \in Bad : k <= l
      <4>1. Bad \in SUBSET Nat
        OBVIOUS
      <4> HIDE DEF Bad
      <4> QED BY <2>1, <4>1, LeastOf
    <3>2. k \in 0 .. n /\ walk[k] \notin V /\ k # 0
      BY <1>2, <1>4, <3>1 DEF IsWalk
    <3>3. k - 1 \in 0 .. n /\ k - 1 \notin Bad
      BY <3>1, <3>2
    <3>4. walk[k] = BackIn(search, walk[k - 1])
      BY <1>4, <3>2 DEF IsWalk
    <3> QED BY <1>1, <3>2, <3>3, <3>4
  <2> QED BY <2>1
<1> QED BY <1>3, <1>4 DEF V

\* Arcs that start inside a set of nodes.
StartIn(arcs, inside) == \A arc \in arcs : From[arc] \in inside

\* The arcs that the second half of a walk goes back over.
IsWalkAround(walk, search, rounds) == IsWalk(walk, search, 2 * rounds)
Around(walk, rounds) == {walk[k] : k \in rounds .. 2 * rounds}
ArcsBack(search, around) == {search.via[node] : node \in around}

\* The arcs around a walk that goes on for twice as many steps as there are
\* nodes to walk on are a cycle.
LEMMA WalkIsCycle ==
    ASSUME NEW arcs \in SUBSET ArcsOf(Edges), NEW search \in Searches(arcs),
           NEW inside, IsFiniteSet(inside), inside # {}, StartIn(arcs, inside),
           NEW rounds, rounds = Cardinality(inside),
           NEW walk, IsWalkAround(walk, search, rounds), None \notin Around(walk, rounds)
    PROVE  /\ ArcsBack(search, Around(walk, rounds)) \in SUBSET arcs
           /\ IsCycle(ArcsBack(search, Around(walk, rounds)))
<1> DEFINE around == {walk[k] : k \in rounds .. 2 * rounds}
<1>0. IsWalk(walk, search, 2 * rounds) /\ None \notin around
  BY DEF IsWalkAround, Around
<1>1. rounds \in Nat /\ rounds >= 1
  BY FS_CardinalityType, FS_EmptySet
<1>2. \A k \in 0 .. 2 * rounds : walk[k] \in Nodes \cup {None}
  BY <1>0, <1>1, WalkExists
<1>3. \A k \in 0 .. 2 * rounds : k + 1 <= 2 * rounds => walk[k + 1] = BackIn(search, walk[k])
  <2> TAKE k \in 0 .. 2 * rounds
  <2> HAVE k + 1 <= 2 * rounds
  <2>1. k + 1 \in 0 .. 2 * rounds /\ k + 1 # 0 /\ k + 1 - 1 = k
    BY <1>1
  <2> QED BY <1>0, <2>1 DEF IsWalk
<1>4. \A k \in 0 .. 2 * rounds : walk[k] # None
  <2> DEFINE Bad == {d \in 0 .. 2 * rounds : walk[2 * rounds - d] = None}
  <2>1. ASSUME Bad # {} PROVE FALSE
    <3>1. PICK d \in Bad : \A l \in Bad : d <= l
      <4>1. Bad \in SUBSET Nat
        OBVIOUS
      <4> HIDE DEF Bad
      <4> QED BY <2>1, <4>1, LeastOf
    <3>2. d \in 0 .. 2 * rounds /\ walk[2 * rounds - d] = None
      BY <3>1
    <3>3. d # 0
      <4>1. 2 * rounds \in rounds .. 2 * rounds /\ 2 * rounds - 0 = 2 * rounds
        BY <1>1
      <4>2. walk[2 * rounds] # None
        BY <1>0, <4>1
      <4> QED BY <3>2, <4>1, <4>2
    <3> DEFINE k == 2 * rounds - d
    <3>4. k \in 0 .. 2 * rounds /\ k + 1 <= 2 * rounds /\ k + 1 = 2 * rounds - (d - 1)
      BY <1>1, <3>2, <3>3
    <3>5. walk[k + 1] = None
      BY <1>3, <3>2, <3>4 DEF BackIn
    <3>6. d - 1 \in Bad
      <4>1. d - 1 \in 0 .. 2 * rounds
        BY <1>1, <3>2, <3>3
      <4>2. walk[2 * rounds - (d - 1)] = None
        BY <3>4, <3>5
      <4> QED BY <4>1, <4>2
    <3> QED BY <3>1, <3>2, <3>6
  <2>2. ASSUME NEW k \in 0 .. 2 * rounds, walk[k] = None PROVE FALSE
    <3>1. 2 * rounds - k \in 0 .. 2 * rounds /\ 2 * rounds - (2 * rounds - k) = k
      BY <1>1
    <3>2. 2 * rounds - k \in Bad
      BY <2>2, <3>1
    <3> QED BY <2>1, <3>2
  <2> QED BY <2>2
<1>5. ASSUME NEW k \in 0 .. 2 * rounds, k + 1 <= 2 * rounds
      PROVE  /\ walk[k] \in Nodes /\ search.via[walk[k]] \in arcs
             /\ To[search.via[walk[k]]] = walk[k]
             /\ walk[k + 1] = From[search.via[walk[k]]]
  <2>1. walk[k] \in Nodes /\ walk[k] # None
    BY <1>2, <1>4
  <2>2. k + 1 \in 0 .. 2 * rounds
    BY <1>1, <1>5
  <2>3. walk[k + 1] = BackIn(search, walk[k]) /\ walk[k + 1] # None
    BY <1>3, <1>4, <1>5, <2>2
  <2>4. search.via[walk[k]] # None /\ walk[k + 1] = From[search.via[walk[k]]]
    BY <2>1, <2>3 DEF BackIn
  <2> QED BY <2>1, <2>4 DEF Searches
<1>6. \A k \in 1 .. rounds + 1 : walk[k] \in inside
  <2> TAKE k \in 1 .. rounds + 1
  <2>1. k - 1 \in 0 .. 2 * rounds /\ k - 1 + 1 <= 2 * rounds /\ k - 1 + 1 = k
    BY <1>1
  <2> QED BY <1>5, <2>1 DEF StartIn
<1>7. PICK i, j \in 1 .. rounds + 1 : i < j /\ walk[i] = walk[j]
  <2> DEFINE places == 1 .. rounds + 1
             visit == [k \in places |-> walk[k]]
  <2>1. IsFiniteSet(places) /\ Cardinality(places) = rounds + 1
    <3>1. 1 \in Int /\ rounds + 1 \in Int /\ rounds + 1 - 1 + 1 = rounds + 1 /\ ~(1 > rounds + 1)
      BY <1>1
    <3>2. /\ IsFiniteSet(1 .. rounds + 1)
          /\ Cardinality(1 .. rounds + 1) = IF 1 > rounds + 1 THEN 0 ELSE rounds + 1 - 1 + 1
      BY <3>1, FS_Interval
    <3> QED BY <3>1, <3>2
  <2>2. visit \in [places -> inside]
    BY <1>6
  <2>3. Cardinality(inside) < Cardinality(places)
    BY <1>1, <2>1
  <2> HIDE DEF places
  <2>4. \E x, y \in places : x # y /\ visit[x] = visit[y]
    <3> HIDE DEF visit
    <3> QED BY <2>1, <2>2, <2>3, FS_PigeonHole
  <2>5. PICK x, y \in places : x # y /\ walk[x] = walk[y]
    BY <2>4
  <2>6. x \in 1 .. rounds + 1 /\ y \in 1 .. rounds + 1 /\ x \in Int /\ y \in Int
    BY <1>1 DEF places
  <2>7. x < y \/ y < x
    BY <2>5, <2>6
  <2> QED BY <2>5, <2>6, <2>7
<1> DEFINE p == j - i
<1>8. i \in 1 .. rounds /\ p \in 1 .. rounds /\ i + p = j
  BY <1>1, <1>7
<1> HIDE DEF p
<1>9. \A k \in i .. 2 * rounds - p : walk[k] = walk[k + p]
  <2> DEFINE Bad == {k \in i .. 2 * rounds - p : walk[k] # walk[k + p]}
  <2>1. ASSUME Bad # {} PROVE FALSE
    <3>1. PICK k \in Bad : \A l \in Bad : k <= l
      <4>1. Bad \in SUBSET Nat
        BY <1>1, <1>8
      <4> HIDE DEF Bad
      <4> QED BY <2>1, <4>1, LeastOf
    <3>2. k \in i .. 2 * rounds - p /\ walk[k] # walk[k + p]
      BY <3>1
    <3>3. k # i
      BY <1>7, <1>8, <3>2
    <3>4. k - 1 \in i .. 2 * rounds - p /\ k - 1 \notin Bad
      BY <1>1, <1>8, <3>1, <3>2, <3>3
    <3>5. walk[k - 1] = walk[k - 1 + p]
      BY <3>4
    <3>6. /\ k - 1 \in 0 .. 2 * rounds /\ k - 1 + 1 <= 2 * rounds /\ k - 1 + 1 = k
          /\ k - 1 + p \in 0 .. 2 * rounds /\ k - 1 + p + 1 <= 2 * rounds
          /\ k - 1 + p + 1 = k + p
      BY <1>1, <1>8, <3>2, <3>4
    <3>7. walk[k] = BackIn(search, walk[k - 1]) /\ walk[k + p] = BackIn(search, walk[k - 1 + p])
      BY <1>3, <3>6
    <3> QED BY <3>2, <3>5, <3>7
  <2> QED BY <2>1
<1>10. walk[rounds] = walk[rounds + p] /\ walk[2 * rounds - p] = walk[2 * rounds]
  <2>1. /\ rounds \in i .. 2 * rounds - p /\ 2 * rounds - p \in i .. 2 * rounds - p
        /\ 2 * rounds - p + p = 2 * rounds
    BY <1>1, <1>8
  <2> QED BY <1>9, <2>1
<1>11. ASSUME NEW node \in around
       PROVE  \E k \in rounds .. 2 * rounds : k + 1 <= 2 * rounds /\ walk[k] = node
  <2>1. PICK k \in rounds .. 2 * rounds : walk[k] = node
    OBVIOUS
  <2>2. CASE k = 2 * rounds
    <3>1. 2 * rounds - p \in rounds .. 2 * rounds /\ 2 * rounds - p + 1 <= 2 * rounds
      BY <1>1, <1>8
    <3> QED BY <1>10, <2>1, <2>2, <3>1
  <2>3. CASE k # 2 * rounds
    <3>1. k + 1 <= 2 * rounds
      BY <1>1, <2>3
    <3> QED BY <2>1, <3>1
  <2> QED BY <2>2, <2>3
<1>12. ASSUME NEW node \in around
       PROVE  /\ node \in Nodes /\ search.via[node] \in arcs
              /\ To[search.via[node]] = node /\ From[search.via[node]] \in around
  <2>1. PICK k \in rounds .. 2 * rounds : k + 1 <= 2 * rounds /\ walk[k] = node
    BY <1>11
  <2>2. k \in 0 .. 2 * rounds /\ k + 1 \in rounds .. 2 * rounds
    BY <1>1, <2>1
  <2> QED BY <1>5, <2>1, <2>2
<1>13. ASSUME NEW node \in around
       PROVE  \E other \in around : From[search.via[other]] = node
  <2>1. \E k \in rounds .. 2 * rounds : k - 1 \in rounds .. 2 * rounds /\ walk[k] = node
    <3>1. PICK k \in rounds .. 2 * rounds : walk[k] = node
      OBVIOUS
    <3>2. CASE k = rounds
      <4>1. rounds + p \in rounds .. 2 * rounds /\ rounds + p - 1 \in rounds .. 2 * rounds
        BY <1>1, <1>8
      <4>2. walk[rounds + p] = node
        BY <1>10, <3>1, <3>2
      <4> DEFINE q == rounds + p
      <4>3. q \in rounds .. 2 * rounds /\ q - 1 \in rounds .. 2 * rounds /\ walk[q] = node
        BY <1>1, <1>8, <4>1, <4>2
      <4> HIDE DEF q
      <4> QED BY <4>3
    <3>3. CASE k # rounds
      <4>1. k - 1 \in rounds .. 2 * rounds
        BY <1>1, <3>3
      <4> QED BY <3>1, <4>1
    <3> QED BY <3>2, <3>3
  <2>2. PICK k \in rounds .. 2 * rounds : k - 1 \in rounds .. 2 * rounds /\ walk[k] = node
    BY <2>1
  <2>3. walk[k - 1] \in around
    BY <2>2
  <2>4. k - 1 \in 0 .. 2 * rounds /\ k - 1 + 1 <= 2 * rounds /\ k - 1 + 1 = k
    BY <1>1, <2>2
  <2>5. walk[k] = From[search.via[walk[k - 1]]]
    BY <1>5, <2>4
  <2> QED BY <2>2, <2>3, <2>5
<1>14. IsFiniteSet(around)
  <2>1. around \in SUBSET Nodes
    BY <1>12
  <2>2. IsFiniteSet(Nodes)
    BY GridSizes, FS_Interval DEF Nodes
  <2> HIDE DEF p
  <2> QED BY <2>1, <2>2, FS_Subset
<1>15. {search.via[node] : node \in around} \in SUBSET arcs
  BY <1>12
<1> DEFINE via == search.via
<1>16. IsReached(around, via)
  BY <1>12, <1>13 DEF IsReached
<1> HIDE DEF via
<1>17. IsCycle({via[node] : node \in around})
  BY <1>14, <1>16, ReachedByCycle
<1> QED BY <1>15, <1>17 DEF via, ArcsBack, Around


\* The arcs that CycleBehind finds.
LEMMA CycleBehindIs ==
    ASSUME NEW search, NEW rounds, \E walk : IsWalk(walk, search, 2 * rounds)
    PROVE  \E walk : /\ IsWalkAround(walk, search, rounds)
                     /\ CycleBehind(search, rounds)
                          = IF None \in Around(walk, rounds) THEN {}
                            ELSE ArcsBack(search, Around(walk, rounds))
<1> DEFINE W == CHOOSE walk : IsWalk(walk, search, 2 * rounds)
<1>1. IsWalkAround(W, search, rounds)
  BY DEF IsWalkAround
<1>2. CycleBehind(search, rounds)
        = IF None \in Around(W, rounds) THEN {} ELSE ArcsBack(search, Around(W, rounds))
  BY DEF CycleBehind, IsWalk, BackIn, Around, ArcsBack
<1> HIDE DEF W
<1> QED BY <1>1, <1>2

\* The search ends with a cycle of the arcs it was given, or with none.
LEMMA FoundCycleIsCycle ==
    ASSUME NEW costs, AreCosts(costs), NEW flows, AreFlows(flows, DOMAIN costs),
           NEW step \in Nat \ {0}, NEW arcs \in SUBSET ArcsOf(DOMAIN costs),
           NEW order \in Seq(arcs),
           NEW inside, IsFiniteSet(inside), inside # {}, StartIn(arcs, inside),
           NEW rounds, rounds = Cardinality(inside)
    PROVE  /\ FoundCycle(costs, flows, step, order, rounds) \in SUBSET arcs
           /\ IsCycle(FoundCycle(costs, flows, step, order, rounds))
<1> DEFINE search == Search(costs, flows, step, order, rounds)
           cycle == CycleBehind(search, rounds)
<1>1. rounds \in Nat /\ 2 * rounds \in Nat
  BY FS_CardinalityType
<1>2. arcs \in SUBSET ArcsOf(Edges)
  BY ArcFacts DEF AreCosts
<1>3. search \in Searches(arcs)
  BY <1>1, SearchStays
<1> HIDE DEF search
<1>4. \E walk : IsWalk(walk, search, 2 * rounds)
  BY <1>1, <1>2, <1>3, WalkExists
<1>5. PICK walk : /\ IsWalkAround(walk, search, rounds)
                  /\ cycle = IF None \in Around(walk, rounds) THEN {}
                             ELSE ArcsBack(search, Around(walk, rounds))
  BY <1>4, CycleBehindIs
<1> HIDE DEF cycle
<1>6. IsCycle({})
  BY DEF IsCycle
<1>7. cycle \in SUBSET arcs /\ IsCycle(cycle)
  <2>1. CASE None \in Around(walk, rounds)
    BY <1>5, <1>6, <2>1
  <2>2. CASE None \notin Around(walk, rounds)
    <3>1. /\ ArcsBack(search, Around(walk, rounds)) \in SUBSET arcs
          /\ IsCycle(ArcsBack(search, Around(walk, rounds)))
      BY <1>2, <1>3, <1>5, <2>2, WalkIsCycle
    <3> QED BY <1>5, <2>2, <3>1
  <2> QED BY <2>1, <2>2
<1>8. FoundCycle(costs, flows, step, order, rounds) \in {cycle, {}}
  BY DEF FoundCycle, cycle, search
<1> QED BY <1>6, <1>7, <1>8

\* Tuples with different ends from a finite set are finitely many.
LEMMA KeyedAreFinite ==
    ASSUME NEW n, NEW S, IsFiniteSet(S), NEW tuples, \A x \in tuples : x[n] \in S,
           \A x \in tuples : \A y \in tuples : x[n] = y[n] => x = y
    PROVE  IsFiniteSet(tuples)
<1> DEFINE last == [x \in tuples |-> x[n]]
<1>1. last \in Injection(tuples, S)
  BY DEF Injection, IsInjective
<1> QED BY <1>1, FS_Injection

\* The arcs of a search are sequences of the arcs of the graph.
LEMMA AllArcsAreArcs ==
    ASSUME NEW costs, AreCosts(costs)
    PROVE  AllArcs(costs) \in Seq(ArcsOf(DOMAIN costs))
<1> DEFINE arcs == ArcsOf(DOMAIN costs)
           tuples == {<<arc>> : arc \in arcs}
           count == 2 * Cardinality(DOMAIN costs)
<1>1. arcs \in SUBSET ArcsOf(Edges) /\ arcs \in SUBSET Nat /\ DOMAIN costs \in SUBSET Edges
  BY ArcFacts DEF AreCosts
<1>2. IsFiniteSet(arcs) /\ IsFiniteSet(DOMAIN costs)
  BY <1>1, EdgesAreFinite, FS_Subset
<1>3. count \in Nat
  BY <1>2, FS_CardinalityType
<1> HIDE DEF arcs, count
<1>4. tuples \in SUBSET [1 .. 1 -> Int] /\ \A x \in tuples : x[1] \in arcs
  BY <1>1
<1>5. \A x \in tuples : \A y \in tuples : x[1] = y[1] => x = y
  OBVIOUS
<1>6. {x[1] : x \in tuples} \in SUBSET arcs
  BY <1>4
<1>7. AllArcs(costs) = SortedBy(tuples, count)
  BY DEF AllArcs, arcs, count
<1> HIDE DEF tuples
<1>8. IsFiniteSet(tuples)
  BY <1>2, <1>4, <1>5, KeyedAreFinite
<1>9. 1 \in Nat \ {0}
  OBVIOUS
<1>10. SortedBy(tuples, count) \in Seq({x[1] : x \in tuples})
  BY <1>3, <1>4, <1>8, <1>9, SortedByTakes
<1>11. SortedBy(tuples, count) \in Seq(arcs)
  BY <1>6, <1>10
<1> QED BY <1>7, <1>11 DEF arcs

\* The arcs of a window are a sequence of arcs between its nodes.
LEMMA WindowArcsAreArcs ==
    ASSUME NEW costs, AreCosts(costs), NEW window
    PROVE  WindowArcs(costs, window)
             \in Seq({arc \in ArcsOf(DOMAIN costs) :
                         {From[arc], To[arc]} \subseteq NodesIn(window) \cup {Ground}})
<1> DEFINE arcs == {arc \in ArcsOf(DOMAIN costs) :
                       {From[arc], To[arc]} \subseteq NodesIn(window) \cup {Ground}}
           Column(arc) == IF IsHorizontal(EdgeOf(arc)) THEN EdgeOf(arc) % PCol ELSE PCol
           tuples == {<<Column(arc), arc>> : arc \in arcs}
           count == Cardinality(arcs)
<1>1. arcs \in SUBSET ArcsOf(Edges) /\ arcs \in SUBSET Nat
  BY ArcFacts DEF AreCosts
<1>2. IsFiniteSet(arcs)
  BY <1>1, EdgesAreFinite, FS_Subset
<1>3. count \in Nat
  BY <1>2, FS_CardinalityType
<1>4. \A arc \in arcs : Column(arc) \in Int
  BY <1>1, ArcFacts, GridSizes DEF AreCosts
<1>5. WindowArcs(costs, window) = SortedBy(tuples, count)
  BY DEF WindowArcs
<1> HIDE DEF arcs, count, Column
<1>6. tuples \in SUBSET [1 .. 2 -> Int] /\ \A x \in tuples : x[2] \in arcs
  BY <1>1, <1>4
<1>7. \A x \in tuples : \A y \in tuples : x[2] = y[2] => x = y
  OBVIOUS
<1>8. {x[2] : x \in tuples} \in SUBSET arcs
  BY <1>6
<1> HIDE DEF tuples
<1>9. IsFiniteSet(tuples)
  BY <1>2, <1>6, <1>7, KeyedAreFinite
<1>10. 2 \in Nat \ {0}
  OBVIOUS
<1>11. SortedBy(tuples, count) \in Seq({x[2] : x \in tuples})
  BY <1>3, <1>6, <1>9, <1>10, SortedByTakes
<1>12. SortedBy(tuples, count) \in Seq(arcs)
  BY <1>8, <1>11
<1> QED BY <1>5, <1>12 DEF arcs

\* The arcs that close a negative cycle with a tree lie outside it, and there
\* are at most as many as asked for.
LEMMA NegativeArcsAreOutside ==
    ASSUME NEW costs, AreCosts(costs), NEW flows, AreFlows(flows, DOMAIN costs),
           NEW step \in Nat \ {0}, NEW tree \in SUBSET ArcsOf(DOMAIN costs), NEW limit \in Nat
    PROVE  /\ NegativeArcs(costs, flows, step, tree, limit)
                \in Seq(ArcsOf(DOMAIN costs \ EdgesOf(tree)))
           /\ Len(NegativeArcs(costs, flows, step, tree, limit)) <= limit
<1> DEFINE outside == ArcsOf(DOMAIN costs \ EdgesOf(tree))
           Cost(arc) == CycleCost(costs, flows, step, TreeCycle(tree, arc))
           tuples == {pair \in {<<Cost(arc), arc>> : arc \in outside} : pair[1] < 0}
<1>1. outside \in SUBSET ArcsOf(DOMAIN costs) /\ ArcsOf(DOMAIN costs) \in SUBSET ArcsOf(Edges)
  BY DEF AreCosts, ArcsOf
<1>2. IsFiniteSet(outside) /\ outside \in SUBSET Nat
  BY <1>1, EdgesAreFinite, FS_Subset, ArcFacts DEF AreCosts
<1>3. ASSUME NEW arc \in outside PROVE Cost(arc) \in Int
  <2>1. TreeCycle(tree, arc) \in SUBSET ArcsOf(DOMAIN costs)
    BY TreeCycleIsOneWay DEF AreCosts
  <2>2. IsFiniteSet(TreeCycle(tree, arc))
    BY <1>1, <2>1, EdgesAreFinite, FS_Subset
  <2>3. \A a \in TreeCycle(tree, arc) : ArcCost(costs, flows, step, a) \in Int
    BY <2>1, ArcRaisesPotential
  <2> QED BY <2>2, <2>3, CycleCostIsSum
<1>4. NegativeArcs(costs, flows, step, tree, limit) = SortedBy(tuples, limit)
  BY DEF NegativeArcs
<1> HIDE DEF outside, Cost
<1>5. tuples \in SUBSET [1 .. 2 -> Int] /\ \A x \in tuples : x[2] \in outside
  BY <1>2, <1>3
<1>6. \A x \in tuples : \A y \in tuples : x[2] = y[2] => x = y
  OBVIOUS
<1> HIDE DEF tuples
<1>7. IsFiniteSet(tuples)
  BY <1>2, <1>5, <1>6, KeyedAreFinite
<1>8. 2 \in Nat \ {0}
  OBVIOUS
<1>9. /\ SortedBy(tuples, limit) \in Seq({x[2] : x \in tuples})
      /\ Len(SortedBy(tuples, limit)) <= limit
  BY <1>5, <1>7, <1>8, SortedByTakes
<1>10. {x[2] : x \in tuples} \in SUBSET outside
  BY <1>5
<1>11. SortedBy(tuples, limit) \in Seq(outside)
  BY <1>9, <1>10
<1> QED BY <1>4, <1>9, <1>11 DEF outside

-----------------------------------------------------------------------------
(* Forests.                                                                *)

\* A part of the nodes that no arc leaves or enters.
Closed(arcs, part) == \A arc \in arcs : From[arc] \in part <=> To[arc] \in part

\* Nodes that are not joined are kept apart by such a part.
LEMMA CutExists ==
    ASSUME NEW arcs, NEW x, NEW y, ~Joined(arcs, x, y)
    PROVE  \E part \in SUBSET Nodes : Closed(arcs, part) /\ x \in part /\ y \notin part
BY DEF Joined, Closed

\* Joined nodes are on the same side of it.
LEMMA SameSide ==
    ASSUME NEW arcs \in SUBSET ArcsOf(Edges), NEW x \in Nodes, NEW y \in Nodes,
           Joined(arcs, x, y), NEW part \in SUBSET Nodes, Closed(arcs, part)
    PROVE  x \in part <=> y \in part
<1>1. Joined(arcs, y, x)
  BY JoinedFacts
<1> QED BY <1>1 DEF Joined, Closed

\* What some arcs join, more arcs do.
LEMMA MoreArcsJoin ==
    ASSUME NEW arcs, NEW more, arcs \subseteq more, NEW x, NEW y, Joined(arcs, x, y)
    PROVE  Joined(more, x, y)
BY DEF Joined

\* An arc joins its ends.
LEMMA ArcJoins ==
    ASSUME NEW arcs, NEW arc \in arcs
    PROVE  Joined(arcs, From[arc], To[arc])
BY DEF Joined

\* The ends of an arc of a forest are apart without it.
IsForest(tree) == \A arc \in tree : ~Joined(tree \ {arc}, From[arc], To[arc])

\* The way around: of the smallest set of arcs that joins the ends of an arc
\* outside it, each arc could be left out for that arc.
LEMMA Exchange ==
    ASSUME NEW arcs \in SUBSET ArcsOf(Edges), NEW outer \in ArcsOf(Edges),
           Joined(arcs, From[outer], To[outer]), NEW arc \in arcs,
           ~Joined(arcs \ {arc}, From[outer], To[outer])
    PROVE  Joined((arcs \ {arc}) \cup {outer}, From[arc], To[arc])
<1> DEFINE rest == arcs \ {arc}
<1>1. SUFFICES ASSUME ~Joined(rest \cup {outer}, From[arc], To[arc]) PROVE FALSE
  OBVIOUS
<1>2. PICK P \in SUBSET Nodes : Closed(rest, P) /\ From[outer] \in P /\ To[outer] \notin P
  BY CutExists
<1>3. PICK Q \in SUBSET Nodes :
          Closed(rest \cup {outer}, Q) /\ From[arc] \in Q /\ To[arc] \notin Q
  BY <1>1, CutExists
<1>4. arc \in ArcsOf(Edges) /\ From[outer] \in Nodes /\ To[outer] \in Nodes
  BY ArcEnds
<1>5. ~Closed(arcs, P)
  BY <1>2, <1>4, SameSide
<1>6. ~(From[arc] \in P <=> To[arc] \in P)
  BY <1>2, <1>5 DEF Closed
<1> DEFINE R == (P \ Q) \cup (Q \ P)
<1>7. From[outer] \in Q <=> To[outer] \in Q
  BY <1>3 DEF Closed
<1>8. \A a \in rest : (From[a] \in P <=> To[a] \in P) /\ (From[a] \in Q <=> To[a] \in Q)
  BY <1>2, <1>3 DEF Closed
<1>9. From[arc] \in R <=> To[arc] \in R
  BY <1>3, <1>6
<1>10. Closed(arcs, R)
  BY <1>8, <1>9 DEF Closed
<1>11. From[outer] \in R <=> To[outer] \in R
  BY <1>4, <1>10, SameSide
<1> QED BY <1>2, <1>7, <1>11

\* Keys of one length that tell arcs apart.
AreKeys(key, arcs, n) ==
    /\ \A arc \in arcs : key[arc] \in [1 .. n -> Int]
    /\ \A a, b \in arcs : key[a] = key[b] => a = b

\* Finitely many arcs have a last one.
LEMMA LastArc ==
    ASSUME NEW arcs, IsFiniteSet(arcs), arcs # {}, NEW n \in Nat, NEW key, AreKeys(key, arcs, n)
    PROVE  \E last \in arcs : \A arc \in arcs : arc # last => Precedes(key[arc], key[last])
<1> DEFINE After(x) == {y \in arcs : Precedes(key[x], key[y])}
           Sets == {After(x) : x \in arcs}
<1>1. PICK T \in Sets : \A U \in Sets : U \subseteq T => U = T
  <2>1. Sets \in SUBSET SUBSET arcs /\ Sets # {}
    OBVIOUS
  <2> HIDE DEF Sets
  <2> QED BY <2>1, SmallestOf
<1>2. PICK last \in arcs : T = After(last)
  BY <1>1
<1>3. ASSUME NEW y \in After(last) PROVE FALSE
  <2>1. y \in arcs /\ Precedes(key[last], key[y])
    BY <1>3
  <2>2. key[last] \in [1 .. n -> Int] /\ key[y] \in [1 .. n -> Int]
    BY <2>1 DEF AreKeys
  <2>3. \A z \in arcs : Precedes(key[y], key[z]) => Precedes(key[last], key[z])
    <3> TAKE z \in arcs
    <3>1. key[z] \in [1 .. n -> Int]
      BY DEF AreKeys
    <3> QED BY <2>1, <2>2, <3>1, PrecedesIsTotal
  <2>4. After(y) \subseteq After(last) /\ After(y) \in Sets
    BY <2>1, <2>3
  <2>5. After(y) = After(last)
    BY <1>1, <1>2, <2>4
  <2>6. Precedes(key[y], key[y])
    BY <1>3, <2>5
  <2> QED BY <2>2, <2>6, PrecedesIsTotal
<1>4. ASSUME NEW arc \in arcs, arc # last PROVE Precedes(key[arc], key[last])
  <2>1. key[last] \in [1 .. n -> Int] /\ key[arc] \in [1 .. n -> Int] /\ key[arc] # key[last]
    BY <1>4 DEF AreKeys
  <2>2. ~Precedes(key[last], key[arc])
    BY <1>3
  <2> QED BY <2>1, <2>2, PrecedesIsTotal
<1> QED BY <1>4

\* A tree that takes the arcs that join what the arcs before them have not is
\* a forest: the last arc around a cycle would not have been taken.
LEMMA GreedyIsForest ==
    ASSUME NEW arcs \in SUBSET ArcsOf(Edges), NEW n \in Nat, NEW key, AreKeys(key, arcs, n)
    PROVE  GreedyTree(arcs, key) \in SUBSET arcs /\ IsForest(GreedyTree(arcs, key))
<1> DEFINE tree == GreedyTree(arcs, key)
           Before(arc) == {other \in arcs : Precedes(key[other], key[arc])}
<1>1. \A arc \in tree : arc \in arcs /\ ~Joined(Before(arc), From[arc], To[arc])
  BY DEF GreedyTree
<1> HIDE DEF tree
<1>2. ASSUME NEW outer \in tree, Joined(tree \ {outer}, From[outer], To[outer]) PROVE FALSE
  <2> DEFINE Sets == {M \in SUBSET (tree \ {outer}) : Joined(M, From[outer], To[outer])}
  <2>1. PICK M \in Sets : \A U \in Sets : U \subseteq M => U = M
    <3>1. IsFiniteSet(tree \ {outer})
      BY <1>1, EdgesAreFinite, FS_Subset
    <3>2. Sets \in SUBSET SUBSET (tree \ {outer}) /\ Sets # {}
      BY <1>2
    <3> HIDE DEF Sets
    <3> QED BY <3>1, <3>2, SmallestOf
  <2>2. M \in SUBSET (tree \ {outer}) /\ Joined(M, From[outer], To[outer])
    BY <2>1
  <2>3. \A arc \in M : ~Joined(M \ {arc}, From[outer], To[outer])
    <3> TAKE arc \in M
    <3>1. M \ {arc} \in SUBSET (tree \ {outer}) /\ M \ {arc} \subseteq M /\ M \ {arc} # M
      BY <2>2
    <3> QED BY <2>1, <3>1
  <2> HIDE DEF Sets
  <2>4. M \cup {outer} \in SUBSET arcs /\ M \cup {outer} # {}
    BY <1>1, <2>2
  <2>5. IsFiniteSet(M \cup {outer}) /\ AreKeys(key, M \cup {outer}, n)
    <3>1. IsFiniteSet(M \cup {outer})
      BY <2>4, EdgesAreFinite, FS_Subset
    <3> QED BY <2>4, <3>1 DEF AreKeys
  <2>6. PICK last \in M \cup {outer} :
            \A arc \in M \cup {outer} : arc # last => Precedes(key[arc], key[last])
    BY <2>4, <2>5, LastArc
  <2>7. ASSUME NEW some, some \subseteq M \cup {outer}, last \notin some
        PROVE  ~Joined(some, From[last], To[last])
    <3>1. some \subseteq Before(last)
      BY <2>4, <2>6, <2>7
    <3>2. last \in tree
      BY <2>2
    <3> QED BY <1>1, <3>1, <3>2, MoreArcsJoin
  <2>8. CASE last = outer
    BY <2>2, <2>7, <2>8
  <2>9. CASE last \in M
    <3>1. M \in SUBSET ArcsOf(Edges) /\ outer \in ArcsOf(Edges) /\ outer # last
      BY <2>2, <2>4, <2>9
    <3>2. Joined((M \ {last}) \cup {outer}, From[last], To[last])
      BY <2>2, <2>3, <2>9, <3>1, Exchange
    <3> QED BY <2>7, <3>1, <3>2
  <2> QED BY <2>8, <2>9
<1> QED BY <1>1, <1>2 DEF IsForest, tree

\* A node that is joined to an arc stays joined to one of its ends when the
\* arc is taken away.
LEMMA OneEndStays ==
    ASSUME NEW arcs \in SUBSET ArcsOf(Edges), NEW arc \in arcs, NEW node \in Nodes,
           Joined(arcs, node, From[arc])
    PROVE  Joined(arcs \ {arc}, node, From[arc]) \/ Joined(arcs \ {arc}, node, To[arc])
<1> DEFINE rest == arcs \ {arc}
<1>1. SUFFICES ASSUME ~Joined(rest, node, From[arc]), ~Joined(rest, node, To[arc]) PROVE FALSE
  OBVIOUS
<1>2. PICK P \in SUBSET Nodes : Closed(rest, P) /\ node \in P /\ From[arc] \notin P
  BY <1>1, CutExists
<1>3. PICK Q \in SUBSET Nodes : Closed(rest, Q) /\ node \in Q /\ To[arc] \notin Q
  BY <1>1, CutExists
<1>4. Joined(arcs, node, To[arc])
  BY ArcEnds, ArcJoins, JoinedFacts
<1>5. From[arc] \in Nodes /\ To[arc] \in Nodes
  BY ArcEnds
<1>6. Closed(arcs, P \cap Q)
  <2>1. From[arc] \notin P \cap Q /\ To[arc] \notin P \cap Q
    BY <1>2, <1>3
  <2> QED BY <1>2, <1>3, <2>1 DEF Closed
<1>7. P \cap Q \in SUBSET Nodes
  OBVIOUS
<1>8. node \in P \cap Q <=> From[arc] \in P \cap Q
  BY <1>5, <1>6, <1>7, SameSide
<1> QED BY <1>2, <1>3, <1>8

\* A forest with one arc less than there are nodes joins them all: rooted
\* anywhere, each arc leads to a node of its own that is no root.
LEMMA ForestSpans ==
    ASSUME NEW tree \in SUBSET ArcsOf(Edges), IsForest(tree),
           Cardinality(tree) + 1 = Cardinality(Nodes)
    PROVE  IsSpanningTree(tree)
<1>1. SUFFICES ASSUME NEW x \in Nodes, ~Joined(tree, Ground, x) PROVE FALSE
  BY DEF IsSpanningTree
<1>2. Ground \in Nodes /\ IsFiniteSet(Nodes)
  BY GridSizes, FS_Interval DEF Nodes
<1> DEFINE Comp(v) == {u \in Nodes : Joined(tree, u, v)}
           root == [v \in Nodes |-> CHOOSE u : u \in Comp(v)]
<1>3. ASSUME NEW v \in Nodes PROVE root[v] \in Nodes /\ Joined(tree, root[v], v)
  <2>1. v \in Comp(v)
    BY JoinedFacts
  <2>2. root[v] \in Comp(v)
    BY <2>1
  <2> QED BY <2>2
<1>4. ASSUME NEW v \in Nodes, NEW w \in Nodes, Joined(tree, v, w) PROVE root[v] = root[w]
  <2>1. Comp(v) = Comp(w)
    BY <1>4, JoinedFacts
  <2> HIDE DEF Comp
  <2> QED BY <2>1
<1> HIDE DEF root, Comp
<1> DEFINE child == [arc \in tree |->
             IF Joined(tree \ {arc}, root[From[arc]], From[arc]) THEN To[arc] ELSE From[arc]]
<1>5. ASSUME NEW arc \in tree
      PROVE  \E far, near \in Nodes :
                 /\ child[arc] = far
                 /\ \/ far = To[arc] /\ near = From[arc]
                    \/ far = From[arc] /\ near = To[arc]
                 /\ Joined(tree, root[far], far)
                 /\ Joined(tree \ {arc}, root[far], near)
                 /\ ~Joined(tree \ {arc}, root[far], far)
  <2>1. From[arc] \in Nodes /\ To[arc] \in Nodes
    BY ArcEnds
  <2>2. Joined(tree, From[arc], To[arc]) /\ root[From[arc]] = root[To[arc]]
    BY <1>4, <2>1, ArcJoins
  <2> DEFINE r == root[From[arc]]
  <2>3. r \in Nodes /\ Joined(tree, r, From[arc]) /\ Joined(tree, r, To[arc])
    BY <1>3, <2>1, <2>2
  <2>4. ~Joined(tree \ {arc}, From[arc], To[arc])
    BY DEF IsForest
  <2>5. ~(Joined(tree \ {arc}, r, From[arc]) /\ Joined(tree \ {arc}, r, To[arc]))
    <3>1. tree \ {arc} \in SUBSET ArcsOf(Edges)
      OBVIOUS
    <3> QED BY <2>1, <2>3, <2>4, <3>1, JoinedFacts
  <2>6. Joined(tree \ {arc}, r, From[arc]) \/ Joined(tree \ {arc}, r, To[arc])
    BY <2>3, OneEndStays
  <2>7. CASE Joined(tree \ {arc}, r, From[arc])
    BY <2>1, <2>2, <2>3, <2>5, <2>7
  <2>8. CASE ~Joined(tree \ {arc}, r, From[arc])
    BY <2>1, <2>2, <2>3, <2>6, <2>8
  <2> QED BY <2>7, <2>8
<1>6. \A arc \in tree : child[arc] \in Nodes
  BY <1>5
<1> HIDE DEF child
<1>7. ASSUME NEW a \in tree, NEW b \in tree, child[a] = child[b], a # b PROVE FALSE
  <2>1. PICK far, nearA \in Nodes :
            /\ child[a] = far
            /\ \/ far = To[a] /\ nearA = From[a]
               \/ far = From[a] /\ nearA = To[a]
            /\ Joined(tree, root[far], far)
            /\ Joined(tree \ {a}, root[far], nearA)
            /\ ~Joined(tree \ {a}, root[far], far)
    BY <1>5
  <2>2. PICK nearB \in Nodes :
            /\ \/ far = To[b] /\ nearB = From[b]
               \/ far = From[b] /\ nearB = To[b]
            /\ Joined(tree \ {b}, root[far], nearB)
            /\ ~Joined(tree \ {b}, root[far], far)
    BY <1>5, <1>7, <2>1
  <2> DEFINE r == root[far]
  <2>3. r \in Nodes
    BY <1>3
  <2>4. PICK P \in SUBSET Nodes : Closed(tree \ {a}, P) /\ r \in P /\ far \notin P
    BY <2>1, CutExists
  <2>5. PICK Q \in SUBSET Nodes : Closed(tree \ {b}, Q) /\ r \in Q /\ far \notin Q
    BY <2>2, CutExists
  <2>6. nearB \notin P
    BY <1>7, <2>2, <2>4 DEF Closed
  <2>7. nearA \notin Q
    BY <1>7, <2>1, <2>5 DEF Closed
  <2>8. From[a] \notin P \cap Q /\ To[a] \notin P \cap Q
    BY <2>1, <2>4, <2>7
  <2>9. From[b] \notin P \cap Q /\ To[b] \notin P \cap Q
    BY <2>2, <2>5, <2>6
  <2>10. Closed(tree, P \cap Q)
    BY <2>4, <2>5, <2>8, <2>9 DEF Closed
  <2>11. P \cap Q \in SUBSET Nodes
    OBVIOUS
  <2>12. r \in P \cap Q <=> far \in P \cap Q
    BY <2>1, <2>3, <2>10, <2>11, SameSide
  <2> QED BY <2>4, <2>5, <2>12
<1> DEFINE g == root[Ground]
           h == root[x]
<1>8. g \in Nodes /\ h \in Nodes /\ root[g] = g /\ root[h] = h
  BY <1>2, <1>3, <1>4
<1>9. g # h
  <2>1. ASSUME g = h PROVE Joined(tree, Ground, x)
    <3>1. Joined(tree, Ground, g) /\ Joined(tree, g, x)
      BY <1>2, <1>3, <2>1, JoinedFacts
    <3> QED BY <1>2, <1>8, <3>1, JoinedFacts
  <2> QED BY <1>1, <2>1
<1>10. ASSUME NEW arc \in tree PROVE child[arc] # g /\ child[arc] # h
  <2>1. PICK far \in Nodes : child[arc] = far /\ ~Joined(tree \ {arc}, root[far], far)
    BY <1>5
  <2>2. far # root[far]
    <3>1. tree \ {arc} \in SUBSET ArcsOf(Edges)
      OBVIOUS
    <3> QED BY <2>1, <3>1, JoinedFacts
  <2> QED BY <1>8, <2>1, <2>2
<1> HIDE DEF g, h
<1> DEFINE T == (Nodes \ {g}) \ {h}
<1>11. child \in Injection(tree, T)
  <2>1. child = [arc \in tree |-> child[arc]]
    BY DEF child
  <2>2. child \in [tree -> T]
    BY <1>6, <1>10, <2>1
  <2> QED BY <1>7, <2>2 DEF Injection, IsInjective
<1>12. IsFiniteSet(T) /\ Cardinality(T) = Cardinality(Nodes) - 2 /\ Cardinality(Nodes) \in Nat
  <2>1. IsFiniteSet(Nodes \ {g}) /\ Cardinality(Nodes \ {g}) = Cardinality(Nodes) - 1
    BY <1>2, <1>8, FS_RemoveElement
  <2>2. h \in Nodes \ {g}
    BY <1>8, <1>9
  <2>3. IsFiniteSet(T) /\ Cardinality(T) = Cardinality(Nodes \ {g}) - 1
    BY <2>1, <2>2, FS_RemoveElement
  <2> QED BY <1>2, <2>1, <2>3, FS_CardinalityType
<1> HIDE DEF T
<1>13. IsFiniteSet(tree) /\ Cardinality(tree) <= Cardinality(T)
  BY <1>11, <1>12, FS_Injection
<1> QED BY <1>12, <1>13, FS_CardinalityType

-----------------------------------------------------------------------------
(* Ways inside a forest.                                                   *)

\* Two arcs over one edge are opposite, and every arc has an opposite.
LEMMA TwoWays ==
    ASSUME NEW a \in ArcsOf(Edges)
    PROVE  /\ \A b \in ArcsOf(Edges) : EdgeOf(a) = EdgeOf(b) /\ a # b
                  => From[b] = To[a] /\ To[b] = From[a]
           /\ \E b \in ArcsOf({EdgeOf(a)}) :
                  EdgeOf(b) = EdgeOf(a) /\ From[b] = To[a] /\ To[b] = From[a]
<1>1. /\ a \in Nat /\ EdgeOf(a) \in Edges /\ EdgeOf(a) \in Nat
      /\ IF IsReverse(a) THEN a = 2 * EdgeOf(a) + 1 ELSE a = 2 * EdgeOf(a)
  BY ArcFacts
<1>2. ASSUME NEW b \in ArcsOf(Edges), EdgeOf(a) = EdgeOf(b), a # b
      PROVE  From[b] = To[a] /\ To[b] = From[a]
  <2>1. IF IsReverse(b) THEN b = 2 * EdgeOf(b) + 1 ELSE b = 2 * EdgeOf(b)
    BY ArcFacts
  <2>2. IsReverse(a) \in BOOLEAN /\ IsReverse(b) \in BOOLEAN
    BY DEF IsReverse
  <2>3. IsReverse(a) <=> ~IsReverse(b)
    BY <1>1, <1>2, <2>1, <2>2
  <2> QED BY <1>2, <2>3 DEF From, To
<1>3. \E b \in ArcsOf({EdgeOf(a)}) : b \in ArcsOf(Edges) /\ EdgeOf(b) = EdgeOf(a) /\ b # a
  <2> DEFINE e == EdgeOf(a)
  <2>1. /\ 2 * e \in ArcsOf({e}) /\ 2 * e + 1 \in ArcsOf({e})
        /\ 2 * e \in ArcsOf(Edges) /\ 2 * e + 1 \in ArcsOf(Edges)
    BY <1>1 DEF ArcsOf
  <2>2. e \in Nat
    BY <1>1
  <2> HIDE DEF e
  <2>3. EdgeOf(2 * e) = e /\ EdgeOf(2 * e + 1) = e /\ 2 * e # 2 * e + 1
    BY <2>2 DEF EdgeOf
  <2> QED BY <2>1, <2>3 DEF e
<1> QED BY <1>2, <1>3

\* Without the edge of an arc a forest has lost one arc, and the ends of it
\* are apart.
LEMMA WithoutEdge ==
    ASSUME NEW tree \in SUBSET ArcsOf(Edges), IsForest(tree), NEW arc \in ArcsOf(EdgesOf(tree))
    PROVE  /\ arc \in ArcsOf(Edges)
           /\ \E own \in tree :
                 /\ EdgeOf(own) = EdgeOf(arc)
                 /\ \/ From[arc] = From[own] /\ To[arc] = To[own]
                    \/ From[arc] = To[own] /\ To[arc] = From[own]
                 /\ {other \in tree : EdgeOf(other) # EdgeOf(arc)} = tree \ {own}
                 /\ ~Joined(tree \ {own}, From[own], To[own])
<1>1. EdgesOf(tree) \in SUBSET Edges
  BY ArcFacts DEF EdgesOf
<1>2. arc \in ArcsOf(Edges) /\ EdgeOf(arc) \in EdgesOf(tree)
  BY <1>1, ArcFacts
<1>3. PICK own \in tree : EdgeOf(own) = EdgeOf(arc)
  BY <1>2 DEF EdgesOf
<1>4. \/ From[arc] = From[own] /\ To[arc] = To[own]
      \/ From[arc] = To[own] /\ To[arc] = From[own]
  BY <1>2, <1>3, TwoWays
<1>5. ~Joined(tree \ {own}, From[own], To[own])
  BY DEF IsForest
<1>6. ASSUME NEW other \in tree, other # own PROVE EdgeOf(other) # EdgeOf(own)
  <2>1. ASSUME EdgeOf(other) = EdgeOf(own) PROVE FALSE
    <3>1. From[other] = To[own] /\ To[other] = From[own]
      BY <1>6, <2>1, TwoWays
    <3>2. Joined(tree \ {own}, To[own], From[own])
      BY <1>6, <3>1, ArcJoins
    <3>3. own \in ArcsOf(Edges) /\ tree \ {own} \in SUBSET ArcsOf(Edges)
      OBVIOUS
    <3> QED BY <1>5, <3>2, <3>3, ArcEnds, JoinedFacts
  <2> QED BY <2>1
<1>7. {other \in tree : EdgeOf(other) # EdgeOf(arc)} = tree \ {own}
  BY <1>3, <1>6
<1> QED BY <1>2, <1>3, <1>4, <1>5, <1>7

\* What it means for an arc to be on the way between two nodes of a forest:
\* it is over an arc of the forest without which the ends of the way are
\* apart, each with its end of the arc.
IsOver(tree, from, to, arc, own) ==
    /\ EdgeOf(own) = EdgeOf(arc)
    /\ \/ From[arc] = From[own] /\ To[arc] = To[own]
       \/ From[arc] = To[own] /\ To[arc] = From[own]
    /\ ~Joined(tree \ {own}, from, to)
    /\ Joined(tree \ {own}, from, From[arc])
    /\ Joined(tree \ {own}, To[arc], to)
    /\ \E part \in SUBSET Nodes :
          /\ Closed(tree \ {own}, part)
          /\ from \in part /\ From[arc] \in part
          /\ to \notin part /\ To[arc] \notin part

\* An arc of the path through a forest crosses an edge of it, points from the start to the
\* end, and its edge alone separates the two (tree_path_edges).
LEMMA OnPath ==
    ASSUME NEW tree \in SUBSET ArcsOf(Edges), IsForest(tree), NEW from \in Nodes, NEW to \in Nodes,
           NEW arc \in TreePath(tree, from, to)
    PROVE  /\ arc \in ArcsOf(Edges) /\ arc \in ArcsOf(EdgesOf(tree))
           /\ From[arc] \in Nodes /\ To[arc] \in Nodes /\ From[arc] # To[arc]
           /\ \E own \in tree : IsOver(tree, from, to, arc, own)
<1>1. arc \in ArcsOf(EdgesOf(tree))
  BY DEF TreePath
<1>2. arc \in ArcsOf(Edges)
  BY <1>1, WithoutEdge
<1>3. From[arc] \in Nodes /\ To[arc] \in Nodes /\ From[arc] # To[arc]
  BY <1>2, ArcEnds
<1>4. PICK own \in tree :
          /\ EdgeOf(own) = EdgeOf(arc)
          /\ \/ From[arc] = From[own] /\ To[arc] = To[own]
             \/ From[arc] = To[own] /\ To[arc] = From[own]
          /\ {other \in tree : EdgeOf(other) # EdgeOf(arc)} = tree \ {own}
  BY <1>1, WithoutEdge
<1>5. /\ ~Joined(tree \ {own}, from, to)
      /\ Joined(tree \ {own}, from, From[arc])
      /\ Joined(tree \ {own}, To[arc], to)
  BY <1>4 DEF TreePath
<1>6. PICK part \in SUBSET Nodes : Closed(tree \ {own}, part) /\ from \in part /\ to \notin part
  BY <1>5, CutExists
<1>7. tree \ {own} \in SUBSET ArcsOf(Edges)
  OBVIOUS
<1>8. From[arc] \in part /\ To[arc] \notin part
  BY <1>3, <1>5, <1>6, <1>7, SameSide
<1> QED BY <1>1, <1>2, <1>3, <1>4, <1>5, <1>6, <1>8 DEF IsOver

\* When such an arc is.
LEMMA PutOnPath ==
    ASSUME NEW tree \in SUBSET ArcsOf(Edges), IsForest(tree), NEW from \in Nodes, NEW to \in Nodes,
           NEW own \in tree, NEW arc \in ArcsOf({EdgeOf(own)}),
           ~Joined(tree \ {own}, from, to),
           Joined(tree \ {own}, from, From[arc]), Joined(tree \ {own}, To[arc], to)
    PROVE  arc \in TreePath(tree, from, to)
<1>1. EdgeOf(own) \in EdgesOf(tree)
  BY DEF EdgesOf
<1>2. arc \in ArcsOf(EdgesOf(tree))
  BY <1>1 DEF ArcsOf
<1>3. PICK mine \in tree :
          /\ EdgeOf(mine) = EdgeOf(arc)
          /\ {other \in tree : EdgeOf(other) # EdgeOf(arc)} = tree \ {mine}
  BY <1>2, WithoutEdge
<1>4. EdgeOf(own) = EdgeOf(arc)
  <2>1. {EdgeOf(own)} \in SUBSET Edges
    BY ArcFacts
  <2> QED BY <2>1, ArcFacts
<1>5. mine = own
  BY <1>3, <1>4
<1> QED BY <1>2, <1>3, <1>5 DEF TreePath

\* The way from a node that is reached, or from its start, goes on until its
\* end.
LEMMA WayOn ==
    ASSUME NEW tree \in SUBSET ArcsOf(Edges), IsForest(tree), NEW from \in Nodes, NEW to \in Nodes,
           Joined(tree, from, to), NEW node \in Nodes, node # to,
           node = from \/ \E arc \in TreePath(tree, from, to) : To[arc] = node
    PROVE  \E arc \in TreePath(tree, from, to) : From[arc] = node
<1> DEFINE away == {arc \in tree : From[arc] # node /\ To[arc] # node}
           C == {u \in Nodes : Joined(away, u, to)}
<1>1. away \in SUBSET ArcsOf(Edges) /\ C \in SUBSET Nodes
  OBVIOUS
<1>2. Closed(away, C)
  <2> SUFFICES ASSUME NEW arc \in away PROVE From[arc] \in C <=> To[arc] \in C
    BY DEF Closed
  <2>1. From[arc] \in Nodes /\ To[arc] \in Nodes /\ Joined(away, From[arc], To[arc])
    BY <1>1, ArcEnds, ArcJoins
  <2> HIDE DEF away
  <2> QED BY <1>1, <2>1, JoinedFacts
<1>3. to \in C
  BY <1>1, JoinedFacts
<1>4. node \notin C
  <2>1. {node} \in SUBSET Nodes /\ Closed(away, {node})
    BY DEF Closed
  <2> HIDE DEF away
  <2> QED BY <1>1, <2>1, SameSide
<1> HIDE DEF C
\* The arcs that still lead from node to the end.
<1>5. \E H \in SUBSET tree :
          /\ Joined(H, node, to)
          /\ \/ node = from
             \/ \E arc \in TreePath(tree, from, to), own \in tree :
                   /\ To[arc] = node /\ H = tree \ {own}
                   /\ \/ From[own] = From[arc] /\ To[own] = node
                      \/ From[own] = node /\ To[own] = From[arc]
                   /\ \E P \in SUBSET Nodes :
                         /\ Closed(tree \ {own}, P)
                         /\ from \in P /\ From[arc] \in P
                         /\ to \notin P /\ node \notin P
  <2>1. CASE node = from
    BY <2>1
  <2>2. CASE \E arc \in TreePath(tree, from, to) : To[arc] = node
    <3>1. PICK arc \in TreePath(tree, from, to) : To[arc] = node
      BY <2>2
    <3>2. PICK own \in tree : IsOver(tree, from, to, arc, own)
      BY OnPath
    <3>3. tree \ {own} \in SUBSET tree
      OBVIOUS
    <3> QED BY <3>1, <3>2, <3>3 DEF IsOver
  <2> QED BY <2>1, <2>2
<1>6. PICK H \in SUBSET tree :
          /\ Joined(H, node, to)
          /\ \/ node = from
             \/ \E arc \in TreePath(tree, from, to), own \in tree :
                   /\ To[arc] = node /\ H = tree \ {own}
                   /\ \/ From[own] = From[arc] /\ To[own] = node
                      \/ From[own] = node /\ To[own] = From[arc]
                   /\ \E P \in SUBSET Nodes :
                         /\ Closed(tree \ {own}, P)
                         /\ from \in P /\ From[arc] \in P
                         /\ to \notin P /\ node \notin P
  BY <1>5
<1>7. ~Closed(H, C)
  <2>1. H \in SUBSET ArcsOf(Edges)
    OBVIOUS
  <2> QED BY <1>1, <1>3, <1>4, <1>6, <2>1, SameSide
<1>8. PICK g \in H : ~(From[g] \in C <=> To[g] \in C)
  BY <1>7 DEF Closed
<1>9. g \in tree /\ g \in ArcsOf(Edges) /\ g \notin away /\ From[g] \in Nodes /\ To[g] \in Nodes
  BY <1>2, <1>8, ArcEnds DEF Closed
<1>10. PICK w \in C : (From[g] = node /\ To[g] = w) \/ (From[g] = w /\ To[g] = node)
  <2>1. From[g] = node \/ To[g] = node
    BY <1>9
  <2>2. CASE From[g] = node
    <3>1. To[g] \in C
      BY <1>4, <1>8, <2>2
    <3> WITNESS To[g] \in C
    <3> QED BY <2>2
  <2>3. CASE To[g] = node
    <3>1. From[g] \in C
      BY <1>4, <1>8, <2>3
    <3> QED BY <2>3, <3>1
  <2> QED BY <2>1, <2>2, <2>3
<1> DEFINE rest == tree \ {g}
<1>11. w \in Nodes /\ Joined(rest, w, to)
  <2>1. away \subseteq rest
    BY <1>9
  <2>2. w \in Nodes /\ Joined(away, w, to)
    BY DEF C
  <2> QED BY <2>1, <2>2, MoreArcsJoin
<1>12. rest \in SUBSET ArcsOf(Edges)
  OBVIOUS
<1>13. ~Joined(rest, node, w)
  <2>1. ~Joined(rest, From[g], To[g])
    BY <1>9 DEF IsForest
  <2> HIDE DEF rest
  <2> QED BY <1>9, <1>10, <1>11, <1>12, <2>1, JoinedFacts
<1>14. Joined(rest, from, node)
  <2>1. CASE node = from
    BY <1>12, <2>1, JoinedFacts
  <2>2. CASE node # from
    <3>1. PICK arc \in TreePath(tree, from, to), own \in tree :
             /\ To[arc] = node /\ H = tree \ {own}
             /\ \/ From[own] = From[arc] /\ To[own] = node
                \/ From[own] = node /\ To[own] = From[arc]
             /\ \E P \in SUBSET Nodes :
                   /\ Closed(tree \ {own}, P)
                   /\ from \in P /\ From[arc] \in P
                   /\ to \notin P /\ node \notin P
      BY <1>6, <2>2
    <3>2. PICK P \in SUBSET Nodes :
             /\ Closed(tree \ {own}, P)
             /\ from \in P /\ From[arc] \in P
             /\ to \notin P /\ node \notin P
      BY <3>1
    <3>3. SUFFICES ASSUME ~Joined(rest, from, node) PROVE FALSE
      OBVIOUS
    <3>4. PICK Q \in SUBSET Nodes : Closed(rest, Q) /\ from \in Q /\ node \notin Q
      BY <3>3, CutExists
    <3>5. own # g
      BY <1>8, <3>1
    <3>6. From[arc] \notin Q
      <4>1. own \in rest
        BY <3>5
      <4> QED BY <3>1, <3>4, <4>1 DEF Closed
    <3>7. w \notin P
      <4>1. g \in tree \ {own}
        BY <1>8, <3>1
      <4> QED BY <1>10, <3>2, <4>1 DEF Closed
    <3>8. Closed(tree, P \cap Q)
      <4>1. From[g] \notin P \cap Q /\ To[g] \notin P \cap Q
        BY <1>10, <3>2, <3>7
      <4>2. From[own] \notin P \cap Q /\ To[own] \notin P \cap Q
        BY <3>1, <3>4, <3>6
      <4> QED BY <3>2, <3>4, <4>1, <4>2 DEF Closed
    <3>9. P \cap Q \in SUBSET Nodes
      OBVIOUS
    <3>10. from \in P \cap Q <=> to \in P \cap Q
      BY <3>8, <3>9, SameSide
    <3> QED BY <3>2, <3>4, <3>10
  <2> QED BY <2>1, <2>2
<1>15. ~Joined(rest, from, to)
  <2> HIDE DEF rest
  <2>1. ASSUME Joined(rest, from, to) PROVE FALSE
    <3>1. Joined(rest, node, to)
      BY <1>12, <1>14, <2>1, JoinedFacts
    <3>2. Joined(rest, to, w)
      BY <1>11, <1>12, JoinedFacts
    <3>3. Joined(rest, node, w)
      BY <1>11, <1>12, <3>1, <3>2, JoinedFacts
    <3> QED BY <1>13, <3>3
  <2> QED BY <2>1
<1>16. PICK b \in ArcsOf({EdgeOf(g)}) : From[b] = node /\ To[b] = w
  <2>1. g \in ArcsOf({EdgeOf(g)})
    BY <1>9, ArcFacts DEF ArcsOf
  <2>2. PICK b \in ArcsOf({EdgeOf(g)}) : From[b] = To[g] /\ To[b] = From[g]
    BY <1>9, TwoWays
  <2> QED BY <1>10, <2>1, <2>2
<1> HIDE DEF rest
<1>17. b \in TreePath(tree, from, to)
  BY <1>9, <1>11, <1>14, <1>15, <1>16, PutOnPath DEF rest
<1> QED BY <1>16, <1>17

\* The way leaves a node over one arc only.
LEMMA LeavesOnce ==
    ASSUME NEW tree \in SUBSET ArcsOf(Edges), IsForest(tree), NEW from \in Nodes, NEW to \in Nodes,
           Joined(tree, from, to), NEW a \in TreePath(tree, from, to),
           NEW b \in TreePath(tree, from, to), From[a] = From[b]
    PROVE  a = b
<1>1. SUFFICES ASSUME a # b PROVE FALSE
  OBVIOUS
<1>2. PICK ownA \in tree, P \in SUBSET Nodes :
          /\ EdgeOf(ownA) = EdgeOf(a)
          /\ \/ From[a] = From[ownA] /\ To[a] = To[ownA]
             \/ From[a] = To[ownA] /\ To[a] = From[ownA]
          /\ Closed(tree \ {ownA}, P)
          /\ from \in P /\ From[a] \in P
          /\ to \notin P /\ To[a] \notin P
  <2>1. PICK own \in tree : IsOver(tree, from, to, a, own)
    BY OnPath
  <2> QED BY <2>1 DEF IsOver
<1>3. PICK ownB \in tree, Q \in SUBSET Nodes :
          /\ EdgeOf(ownB) = EdgeOf(b)
          /\ \/ From[b] = From[ownB] /\ To[b] = To[ownB]
             \/ From[b] = To[ownB] /\ To[b] = From[ownB]
          /\ Closed(tree \ {ownB}, Q)
          /\ from \in Q /\ From[b] \in Q
          /\ to \notin Q /\ To[b] \notin Q
  <2>1. PICK own \in tree : IsOver(tree, from, to, b, own)
    BY OnPath
  <2> QED BY <2>1 DEF IsOver
<1>4. ownA # ownB
  <2>1. /\ a \in ArcsOf(Edges) /\ b \in ArcsOf(Edges)
        /\ From[a] # To[a]
    BY OnPath
  <2>2. EdgeOf(a) # EdgeOf(b)
    BY <1>1, <2>1, TwoWays
  <2> QED BY <1>2, <1>3, <2>2
<1>5. To[a] \in Q
  BY <1>2, <1>3, <1>4 DEF Closed
<1>6. To[b] \in P
  BY <1>2, <1>3, <1>4 DEF Closed
<1>7. /\ From[ownA] \in P \cup Q /\ To[ownA] \in P \cup Q
      /\ From[ownB] \in P \cup Q /\ To[ownB] \in P \cup Q
  BY <1>2, <1>3, <1>5, <1>6
<1>8. Closed(tree, P \cup Q)
  BY <1>2, <1>3, <1>7 DEF Closed
<1>9. P \cup Q \in SUBSET Nodes
  OBVIOUS
<1>10. from \in P \cup Q <=> to \in P \cup Q
  BY <1>8, <1>9, SameSide
<1> QED BY <1>2, <1>3, <1>10

\* The way back goes over the same edges.
LEMMA WayBack ==
    ASSUME NEW tree \in SUBSET ArcsOf(Edges), IsForest(tree), NEW from \in Nodes, NEW to \in Nodes,
           NEW a \in TreePath(tree, from, to)
    PROVE  \E b \in TreePath(tree, to, from) :
               EdgeOf(b) = EdgeOf(a) /\ From[b] = To[a] /\ To[b] = From[a]
<1>1. PICK own \in tree : IsOver(tree, from, to, a, own)
  BY OnPath
<1>2. a \in ArcsOf(Edges) /\ From[a] \in Nodes /\ To[a] \in Nodes
  BY OnPath
<1>3. PICK b \in ArcsOf({EdgeOf(a)}) :
          EdgeOf(b) = EdgeOf(a) /\ From[b] = To[a] /\ To[b] = From[a]
  BY <1>2, TwoWays
<1>4. tree \ {own} \in SUBSET ArcsOf(Edges)
  OBVIOUS
<1>5. /\ ~Joined(tree \ {own}, to, from)
      /\ Joined(tree \ {own}, to, From[b])
      /\ Joined(tree \ {own}, To[b], from)
  BY <1>1, <1>2, <1>3, <1>4, JoinedFacts DEF IsOver
<1>6. b \in TreePath(tree, to, from)
  BY <1>1, <1>3, <1>5, PutOnPath DEF IsOver
<1> QED BY <1>3, <1>6

\* So it reaches a node over one arc only, comes from somewhere unless it
\* starts there, and neither returns to its start nor leaves its end.
LEMMA WayFacts ==
    ASSUME NEW tree \in SUBSET ArcsOf(Edges), IsForest(tree), NEW from \in Nodes, NEW to \in Nodes,
           Joined(tree, from, to)
    PROVE  /\ \A a, b \in TreePath(tree, from, to) : From[a] = From[b] => a = b
           /\ \A a, b \in TreePath(tree, from, to) : To[a] = To[b] => a = b
           /\ \A a \in TreePath(tree, from, to) :
                 /\ To[a] # from /\ From[a] # to
                 /\ To[a] # to => \E b \in TreePath(tree, from, to) : From[b] = To[a]
                 /\ From[a] # from => \E b \in TreePath(tree, from, to) : To[b] = From[a]
           /\ from # to => /\ \E a \in TreePath(tree, from, to) : From[a] = from
                           /\ \E a \in TreePath(tree, from, to) : To[a] = to
<1> DEFINE path == TreePath(tree, from, to)
           back == TreePath(tree, to, from)
<1>1. Joined(tree, to, from)
  BY JoinedFacts
<1>2. \A a \in path : /\ a \in ArcsOf(Edges) /\ From[a] \in Nodes /\ To[a] \in Nodes
                      /\ From[a] # To[a]
  BY OnPath
<1>3. \A a \in path : \E b \in back :
          EdgeOf(b) = EdgeOf(a) /\ From[b] = To[a] /\ To[b] = From[a]
  BY WayBack
<1>4. \A b \in back : \E a \in path :
          EdgeOf(a) = EdgeOf(b) /\ From[a] = To[b] /\ To[a] = From[b]
  BY WayBack
<1>5. \A a, b \in path : From[a] = From[b] => a = b
  BY LeavesOnce
<1>6. ASSUME NEW a \in path, NEW b \in path, To[a] = To[b] PROVE a = b
  <2>1. PICK c \in back : EdgeOf(c) = EdgeOf(a) /\ From[c] = To[a]
    BY <1>3
  <2>2. PICK d \in back : EdgeOf(d) = EdgeOf(b) /\ From[d] = To[b]
    BY <1>3
  <2>3. c = d
    BY <1>1, <1>6, <2>1, <2>2, LeavesOnce
  <2> QED BY <1>2, <1>6, <2>1, <2>2, <2>3, TwoWays
<1>7. ASSUME NEW a \in path PROVE To[a] # from /\ From[a] # to
  <2>1. PICK own \in tree : IsOver(tree, from, to, a, own)
    BY OnPath
  <2> QED BY <2>1 DEF IsOver
<1>8. ASSUME NEW a \in path, To[a] # to PROVE \E b \in path : From[b] = To[a]
  BY <1>2, <1>8, WayOn
<1>9. ASSUME NEW a \in path, From[a] # from PROVE \E b \in path : To[b] = From[a]
  <2>1. PICK c \in back : To[c] = From[a]
    BY <1>3
  <2>2. PICK d \in back : From[d] = From[a]
    BY <1>1, <1>2, <1>9, <2>1, WayOn
  <2> QED BY <1>4, <2>2
<1>10. ASSUME from # to
       PROVE  (\E a \in path : From[a] = from) /\ (\E a \in path : To[a] = to)
  <2>1. \E a \in path : From[a] = from
    BY <1>10, WayOn
  <2>2. \E c \in back : From[c] = to
    BY <1>1, <1>10, WayOn
  <2> QED BY <1>4, <2>1, <2>2
<1> HIDE DEF path
<1> QED BY <1>5, <1>6, <1>7, <1>8, <1>9, <1>10 DEF path

\* The arc that closes a cycle and the way back inside the tree are a cycle.
LEMMA TreeCycleIsCycle ==
    ASSUME NEW tree \in SUBSET ArcsOf(Edges), IsForest(tree), NEW entering \in ArcsOf(Edges),
           Joined(tree, To[entering], From[entering])
    PROVE  IsCycle(TreeCycle(tree, entering))
<1> DEFINE from == To[entering]
           to == From[entering]
           path == TreePath(tree, from, to)
           cycle == TreeCycle(tree, entering)
<1>1. from \in Nodes /\ to \in Nodes /\ from # to
  BY ArcEnds
<1> HIDE DEF from, to
<1>2. from = To[entering] /\ to = From[entering] /\ Joined(tree, from, to)
  BY DEF from, to
<1>3. cycle = {entering} \cup path
  BY DEF TreeCycle, from, to
<1>4. /\ \A a, b \in path : From[a] = From[b] => a = b
      /\ \A a, b \in path : To[a] = To[b] => a = b
      /\ \A a \in path :
            /\ To[a] # from /\ From[a] # to
            /\ To[a] # to => \E b \in path : From[b] = To[a]
            /\ From[a] # from => \E b \in path : To[b] = From[a]
      /\ \E a \in path : From[a] = from
      /\ \E a \in path : To[a] = to
  BY <1>1, <1>2, WayFacts
<1> HIDE DEF path, cycle
<1>5. ASSUME NEW node \in Nodes, NEW a \in cycle, From[a] = node \/ To[a] = node
      PROVE  \E in, out \in cycle : To[in] = node /\ From[out] = node
  <2>1. CASE node = from
    BY <1>2, <1>3, <1>4, <2>1
  <2>2. CASE node = to
    BY <1>2, <1>3, <1>4, <2>2
  <2>3. CASE node # from /\ node # to
    <3>1. a \in path
      BY <1>2, <1>3, <1>5, <2>3
    <3>2. CASE From[a] = node
      <4>1. \E b \in path : To[b] = node
        BY <1>4, <2>3, <3>1, <3>2
      <4> QED BY <1>3, <3>1, <3>2, <4>1
    <3>3. CASE To[a] = node
      <4>1. \E b \in path : From[b] = node
        BY <1>4, <2>3, <3>1, <3>3
      <4> QED BY <1>3, <3>1, <3>3, <4>1
    <3> QED BY <1>5, <3>2, <3>3
  <2> QED BY <2>1, <2>2, <2>3
<1>6. \A a, b \in cycle : From[a] = From[b] => a = b
  BY <1>2, <1>3, <1>4
<1>7. \A a, b \in cycle : To[a] = To[b] => a = b
  BY <1>2, <1>3, <1>4
<1>8. ASSUME NEW node \in Nodes
      PROVE  \/ \A arc \in cycle : From[arc] # node /\ To[arc] # node
             \/ \E in, out \in cycle : /\ {arc \in cycle : To[arc] = node} = {in}
                                       /\ {arc \in cycle : From[arc] = node} = {out}
  <2>1. CASE \A arc \in cycle : From[arc] # node /\ To[arc] # node
    BY <2>1
  <2>2. CASE \E arc \in cycle : From[arc] = node \/ To[arc] = node
    <3>1. PICK in, out \in cycle : To[in] = node /\ From[out] = node
      BY <1>5, <2>2
    <3>2. {arc \in cycle : To[arc] = node} = {in}
      BY <1>7, <3>1
    <3>3. {arc \in cycle : From[arc] = node} = {out}
      BY <1>6, <3>1
    <3> QED BY <3>2, <3>3
  <2> QED BY <2>1, <2>2
<1> QED BY <1>8 DEF IsCycle, cycle

\* A pivot leads from a forest to one.
LEMMA PivotIsForest ==
    ASSUME NEW D \in SUBSET Edges, NEW tree \in SUBSET ArcsOf(D), IsForest(tree),
           NEW entering \in ArcsOf(D \ EdgesOf(tree)),
           Joined(tree, To[entering], From[entering])
    PROVE  Pivot(tree, entering) \in SUBSET ArcsOf(D) /\ IsForest(Pivot(tree, entering))
<1> DEFINE from == To[entering]
           to == From[entering]
           path == TreePath(tree, from, to)
           leaving == CHOOSE arc \in path : From[arc] = from
<1>1. /\ entering \in ArcsOf(D) /\ entering \in ArcsOf(Edges) /\ entering \notin tree
      /\ tree \in SUBSET ArcsOf(Edges)
  <2>1. entering \in ArcsOf(D) /\ ArcsOf(D) \in SUBSET ArcsOf(Edges)
    BY DEF ArcsOf
  <2>2. EdgeOf(entering) \in D \ EdgesOf(tree)
    <3>1. D \ EdgesOf(tree) \in SUBSET Edges
      OBVIOUS
    <3> QED BY <3>1, ArcFacts
  <2> QED BY <2>1, <2>2 DEF EdgesOf
<1>2. from \in Nodes /\ to \in Nodes /\ from # to
  BY <1>1, ArcEnds
<1>3. \E arc \in path : From[arc] = from
  BY <1>1, <1>2, WayFacts
<1>4. leaving \in path
  BY <1>3
<1>5. Pivot(tree, entering) = {arc \in tree : EdgeOf(arc) # EdgeOf(leaving)} \cup {entering}
  BY DEF Pivot
<1> HIDE DEF leaving
<1>6. PICK own \in tree :
          /\ {other \in tree : EdgeOf(other) # EdgeOf(leaving)} = tree \ {own}
          /\ ~Joined(tree \ {own}, from, to)
  <2>1. leaving \in ArcsOf(EdgesOf(tree))
    BY <1>1, <1>2, <1>4, OnPath
  <2>2. PICK own \in tree : {other \in tree : EdgeOf(other) # EdgeOf(leaving)} = tree \ {own}
    BY <1>1, <2>1, WithoutEdge
  <2>3. ~Joined(tree \ {own}, from, to)
    BY <1>4, <2>2 DEF TreePath
  <2> QED BY <2>2, <2>3
<1> DEFINE kept == tree \ {own}
<1>7. Pivot(tree, entering) = kept \cup {entering}
  BY <1>5, <1>6
<1>8. PICK R \in SUBSET Nodes : Closed(kept, R) /\ from \in R /\ to \notin R
  BY <1>6, CutExists
<1>9. ASSUME NEW g \in kept, Joined((kept \cup {entering}) \ {g}, From[g], To[g])
      PROVE  FALSE
  <2> DEFINE rest == (kept \cup {entering}) \ {g}
  <2>1. PICK P \in SUBSET Nodes : Closed(tree \ {g}, P) /\ From[g] \in P /\ To[g] \notin P
    <3>1. ~Joined(tree \ {g}, From[g], To[g])
      BY DEF IsForest
    <3> QED BY <3>1, CutExists
  <2>2. rest \in SUBSET ArcsOf(Edges) /\ From[g] \in Nodes /\ To[g] \in Nodes
    BY <1>1, ArcEnds
  <2>3. \A a \in rest : a # entering => a \in kept /\ a \in tree \ {g}
    OBVIOUS
  <2>4. CASE from \in P <=> to \in P
    <3>1. Closed(rest, P)
      BY <2>1, <2>3, <2>4 DEF Closed
    <3> QED BY <1>9, <2>1, <2>2, <3>1, SameSide
  <2>5. CASE ~(from \in P <=> to \in P)
    <3> DEFINE S == (P \ R) \cup (R \ P)
    <3>1. from \in S <=> to \in S
      BY <1>8, <2>5
    <3>2. Closed(rest, S)
      BY <1>8, <2>1, <2>3, <3>1 DEF Closed
    <3>3. From[g] \in R <=> To[g] \in R
      BY <1>8 DEF Closed
    <3>4. From[g] \in S <=> To[g] \in S
      BY <1>9, <2>2, <3>2, SameSide
    <3> QED BY <2>1, <3>3, <3>4
  <2> QED BY <2>4, <2>5
<1>10. ~Joined((kept \cup {entering}) \ {entering}, From[entering], To[entering])
  <2>1. (kept \cup {entering}) \ {entering} = kept
    BY <1>1
  <2>2. kept \in SUBSET ArcsOf(Edges)
    BY <1>1
  <2> QED BY <1>2, <1>6, <2>1, <2>2, JoinedFacts
<1>11. kept \cup {entering} \in SUBSET ArcsOf(D)
  BY <1>1
<1> HIDE DEF kept
<1> QED BY <1>7, <1>9, <1>10, <1>11 DEF IsForest

-----------------------------------------------------------------------------
(* The first routing.                                                      *)

\* The residue of a plaquette is an integer.
LEMMA ResidueIsInt ==
    ASSUME NEW deltas, AreFlows(deltas, DOMAIN deltas), NEW node \in Nodes
    PROVE  Residue(deltas, node) \in Int
<1>1. CASE EdgesAround(node) \subseteq DOMAIN deltas
  <2>1. \A edge \in EdgesAround(node) : deltas[edge] \in Int
    BY <1>1 DEF AreFlows
  <2>2. /\ Top(node) \in EdgesAround(node) /\ Right(node) \in EdgesAround(node)
        /\ Bottom(node) \in EdgesAround(node) /\ Left(node) \in EdgesAround(node)
    BY DEF EdgesAround
  <2> QED BY <1>1, <2>1, <2>2 DEF Residue
<1>2. CASE ~(EdgesAround(node) \subseteq DOMAIN deltas)
  BY <1>2 DEF Residue
<1> QED BY <1>1, <1>2

\* The parts of InitialCorrections.
Residues(deltas) == [node \in Nodes \ {Ground} |-> Residue(deltas, node)]
ResidueSum(deltas) == MapThenSumSet(LAMBDA n : Residue(deltas, n), Nodes \ {Ground})
Charge(deltas, node) == IF node # Ground THEN Residue(deltas, node) ELSE -ResidueSum(deltas)
Charges(deltas) == [node \in Nodes |-> Charge(deltas, node)]
Terminals(deltas) == {node \in Nodes : Charge(deltas, node) # 0}
Root(deltas) == Min(Terminals(deltas))
Links(costs, deltas) ==
    {path[6] : path \in {p \in ShortestPaths(costs, Root(deltas)) : p[2] # Root(deltas)}}
Senders(costs, deltas, arc) ==
    {node \in Terminals(deltas) : arc \in TreePath(Links(costs, deltas), node, Root(deltas))}
Amount(costs, deltas, arc) ==
    MapThenSumSet(LAMBDA n : Charge(deltas, n), Senders(costs, deltas, arc))

\* They are its parts.
LEMMA CorrectionsAre ==
    ASSUME NEW costs, NEW deltas
    PROVE  InitialCorrections(costs, deltas)
             = [edge \in DOMAIN costs |->
                   IF Terminals(deltas) = {} THEN 0
                   ELSE Amount(costs, deltas, 2 * edge) - Amount(costs, deltas, 2 * edge + 1)]
BY DEF InitialCorrections, Terminals, Amount, Senders, Links, Root, Charge, ResidueSum

\* The sum of all residues, and the charge of the ground that balances it.
LEMMA ChargesAreInt ==
    ASSUME NEW deltas, AreFlows(deltas, DOMAIN deltas)
    PROVE  /\ ResidueSum(deltas) = SumOver(Residues(deltas), Nodes \ {Ground})
           /\ \A node \in Nodes : Charge(deltas, node) \in Int /\ Charges(deltas)[node] \in Int
           /\ \A node \in Nodes \ {Ground} : Residues(deltas)[node] \in Int
           /\ IsFiniteSet(Nodes)
<1> DEFINE Of(n) == Residue(deltas, n)
           g == Residues(deltas)
           S == Nodes \ {Ground}
           I == CHOOSE it : it = [s \in SUBSET S |-> IF s = {} THEN 0
                                             ELSE Of(Some(s)) + it[s \ {Some(s)}]]
<1>1. ResidueSum(deltas) = I[S]
  BY DEF ResidueSum, MapThenSumSet, MapThenFoldSet, Some
<1>2. \A x \in S : g[x] = Of(x) /\ g[x] \in Int
  BY ResidueIsInt DEF Residues
<1>3. IsFiniteSet(Nodes) /\ IsFiniteSet(S)
  <2>1. IsFiniteSet(Nodes)
    BY GridSizes, FS_Interval DEF Nodes
  <2> HIDE DEF g
  <2> QED BY <2>1, FS_Subset
<1> HIDE DEF Of, g, S
<1>4. PICK jt \in [SUBSET S -> Int] : IsSum(jt, g, S)
  BY <1>2, <1>3, SumExists
<1>5. \A s \in SUBSET S : s # {} => g[Some(s)] = Of(Some(s))
  BY <1>2 DEF Some
<1>6. jt = [s \in SUBSET S |-> IF s = {} THEN 0 ELSE Of(Some(s)) + jt[s \ {Some(s)}]]
  BY <1>4, <1>5 DEF IsSum
<1>7. I = [s \in SUBSET S |-> IF s = {} THEN 0 ELSE Of(Some(s)) + I[s \ {Some(s)}]]
  BY <1>6
<1> HIDE DEF I
<1>8. IsSum(I, g, S)
  BY <1>5, <1>7 DEF IsSum
<1>9. I[S] = SumOver(g, S) /\ SumOver(g, S) \in Int
  BY <1>2, <1>3, <1>8, SumIs
<1>10. ResidueSum(deltas) = SumOver(g, S) /\ ResidueSum(deltas) \in Int
  BY <1>1, <1>9
<1>11. \A node \in Nodes : Charge(deltas, node) \in Int
  BY <1>10, ResidueIsInt DEF Charge
<1> QED BY <1>2, <1>3, <1>10, <1>11 DEF g, S, Charges

\* What an arc carries is the sum of the charges that are sent over it.
LEMMA AmountIsSum ==
    ASSUME NEW costs, NEW deltas, AreFlows(deltas, DOMAIN deltas), NEW arc
    PROVE  /\ Amount(costs, deltas, arc) = SumOver(Charges(deltas), Senders(costs, deltas, arc))
           /\ Amount(costs, deltas, arc) \in Int
           /\ IsFiniteSet(Senders(costs, deltas, arc))
<1> DEFINE Of(n) == Charge(deltas, n)
           g == Charges(deltas)
           S == Senders(costs, deltas, arc)
           I == CHOOSE it : it = [s \in SUBSET S |-> IF s = {} THEN 0
                                             ELSE Of(Some(s)) + it[s \ {Some(s)}]]
<1>1. Amount(costs, deltas, arc) = I[S]
  BY DEF Amount, MapThenSumSet, MapThenFoldSet, Some
<1>2. S \in SUBSET Nodes
  BY DEF Senders, Terminals
<1>3. \A x \in S : g[x] = Of(x) /\ g[x] \in Int
  BY <1>2, ChargesAreInt DEF Charges
<1>10. IsFiniteSet(S)
  BY <1>2, ChargesAreInt, FS_Subset
<1> HIDE DEF Of, g, S
<1>4. PICK jt \in [SUBSET S -> Int] : IsSum(jt, g, S)
  BY <1>3, <1>10, SumExists
<1>5. \A s \in SUBSET S : s # {} => g[Some(s)] = Of(Some(s))
  BY <1>3 DEF Some
<1>6. jt = [s \in SUBSET S |-> IF s = {} THEN 0 ELSE Of(Some(s)) + jt[s \ {Some(s)}]]
  BY <1>4, <1>5 DEF IsSum
<1>7. I = [s \in SUBSET S |-> IF s = {} THEN 0 ELSE Of(Some(s)) + I[s \ {Some(s)}]]
  BY <1>6
<1> HIDE DEF I
<1>8. IsSum(I, g, S)
  BY <1>5, <1>7 DEF IsSum
<1>9. I[S] = SumOver(g, S) /\ SumOver(g, S) \in Int
  BY <1>3, <1>8, <1>10, SumIs
<1> QED BY <1>1, <1>9, <1>10 DEF g, S

\* The first corrections are integers.
LEMMA CorrectionsAreInt ==
    ASSUME NEW costs, NEW deltas, AreFlows(deltas, DOMAIN deltas)
    PROVE  /\ DOMAIN InitialCorrections(costs, deltas) = DOMAIN costs
           /\ \A edge \in DOMAIN costs : InitialCorrections(costs, deltas)[edge] \in Int
<1>1. \A arc : Amount(costs, deltas, arc) \in Int
  BY AmountIsSum
<1> QED BY <1>1, CorrectionsAre

\* The missing turns between two wrapped phases are integers.
LEMMA DecodedDeltaIsInt ==
    ASSUME NEW grid \in PhaseGrids
    PROVE  /\ PresentEdges(grid) \in SUBSET Edges
           /\ DOMAIN DecodedDelta(grid) = PresentEdges(grid)
           /\ AreFlows(DecodedDelta(grid), PresentEdges(grid))
<1>1. PresentEdges(grid) \in SUBSET Edges
  BY DEF PresentEdges
<1>2. ASSUME NEW edge \in PresentEdges(grid)
      PROVE  DesiredDelta(grid[CellsOf(edge)[1]], grid[CellsOf(edge)[2]]) \in Int
  <2> DEFINE from == grid[CellsOf(edge)[1]]
             to == grid[CellsOf(edge)[2]]
  <2>1. from \in Int /\ to \in Int
    BY InputsAssumption DEF PresentEdges
  <2>2. Turn \in Nat /\ Turn > 0 /\ (Turn - 1) \div 2 \in Int
    BY GridAssumption
  <2> HIDE DEF from, to
  <2> DEFINE half == (Turn - 1) \div 2
  <2>3. ((to - from) + half) \in Int
    BY <2>1, <2>2
  <2> DEFINE turned == ((to - from) + half) % Turn
  <2>4. turned \in Int
    BY <2>2, <2>3
  <2>5. ((turned - half) - (to - from)) \div Turn \in Int
    <3>1. half \in Int
      BY <2>2
    <3> HIDE DEF turned, half
    <3> DEFINE rest == (turned - half) - (to - from)
    <3>2. rest \in Int
      BY <2>1, <2>4, <3>1
    <3> HIDE DEF rest
    <3>3. rest \div Turn \in Int
      BY <2>2, <3>2
    <3> QED BY <3>3 DEF rest
  <2>6. DesiredDelta(from, to) = ((turned - half) - (to - from)) \div Turn
    BY DEF DesiredDelta
  <2> QED BY <2>5, <2>6 DEF from, to
<1> QED BY <1>1, <1>2 DEF DecodedDelta, AreFlows

-----------------------------------------------------------------------------
(* The invariant.                                                          *)

\* The trees built at the start are forests of arcs of the graph.
LEMMA InitialTreesAreForests ==
    ASSUME NEW costs, AreCosts(costs), NEW flows, AreFlows(flows, DOMAIN costs)
    PROVE  /\ InitialTrees(costs, flows) \in [1 .. 2 -> SUBSET ArcsOf(DOMAIN costs)]
           /\ \A index \in 1 .. 2 : IsForest(InitialTrees(costs, flows)[index])
<1> DEFINE arcs == ArcsOf(DOMAIN costs)
           Price(arc) == ArcCost(costs, flows, 1, arc)
           forward == [arc \in arcs |-> <<arc>>]
           negativeFirst ==
               [arc \in arcs |-> IF Price(arc) < 0 THEN <<0, Price(arc), arc>> ELSE <<1, 0, arc>>]
<1>1. arcs \in SUBSET ArcsOf(Edges) /\ arcs \in SUBSET Nat
  BY ArcFacts DEF AreCosts
<1>2. \A arc \in arcs : Price(arc) \in Int
  <2>1. 1 \in Nat \ {0}
    OBVIOUS
  <2> QED BY <2>1, ArcRaisesPotential
<1>3. InitialTrees(costs, flows) = <<GreedyTree(arcs, forward), GreedyTree(arcs, negativeFirst)>>
  BY DEF InitialTrees
<1> HIDE DEF arcs, Price
<1>4. AreKeys(forward, arcs, 1)
  <2>1. \A arc \in arcs : <<arc>> \in [1 .. 1 -> Int]
    BY <1>1
  <2>2. \A a, b \in arcs : <<a>> = <<b>> => a = b
    OBVIOUS
  <2> QED BY <2>1, <2>2 DEF AreKeys
<1>5. AreKeys(negativeFirst, arcs, 3)
  <2>1. ASSUME NEW arc \in arcs
        PROVE  /\ negativeFirst[arc] \in [1 .. 3 -> Int]
               /\ negativeFirst[arc][3] = arc
    <3>1. CASE Price(arc) < 0
      <4>1. negativeFirst[arc] = <<0, Price(arc), arc>>
        BY <3>1
      <4>2. Price(arc) \in Int /\ arc \in Int
        BY <1>1, <1>2
      <4> QED BY <4>1, <4>2
    <3>2. CASE ~(Price(arc) < 0)
      <4>1. negativeFirst[arc] = <<1, 0, arc>>
        BY <3>2
      <4>2. arc \in Int
        BY <1>1
      <4> QED BY <4>1, <4>2
    <3> QED BY <3>1, <3>2
  <2> HIDE DEF negativeFirst
  <2> QED BY <2>1 DEF AreKeys
<1> HIDE DEF forward, negativeFirst
<1>6. GreedyTree(arcs, forward) \in SUBSET arcs /\ IsForest(GreedyTree(arcs, forward))
  <2>1. 1 \in Nat
    OBVIOUS
  <2> QED BY <1>1, <1>4, <2>1, GreedyIsForest
<1>7. GreedyTree(arcs, negativeFirst) \in SUBSET arcs /\ IsForest(GreedyTree(arcs, negativeFirst))
  <2>1. 3 \in Nat
    OBVIOUS
  <2> QED BY <1>1, <1>5, <2>1, GreedyIsForest
<1> QED BY <1>3, <1>6, <1>7 DEF arcs

\* A cycle that crosses as many edges as it has arcs crosses none both ways.
LEMMA SaturableIsOneWay ==
    ASSUME NEW arcs \in SUBSET ArcsOf(Edges), IsSaturable(arcs)
    PROVE  IsOneWay(arcs)
<1> DEFINE at == [arc \in arcs |-> EdgeOf(arc)]
<1>1. IsFiniteSet(arcs)
  BY EdgesAreFinite, FS_Subset
<1>2. at \in Surjection(arcs, EdgesOf(arcs))
  BY DEF Surjection, EdgesOf
<1>3. Cardinality(arcs) = Cardinality(EdgesOf(arcs))
  BY DEF IsSaturable
<1>4. at \in Injection(arcs, EdgesOf(arcs))
  BY <1>1, <1>2, <1>3, FS_SurjSameCardinalityImpliesInj
<1>5. \A a, b \in arcs : at[a] = at[b] => a = b
  BY <1>4 DEF Injection, IsInjective
<1> QED BY <1>5 DEF IsOneWay

\* What the next flow increment is.
LEMMA NextFlowIncrementIsIn ==
    ASSUME nflow \in 1 .. MaxFlow, NEW most
    PROVE  NextFlowIncrement(most) \in 1 .. MaxFlow
BY OptimizerAssumption DEF NextFlowIncrement

\* The data of a solve, its trees, the cycles it has selected, and the rest of
\* its variables.
DataInv ==
    /\ AreCosts(cost)
    /\ DOMAIN delta = DOMAIN cost /\ AreFlows(delta, DOMAIN cost)
    /\ DOMAIN flow = DOMAIN cost /\ AreFlows(flow, DOMAIN cost)
TreesInv ==
    /\ trees \in [1 .. 2 -> SUBSET ArcsOf(DOMAIN cost)]
    /\ \A index \in 1 .. 2 : IsForest(trees[index])
OutsideArcs == ArcsOf(DOMAIN cost \ EdgesOf(trees[stage]))
BatchInv ==
    /\ pc # "saturate" => batch = <<>> /\ pivot = None
    /\ pc = "saturate" => batch # <<>> /\ applied < MaxCycles
    /\ pc = "saturate" /\ stage < 3 =>
          /\ IsSpanningTree(trees[stage])
          /\ batch \in Seq(OutsideArcs) /\ pivot \in OutsideArcs \cup {None}
    /\ pc = "saturate" /\ stage = 3 =>
          \E cycle \in SUBSET ArcsOf(DOMAIN cost) :
              batch = <<cycle>> /\ IsOneWay(cycle) /\ IsCycle(cycle)
ControlInv ==
    /\ pc \in {"route", "pass", "saturate", "check", "done"}
    /\ stage \in 1 .. 3
    /\ nflow \in 1 .. MaxFlow
    /\ applied \in 0 .. MaxCycles
    /\ pushes \in Nat /\ total \in Nat /\ passes \in Nat
    /\ nflowDone \in Nat /\ nondecreasing \in Nat
SolverInv == DataInv /\ TreesInv /\ BatchInv /\ ControlInv

\* The cycle that is saturated is one of the graph and crosses no edge both
\* ways.
LEMMA SaturatedIsCycle ==
    ASSUME SolverInv, pc = "saturate"
    PROVE  /\ CycleOf(Head(batch)) \in SUBSET ArcsOf(DOMAIN cost)
           /\ IsOneWay(CycleOf(Head(batch))) /\ IsCycle(CycleOf(Head(batch)))
<1>1. DOMAIN cost \in SUBSET Edges /\ ArcsOf(DOMAIN cost) \in SUBSET ArcsOf(Edges)
  BY DEF SolverInv, DataInv, AreCosts, ArcsOf
<1>2. CASE stage < 3
  <2> DEFINE tree == trees[stage]
             entering == Head(batch)
  <2>1. stage \in 1 .. 2 /\ stage # 3
    BY <1>2 DEF SolverInv, ControlInv
  <2>2. tree \in SUBSET ArcsOf(DOMAIN cost) /\ IsForest(tree) /\ IsSpanningTree(tree)
    BY <1>2, <2>1 DEF SolverInv, TreesInv, BatchInv
  <2>3. entering \in ArcsOf(DOMAIN cost \ EdgesOf(tree))
    BY <1>2, <2>1 DEF SolverInv, BatchInv, OutsideArcs
  <2>4. CycleOf(Head(batch)) = TreeCycle(tree, entering)
    BY <2>1 DEF CycleOf
  <2> HIDE DEF tree, entering
  <2>5. entering \in ArcsOf(Edges) /\ tree \in SUBSET ArcsOf(Edges)
    BY <1>1, <2>2, <2>3 DEF ArcsOf
  <2>6. Ground \in Nodes /\ To[entering] \in Nodes /\ From[entering] \in Nodes
    BY <2>5, ArcEnds, GridSizes DEF Nodes
  <2>7. Joined(tree, Ground, To[entering]) /\ Joined(tree, Ground, From[entering])
    BY <2>2, <2>6 DEF IsSpanningTree
  <2>8. Joined(tree, To[entering], From[entering])
    BY <2>5, <2>6, <2>7, JoinedFacts
  <2>9. IsCycle(TreeCycle(tree, entering))
    BY <2>2, <2>5, <2>8, TreeCycleIsCycle
  <2>10. /\ TreeCycle(tree, entering) \in SUBSET ArcsOf(DOMAIN cost)
         /\ IsOneWay(TreeCycle(tree, entering))
    BY <1>1, <2>2, <2>3, TreeCycleIsOneWay
  <2> QED BY <2>4, <2>9, <2>10
<1>3. CASE ~(stage < 3)
  <2>1. stage = 3
    BY <1>3 DEF SolverInv, ControlInv
  <2>2. PICK cycle \in SUBSET ArcsOf(DOMAIN cost) :
            batch = <<cycle>> /\ IsOneWay(cycle) /\ IsCycle(cycle)
    BY <2>1 DEF SolverInv, BatchInv
  <2>3. CycleOf(Head(batch)) = cycle
    BY <2>1, <2>2 DEF CycleOf
  <2> QED BY <2>2, <2>3
<1> QED BY <1>2, <1>3

\* Corrections by integers keep the data.
LEMMA CorrectedStays ==
    ASSUME DataInv, NEW change, \A edge \in DOMAIN cost : change[edge] \in Int,
           CorrectBy(change), UNCHANGED input
    PROVE  DataInv'
<1>1. /\ DOMAIN delta' = DOMAIN cost /\ DOMAIN flow' = DOMAIN cost
      /\ \A edge \in DOMAIN cost :
             /\ delta'[edge] = delta[edge] + change[edge]
             /\ flow'[edge] = flow[edge] + FlowSign(edge) * change[edge]
  BY DEF DataInv, CorrectBy
<1>2. \A edge \in DOMAIN cost : delta'[edge] \in Int /\ flow'[edge] \in Int
  <2> TAKE edge \in DOMAIN cost
  <2>1. delta[edge] \in Int /\ flow[edge] \in Int /\ change[edge] \in Int
    BY DEF DataInv, AreFlows
  <2> QED BY <1>1, <2>1 DEF FlowSign
<1>3. cost' = cost
  BY DEF input
<1> QED BY <1>1, <1>2, <1>3 DEF DataInv, AreFlows

\* The invariant holds at the start.
LEMMA SolverStarts == Init => SolverInv
<1> SUFFICES ASSUME Init PROVE SolverInv
  OBVIOUS
<1>1. phase \in PhaseGrids /\ PresentEdges(phase) \in SUBSET Edges
  BY DecodedDeltaIsInt DEF Init
<1>2. PICK costs \in CostGrids : cost = [edge \in PresentEdges(phase) |-> costs[edge]]
  BY DEF Init
<1>3. AreCosts(cost) /\ DOMAIN cost = PresentEdges(phase)
  BY <1>1, <1>2, InputsAssumption DEF AreCosts, IsEdge
<1>4. DOMAIN delta = DOMAIN cost /\ AreFlows(delta, DOMAIN cost)
  BY <1>1, <1>3, DecodedDeltaIsInt DEF Init
<1>5. DOMAIN flow = DOMAIN cost /\ AreFlows(flow, DOMAIN cost)
  BY <1>3 DEF Init, AreFlows
<1>6. TreesInv
  <2>1. trees = <<{}, {}>>
    BY DEF Init
  <2>2. trees \in [1 .. 2 -> {{}}]
    BY <2>1
  <2>3. \A index \in 1 .. 2 : trees[index] = {}
    BY <2>2
  <2> QED BY <2>2, <2>3 DEF TreesInv, IsForest
<1>7. BatchInv
  BY DEF Init, BatchInv
<1>8. ControlInv
  BY OptimizerAssumption DEF Init, ControlInv
<1> QED BY <1>3, <1>4, <1>5, <1>6, <1>7, <1>8 DEF SolverInv, DataInv

\* Routing keeps it: the trees are built from the routed flows.
LEMMA RouteStays == SolverInv /\ Route => SolverInv'
<1> SUFFICES ASSUME SolverInv, Route PROVE SolverInv'
  OBVIOUS
<1>1. \A edge \in DOMAIN cost : InitialCorrections(cost, delta)[edge] \in Int
  <2>1. AreFlows(delta, DOMAIN delta)
    BY DEF SolverInv, DataInv
  <2> QED BY <2>1, CorrectionsAreInt
<1>2. DataInv'
  BY <1>1, CorrectedStays DEF SolverInv, Route
<1>3. cost' = cost
  BY DEF Route, input
<1>4. TreesInv'
  <2>1. AreCosts(cost) /\ AreFlows(flow', DOMAIN cost)
    BY <1>2, <1>3 DEF DataInv
  <2>2. trees' = InitialTrees(cost, flow')
    BY DEF Route
  <2> QED BY <1>3, <2>1, <2>2, InitialTreesAreForests DEF TreesInv
<1>5. BatchInv'
  BY DEF Route, SolverInv, BatchInv, inPass
<1>6. ControlInv'
  BY DEF Route, SolverInv, ControlInv, inPass
<1> QED BY <1>2, <1>4, <1>5, <1>6 DEF SolverInv

\* The candidates of a tree are arcs outside it, and the tree is one that
\* spans the graph when there are any.
LEMMA CandidatesAreOutside ==
    ASSUME SolverInv, stage < 3
    PROVE  /\ Candidates \in Seq(OutsideArcs)
           /\ Candidates # <<>> => applied < MaxCycles /\ IsSpanningTree(trees[stage])
<1>1. CASE applied >= MaxCycles \/ ~IsSpanningTree(trees[stage])
  BY <1>1 DEF Candidates
<1>2. CASE ~(applied >= MaxCycles \/ ~IsSpanningTree(trees[stage]))
  <2> DEFINE limit == Min({CandidateLimit, MaxCycles - applied})
  <2>1. stage \in 1 .. 2 /\ stage # 3
    BY DEF SolverInv, ControlInv
  <2>2. applied \in Int /\ MaxCycles \in Nat /\ applied < MaxCycles
    BY <1>2, OptimizerAssumption DEF SolverInv, ControlInv
  <2>3. CandidateLimit \in Nat /\ MaxCycles - applied \in Nat
    BY <2>2, OptimizerAssumption DEF CandidateLimit
  <2>4. limit \in Nat
    <3>1. \E x \in {CandidateLimit, MaxCycles - applied} :
              \A y \in {CandidateLimit, MaxCycles - applied} : x <= y
      BY <2>3
    <3>2. limit \in {CandidateLimit, MaxCycles - applied}
      BY <3>1 DEF Min
    <3> QED BY <2>3, <3>2
  <2>5. Candidates = NegativeArcs(cost, flow, nflow, trees[stage], limit)
    BY <1>2, <2>1 DEF Candidates
  <2>6. trees[stage] \in SUBSET ArcsOf(DOMAIN cost)
    BY <2>1 DEF SolverInv, TreesInv
  <2>7. nflow \in Nat \ {0} /\ AreCosts(cost) /\ AreFlows(flow, DOMAIN cost)
    BY DEF SolverInv, DataInv, ControlInv
  <2> HIDE DEF limit
  <2>8. Candidates \in Seq(ArcsOf(DOMAIN cost \ EdgesOf(trees[stage])))
    BY <2>4, <2>5, <2>6, <2>7, NegativeArcsAreOutside
  <2> QED BY <1>2, <2>2, <2>8 DEF OutsideArcs
<1> QED BY <1>1, <1>2

\* So do the selection of cycles of a tree, and leaving a tree.
LEMMA SelectTreeCyclesStays == SolverInv /\ SelectTreeCycles => SolverInv'
<1> SUFFICES ASSUME SolverInv, SelectTreeCycles PROVE SolverInv'
  OBVIOUS
<1>1. DataInv' /\ TreesInv'
  BY DEF SelectTreeCycles, SolverInv, DataInv, TreesInv, input, arrays
<1>2. batch' \in Seq(OutsideArcs) /\ batch' # <<>> /\ applied < MaxCycles
      /\ IsSpanningTree(trees[stage]) /\ stage < 3 /\ pivot = None
  BY CandidatesAreOutside DEF SelectTreeCycles, SolverInv, BatchInv
<1>3. OutsideArcs' = OutsideArcs
  BY DEF SelectTreeCycles, OutsideArcs, input
<1>4. BatchInv'
  <2>1. stage' = stage /\ pivot' = pivot /\ applied' = applied /\ trees' = trees
    BY DEF SelectTreeCycles
  <2>2. stage # 3
    BY <1>2 DEF SolverInv, ControlInv
  <2>3. pc' = "saturate"
    BY DEF SelectTreeCycles
  <2> QED BY <1>2, <1>3, <2>1, <2>2, <2>3 DEF BatchInv
<1>5. ControlInv'
  BY DEF SelectTreeCycles, SolverInv, ControlInv, control
<1> QED BY <1>1, <1>4, <1>5 DEF SolverInv

\* Going on to the next spanning tree, or to the negative cycles, keeps the invariant.
LEMMA LeaveTreeStays == SolverInv /\ LeaveTree => SolverInv'
<1> SUFFICES ASSUME SolverInv, LeaveTree PROVE SolverInv'
  OBVIOUS
<1>1. DataInv' /\ TreesInv'
  BY DEF LeaveTree, SolverInv, DataInv, TreesInv, input, arrays
<1>2. BatchInv'
  BY DEF LeaveTree, SolverInv, BatchInv
<1>3. ControlInv'
  BY DEF LeaveTree, NextTree, SolverInv, ControlInv, control
<1> QED BY <1>1, <1>2, <1>3 DEF SolverInv

\* So does an increment.
LEMMA PushStays == SolverInv /\ Push => SolverInv'
<1> SUFFICES ASSUME SolverInv, Push PROVE SolverInv'
  OBVIOUS
<1> DEFINE cycle == CycleOf(Head(batch))
           change == [edge \in DOMAIN delta |-> CorrectionOf(cycle, edge)]
<1>1. pc = "saturate" /\ CorrectBy(change) /\ UNCHANGED input
  BY DEF Push
<1>2. \A edge \in DOMAIN cost : change[edge] \in Int
  <2>1. nflow \in Int /\ DOMAIN delta = DOMAIN cost
    BY DEF SolverInv, ControlInv, DataInv
  <2> QED BY <2>1 DEF CorrectionOf, Correction
<1> HIDE DEF change
<1>3. DataInv'
  BY <1>1, <1>2, CorrectedStays DEF SolverInv
<1>4. TreesInv'
  BY DEF Push, SolverInv, TreesInv, input
<1>5. BatchInv'
  BY DEF Push, SolverInv, BatchInv, OutsideArcs, input
<1>6. ControlInv'
  BY DEF Push, SolverInv, ControlInv, control
<1> QED BY <1>3, <1>4, <1>5, <1>6 DEF SolverInv

\* A batch of several cycles has a rest.
LEMMA TailStays ==
    ASSUME NEW S, NEW seq \in Seq(S), seq # <<>>, Len(seq) # 1
    PROVE  Tail(seq) \in Seq(S) /\ Tail(seq) # <<>>
<1>1. Len(seq) \in Nat \ {0}
  BY EmptySeq
<1>2. Tail(seq) \in Seq(S) /\ Len(Tail(seq)) = Len(seq) - 1
  BY HeadTailProperties
<1>3. Len(Tail(seq)) # 0
  BY <1>1, <1>2
<1>4. Tail(seq) # <<>>
  BY <1>2, <1>3, EmptySeq
<1> QED BY <1>2, <1>4

\* So does the end of a cycle, with the pivot it may cause.
LEMMA EndOfCycleStays == SolverInv /\ EndOfCycle => SolverInv'
<1> SUFFICES ASSUME SolverInv, EndOfCycle PROVE SolverInv'
  OBVIOUS
<1> DEFINE count == applied + (IF pushes > 0 THEN 1 ELSE 0)
           first == IF pivot = None /\ pushes > 0 THEN Head(batch) ELSE pivot
           ends == \/ Len(batch) = 1
                   \/ pushes > 0 /\ (CandidateLimit = 1 \/ count = MaxCycles)
<1>1. /\ pc = "saturate" /\ applied' = count
      /\ IF ends THEN pc' = "pass" /\ batch' = <<>> /\ pivot' = None
         ELSE pc' = pc /\ batch' = Tail(batch) /\ pivot' = first
      /\ IF ends /\ stage < 3 /\ first # None
         THEN trees' = [trees EXCEPT ![stage] = Pivot(@, first)] ELSE trees' = trees
      /\ IF ends /\ stage < 3 /\ first = None
         THEN stage' = stage + 1 ELSE stage' = stage
      /\ pushes' = 0 /\ cost' = cost
      /\ UNCHANGED <<arrays, total, passes, control>>
  BY DEF EndOfCycle, NextTree, input
<1>2. /\ applied \in Nat /\ applied < MaxCycles /\ MaxCycles \in Nat /\ pushes \in Nat
      /\ stage \in 1 .. 3 /\ batch # <<>>
      /\ count \in Nat /\ count <= MaxCycles
      /\ pushes = 0 => count = applied
  BY <1>1, OptimizerAssumption DEF SolverInv, ControlInv, BatchInv
<1>3. ASSUME stage < 3
      PROVE  /\ batch \in Seq(OutsideArcs) /\ first \in OutsideArcs \cup {None}
             /\ stage \in 1 .. 2 /\ IsSpanningTree(trees[stage])
  BY <1>1, <1>2, <1>3 DEF SolverInv, BatchInv
<1>4. ASSUME ~(stage < 3) PROVE ends /\ stage = 3
  <2>1. stage = 3
    BY <1>2, <1>4
  <2>2. \E cycle : batch = <<cycle>>
    BY <1>1, <2>1 DEF SolverInv, BatchInv
  <2>3. Len(batch) = 1
    BY <2>2
  <2> QED BY <2>1, <2>3
<1>5. DataInv'
  BY <1>1 DEF SolverInv, DataInv, arrays
<1>6. TreesInv'
  <2>1. CASE ends /\ stage < 3 /\ first # None
    <3> DEFINE tree == trees[stage]
    <3>1. stage \in 1 .. 2 /\ first \in OutsideArcs /\ IsSpanningTree(tree)
      BY <1>3, <2>1
    <3> HIDE DEF first, ends, count
    <3>2. /\ tree \in SUBSET ArcsOf(DOMAIN cost) /\ IsForest(tree)
          /\ DOMAIN cost \in SUBSET Edges
      BY <3>1 DEF SolverInv, TreesInv, DataInv, AreCosts
    <3>3. first \in ArcsOf(DOMAIN cost \ EdgesOf(tree))
      BY <3>1 DEF OutsideArcs
    <3>4. first \in ArcsOf(Edges) /\ tree \in SUBSET ArcsOf(Edges)
      BY <3>2, <3>3 DEF ArcsOf
    <3>5. Ground \in Nodes /\ To[first] \in Nodes /\ From[first] \in Nodes
      BY <3>4, ArcEnds, GridSizes DEF Nodes
    <3>6. Joined(tree, Ground, To[first]) /\ Joined(tree, Ground, From[first])
      BY <3>1, <3>5 DEF IsSpanningTree
    <3>7. Joined(tree, To[first], From[first])
      BY <3>4, <3>5, <3>6, JoinedFacts
    <3>8. Pivot(tree, first) \in SUBSET ArcsOf(DOMAIN cost) /\ IsForest(Pivot(tree, first))
      BY <3>2, <3>3, <3>7, PivotIsForest
    <3>9. trees' = [trees EXCEPT ![stage] = Pivot(tree, first)] /\ cost' = cost
      BY <1>1, <2>1
    <3> QED BY <3>1, <3>8, <3>9 DEF SolverInv, TreesInv
  <2>2. CASE ~(ends /\ stage < 3 /\ first # None)
    <3>1. trees' = trees /\ cost' = cost
      BY <1>1, <2>2
    <3> QED BY <3>1 DEF SolverInv, TreesInv
  <2> QED BY <2>1, <2>2
<1>7. BatchInv'
  <2>1. CASE ends
    <3>1. pc' = "pass" /\ batch' = <<>> /\ pivot' = None
      BY <1>1, <2>1
    <3> QED BY <3>1 DEF BatchInv
  <2>2. CASE ~ends
    <3>1. stage < 3
      BY <1>4, <2>2
    <3>2. /\ pc' = "saturate" /\ batch' = Tail(batch) /\ pivot' = first /\ trees' = trees
          /\ stage' = stage /\ applied' = count /\ cost' = cost
      BY <1>1, <2>2
    <3>3. /\ batch \in Seq(OutsideArcs) /\ first \in OutsideArcs \cup {None}
          /\ IsSpanningTree(trees[stage]) /\ stage # 3
      BY <1>3, <3>1
    <3>4. OutsideArcs' = OutsideArcs
      BY <3>2 DEF OutsideArcs
    <3>5. count < MaxCycles
      BY <1>2, <2>2
    <3>6. Len(batch) # 1
      BY <2>2
    <3> HIDE DEF count, first, ends
    <3>7. Tail(batch) \in Seq(OutsideArcs) /\ Tail(batch) # <<>>
      <4>1. batch \in Seq(OutsideArcs) /\ batch # <<>>
        BY <1>2, <3>3
      <4> QED BY <3>6, <4>1, TailStays
    <3> QED BY <3>1, <3>2, <3>3, <3>4, <3>5, <3>7 DEF BatchInv
  <2> QED BY <2>1, <2>2
<1>8. ControlInv'
  <2>1. pc' \in {"pass", "saturate"} /\ stage' \in 1 .. 3 /\ applied' \in 0 .. MaxCycles
    <3>1. applied' \in 0 .. MaxCycles
      BY <1>1, <1>2
    <3>2. stage' \in 1 .. 3
      <4>1. stage' = stage \/ (stage < 3 /\ stage' = stage + 1)
        BY <1>1
      <4> HIDE DEF count, first, ends
      <4> QED BY <1>2, <4>1
    <3>3. pc' \in {"pass", "saturate"}
      BY <1>1
    <3> QED BY <3>1, <3>2, <3>3
  <2> HIDE DEF count, first, ends
  <2>2. pushes' = 0 /\ UNCHANGED <<total, passes, control>>
    BY <1>1
  <2> QED BY <2>1, <2>2 DEF SolverInv, ControlInv, control
<1> HIDE DEF count, first, ends
<1> QED BY <1>5, <1>6, <1>7, <1>8 DEF SolverInv

\* What the search ends with is a cycle of the graph or empty.
LEMMA SearchResultIsCycle ==
    ASSUME SolverInv
    PROVE  SearchResult \in SUBSET ArcsOf(DOMAIN cost) /\ IsCycle(SearchResult)
<1>1. nflow \in Nat \ {0} /\ AreCosts(cost) /\ AreFlows(flow, DOMAIN cost)
  BY DEF SolverInv, DataInv, ControlInv
<1>2. DOMAIN cost \in SUBSET Edges /\ ArcsOf(DOMAIN cost) \in SUBSET ArcsOf(Edges)
  BY <1>1 DEF AreCosts, ArcsOf
<1>3. IsFiniteSet(Nodes) /\ Ground \in Nodes
  BY GridSizes, FS_Interval DEF Nodes
<1>4. CASE applied >= MaxCycles \/ ~SomeTreeSpans \/ (windows = <<>> /\ ~IsSmall)
  BY <1>4 DEF SearchResult, IsCycle
<1>5. CASE /\ ~(applied >= MaxCycles \/ ~SomeTreeSpans \/ (windows = <<>> /\ ~IsSmall))
           /\ IsSmall
  <2>1. SearchResult = FoundCycle(cost, flow, nflow, AllArcs(cost), Cardinality(Nodes))
    BY <1>5 DEF SearchResult
  <2>2. AllArcs(cost) \in Seq(ArcsOf(DOMAIN cost))
    BY <1>1, AllArcsAreArcs
  <2>3. StartIn(ArcsOf(DOMAIN cost), Nodes) /\ Nodes # {}
    BY <1>2, <1>3, ArcEnds DEF StartIn
  <2> QED BY <1>1, <1>3, <2>1, <2>2, <2>3, FoundCycleIsCycle
<1>6. CASE /\ ~(applied >= MaxCycles \/ ~SomeTreeSpans \/ (windows = <<>> /\ ~IsSmall))
           /\ ~IsSmall
  <2> DEFINE window == Head(windows)
             inside == NodesIn(window) \cup {Ground}
             arcs == {arc \in ArcsOf(DOMAIN cost) : {From[arc], To[arc]} \subseteq inside}
  <2>1. SearchResult = FoundCycle(cost, flow, nflow, WindowArcs(cost, window),
                                  Cardinality(inside))
    BY <1>6 DEF SearchResult
  <2>2. WindowArcs(cost, window) \in Seq(arcs)
    BY <1>1, WindowArcsAreArcs
  <2>3. inside \in SUBSET Nodes /\ inside # {}
    BY <1>3 DEF NodesIn
  <2>4. StartIn(arcs, inside)
    BY DEF StartIn
  <2>5. arcs \in SUBSET ArcsOf(DOMAIN cost)
    OBVIOUS
  <2> HIDE DEF arcs, inside, window
  <2>6. IsFiniteSet(inside)
    BY <1>3, <2>3, FS_Subset
  <2> QED BY <1>1, <2>1, <2>2, <2>3, <2>4, <2>5, <2>6, FoundCycleIsCycle
<1> QED BY <1>4, <1>5, <1>6

\* So do the other actions.
LEMMA SelectFoundCycleStays == SolverInv /\ SelectFoundCycle => SolverInv'
<1> SUFFICES ASSUME SolverInv, SelectFoundCycle PROVE SolverInv'
  OBVIOUS
<1>1. DataInv' /\ TreesInv'
  BY DEF SelectFoundCycle, SolverInv, DataInv, TreesInv, input, arrays
<1>2. BatchInv'
  <2> DEFINE cycle == SearchResult
  <2>1. /\ IsSaturable(cycle) /\ batch' = <<cycle>> /\ pc' = "saturate" /\ stage = 3
        /\ stage' = stage /\ applied' = applied /\ cost' = cost
    BY DEF SelectFoundCycle, input
  <2>2. cycle \in SUBSET ArcsOf(DOMAIN cost) /\ IsCycle(cycle)
    BY SearchResultIsCycle
  <2>3. IsOneWay(cycle)
    <3>1. cycle \in SUBSET ArcsOf(Edges)
      BY <2>2 DEF SolverInv, DataInv, AreCosts, ArcsOf
    <3> QED BY <2>1, <3>1, SaturableIsOneWay
  <2>4. applied < MaxCycles
    <3>1. cycle # {}
      BY <2>1 DEF IsSaturable
    <3>2. ~(applied >= MaxCycles)
      BY <3>1 DEF SearchResult
    <3> QED BY <3>2, OptimizerAssumption DEF SolverInv, ControlInv
  <2> HIDE DEF cycle
  <2>5. batch' # <<>> /\ \E c \in SUBSET ArcsOf(DOMAIN cost) :
                             batch' = <<c>> /\ IsOneWay(c) /\ IsCycle(c)
    BY <2>1, <2>2, <2>3
  <2> QED BY <2>1, <2>4, <2>5 DEF BatchInv
<1>3. ControlInv'
  BY DEF SelectFoundCycle, SolverInv, ControlInv, control
<1> QED BY <1>1, <1>2, <1>3 DEF SolverInv

\* A window without a cycle to push changes no data: the next one is searched.
LEMMA NextWindowStays == SolverInv /\ NextWindow => SolverInv'
<1> SUFFICES ASSUME SolverInv, NextWindow PROVE SolverInv'
  OBVIOUS
<1>1. DataInv' /\ TreesInv'
  BY DEF NextWindow, SolverInv, DataInv, TreesInv, input, arrays
<1>2. BatchInv'
  BY DEF NextWindow, SolverInv, BatchInv
<1>3. ControlInv'
  BY DEF NextWindow, SolverInv, ControlInv, control
<1> QED BY <1>1, <1>2, <1>3 DEF SolverInv

\* The end of a pass over the windows keeps the invariant: the flow is not touched.
LEMMA EndOfPassStays == SolverInv /\ EndOfPass => SolverInv'
<1> SUFFICES ASSUME SolverInv, EndOfPass PROVE SolverInv'
  OBVIOUS
<1>1. DataInv' /\ TreesInv'
  BY DEF EndOfPass, SolverInv, DataInv, TreesInv, input, arrays
<1>2. pc = "pass" /\ pc' \in {"done", "check", "pass"} /\ batch' = batch /\ pivot' = pivot
  BY DEF EndOfPass
<1>3. BatchInv'
  BY <1>2 DEF SolverInv, BatchInv
<1>4. ControlInv'
  <2>1. /\ applied \in Nat /\ total \in Nat /\ passes \in Nat
        /\ applied' = 0 /\ total' = total + applied /\ stage' = 1
        /\ UNCHANGED <<pushes, control>>
    BY DEF EndOfPass, SolverInv, ControlInv
  <2>2. passes' \in Nat
    BY <2>1 DEF EndOfPass
  <2>3. 0 \in 0 .. MaxCycles
    BY OptimizerAssumption
  <2> QED BY <1>2, <2>1, <2>2, <2>3 DEF SolverInv, ControlInv, control
<1> QED BY <1>1, <1>3, <1>4 DEF SolverInv

\* Comparing the objective with the one before, and so the next phase, keeps the invariant.
LEMMA CheckObjectiveStays == SolverInv /\ CheckObjective => SolverInv'
<1> SUFFICES ASSUME SolverInv, CheckObjective PROVE SolverInv'
  OBVIOUS
<1>1. DataInv' /\ TreesInv'
  BY DEF CheckObjective, SolverInv, DataInv, TreesInv, input, arrays
<1>2. pc = "check" /\ pc' \in {"done", "pass"} /\ batch' = batch /\ pivot' = pivot
  BY DEF CheckObjective, inPass
<1>3. BatchInv'
  BY <1>2 DEF SolverInv, BatchInv
<1>4. ControlInv'
  <2>1. nflow' \in 1 .. MaxFlow
    BY NextFlowIncrementIsIn DEF CheckObjective, SolverInv, ControlInv
  <2>2. nflowDone' \in Nat /\ nondecreasing' \in Nat /\ total' = 0
    BY DEF CheckObjective, SolverInv, ControlInv
  <2>3. UNCHANGED <<stage, applied, pushes, passes>>
    BY DEF CheckObjective, inPass
  <2> QED BY <1>2, <2>1, <2>2, <2>3 DEF SolverInv, ControlInv
<1> QED BY <1>1, <1>3, <1>4 DEF SolverInv

\* The invariant of the solve.
THEOREM SolverInvariant == Spec => []SolverInv
<1>1. Init => SolverInv
  BY SolverStarts
<1>2. SolverInv /\ [Next]_vars => SolverInv'
  <2> SUFFICES ASSUME SolverInv, [Next]_vars PROVE SolverInv'
    OBVIOUS
  <2>1. CASE UNCHANGED vars
    BY <2>1 DEF SolverInv, DataInv, TreesInv, BatchInv, OutsideArcs, ControlInv,
                vars, input, arrays, inPass, control
  <2>2. CASE Finished
    BY <2>1, <2>2 DEF Finished
  <2> QED BY <2>1, <2>2, RouteStays, SelectTreeCyclesStays, LeaveTreeStays, PushStays,
             EndOfCycleStays, SelectFoundCycleStays, NextWindowStays, EndOfPassStays,
             CheckObjectiveStays DEF Next
<1> QED BY <1>1, <1>2, PTL DEF Spec

\* Every variable has its type.
THEOREM TypeCorrect == Spec => []TypeOK
<1>1. SolverInv => TypeOK
  BY DEF SolverInv, DataInv, BatchInv, ControlInv, AreFlows, TypeOK
<1> QED BY <1>1, SolverInvariant, PTL

\* A tree that spans the graph does so after every pivot.
THEOREM TreesSpan == Spec => []TreesKeepSpanning
<1>1. SolverInv => TreesKeepSpanning
  <2> SUFFICES ASSUME SolverInv, NEW index \in 1 .. 2,
                      Cardinality(trees[index]) + 1 = Cardinality(Nodes)
               PROVE  IsSpanningTree(trees[index])
    BY DEF TreesKeepSpanning
  <2>1. trees[index] \in SUBSET ArcsOf(Edges) /\ IsForest(trees[index])
    BY DEF SolverInv, TreesInv, DataInv, AreCosts, ArcsOf
  <2> QED BY <2>1, ForestSpans
<1> QED BY <1>1, SolverInvariant, PTL

\* Every increment of every cycle lowers the potential of its phase.
THEOREM PushesLowerPotential == Spec => PushLowersPotential
<1>1. SolverInv /\ [Next]_vars
        => [arrays' # arrays /\ pc = "saturate" => Potential' < Potential]_vars
  <2> SUFFICES ASSUME SolverInv, Next, arrays' # arrays, pc = "saturate"
               PROVE  Potential' < Potential
    OBVIOUS
  <2>1. Push
    BY DEF Next, Route, SelectTreeCycles, LeaveTree, EndOfCycle, SelectFoundCycle,
           NextWindow, EndOfPass, CheckObjective, Finished, vars
  <2> DEFINE cycle == CycleOf(Head(batch))
  <2>2. /\ CycleCost(cost, flow, nflow, cycle) < 0
        /\ CorrectBy([edge \in DOMAIN delta |-> CorrectionOf(cycle, edge)])
        /\ cost' = cost /\ nflow' = nflow
    BY <2>1 DEF Push, input, control
  <2>3. cycle \in SUBSET ArcsOf(DOMAIN cost) /\ IsOneWay(cycle)
    BY SaturatedIsCycle
  <2>4. /\ AreCosts(cost) /\ AreFlows(flow, DOMAIN cost) /\ nflow \in Nat \ {0}
        /\ DOMAIN flow = DOMAIN cost /\ DOMAIN delta = DOMAIN cost
    BY DEF SolverInv, DataInv, ControlInv
  <2> HIDE DEF cycle
  <2>5. \A edge \in DOMAIN cost :
            flow'[edge] = flow[edge] + FlowSign(edge) * CorrectionOf(cycle, edge)
    BY <2>2, <2>4 DEF CorrectBy
  <2>6. PotentialOf(cost, flow', nflow)
          = PotentialOf(cost, flow, nflow) + CycleCost(cost, flow, nflow, cycle)
    BY <2>3, <2>4, <2>5, CycleRaisesPotential
  <2>7. Potential = PotentialOf(cost, flow, nflow) /\ Potential' = PotentialOf(cost, flow', nflow)
    BY <2>2 DEF Potential, PotentialOf, MapThenSumSet, MapThenFoldSet
  <2>8. PotentialOf(cost, flow, nflow) \in Int
    <3>1. \A edge \in DOMAIN cost : Potentials(cost, flow, nflow)[edge] \in Int
      BY <2>4, PotentialOfIsSum
    <3> DEFINE g == Potentials(cost, flow, nflow)
    <3>2. PotentialOf(cost, flow, nflow) = SumOver(g, DOMAIN cost) /\ IsFiniteSet(DOMAIN cost)
      BY <2>4, PotentialOfIsSum
    <3> HIDE DEF g
    <3>3. SumOver(g, DOMAIN cost) \in Int
      BY <3>1, <3>2, SumStep DEF g
    <3> QED BY <3>2, <3>3
  <2>9. CycleCost(cost, flow, nflow, cycle) \in Int
    <3>1. IsFiniteSet(cycle)
      <4>1. cycle \in SUBSET ArcsOf(Edges)
        BY <2>3, <2>4 DEF AreCosts, ArcsOf
      <4> QED BY <4>1, EdgesAreFinite, FS_Subset
    <3>2. \A arc \in cycle : ArcCost(cost, flow, nflow, arc) \in Int
      BY <2>3, <2>4, ArcRaisesPotential
    <3> QED BY <3>1, <3>2, CycleCostIsSum
  <2> QED BY <2>2, <2>6, <2>7, <2>8, <2>9
<1> QED BY <1>1, SolverInvariant, PTL DEF Spec, PushLowersPotential

-----------------------------------------------------------------------------
(* The residues: what a cycle and what the first routing does to them.      *)

\* Where two functions add up to a third one, so do their sums.
LEMMA SumPlus ==
    ASSUME NEW S, IsFiniteSet(S), NEW g, \A x \in S : g[x] \in Int,
           NEW h, \A x \in S : h[x] \in Int, NEW both, \A x \in S : both[x] = g[x] + h[x]
    PROVE  SumOver(both, S) = SumOver(g, S) + SumOver(h, S)
<1> DEFINE at == [x \in S |-> x]
<1>1. /\ \A c \in S : at[c] \in S
      /\ \A c, d \in S : at[c] = at[d] => c = d
      /\ \A c \in S : both[at[c]] = g[at[c]] + h[c]
      /\ \A x \in S : (\A c \in S : at[c] # x) => both[x] = g[x]
  OBVIOUS
<1> HIDE DEF at
<1> QED BY <1>1, SumGains

\* The sum of zeros.
LEMMA SumZero ==
    ASSUME NEW S, IsFiniteSet(S), NEW zero, \A x \in S : zero[x] = 0
    PROVE  SumOver(zero, S) = 0
<1>1. \A x \in S : zero[x] \in Int /\ zero[x] = zero[x] + zero[x]
  OBVIOUS
<1>2. SumOver(zero, S) = SumOver(zero, S) + SumOver(zero, S)
  BY <1>1, SumPlus
<1>3. SumOver(zero, S) \in Int
  BY <1>1, SumStep
<1> DEFINE sum == SumOver(zero, S)
<1>4. sum = sum + sum /\ sum \in Int
  BY <1>2, <1>3
<1> HIDE DEF sum
<1>5. sum = 0
  BY <1>4
<1> QED BY <1>5 DEF sum

\* The sum over a part of a set.
LEMMA SumWithin ==
    ASSUME NEW S, IsFiniteSet(S), NEW T \in SUBSET S, NEW g, \A x \in T : g[x] \in Int,
           NEW part, \A x \in S : part[x] = IF x \in T THEN g[x] ELSE 0
    PROVE  SumOver(part, S) = SumOver(g, T)
<1> DEFINE at == [x \in T |-> x]
           zero == [x \in S |-> 0]
<1>1. /\ \A c \in T : at[c] \in S
      /\ \A c, d \in T : at[c] = at[d] => c = d
      /\ \A c \in T : part[at[c]] = zero[at[c]] + g[c]
      /\ \A x \in S : (\A c \in T : at[c] # x) => part[x] = zero[x]
  OBVIOUS
<1>2. \A x \in S : zero[x] = 0 /\ zero[x] \in Int
  OBVIOUS
<1>3. IsFiniteSet(T)
  BY FS_Subset
<1> HIDE DEF at, zero
<1>4. SumOver(part, S) = SumOver(zero, S) + SumOver(g, T)
  BY <1>1, <1>2, <1>3, SumGains
<1>5. SumOver(zero, S) = 0 /\ SumOver(g, T) \in Int
  BY <1>2, <1>3, SumZero, SumStep
<1> QED BY <1>4, <1>5

\* A plaquette is the second node of the edges above it and to its right, the
\* first one of the edges below it and to its left, and of no others.
LEMMA EdgesOfPlaquette ==
    ASSUME NEW v \in Nodes \ {Ground}
    PROVE  /\ EdgesAround(v) \subseteq Edges
           /\ \A edge \in Edges : NodesOf(edge)[2] = v <=> edge = Top(v) \/ edge = Right(v)
           /\ \A edge \in Edges : NodesOf(edge)[1] = v <=> edge = Bottom(v) \/ edge = Left(v)
           /\ Top(v) # Right(v) /\ Bottom(v) # Left(v)
           /\ Top(v) \in Nat /\ Right(v) \in Nat /\ Bottom(v) \in Nat /\ Left(v) \in Nat
<1> DEFINE row == v \div PCol
           col == v % PCol
<1>1. v \in Nat /\ v < Ground /\ PCol \in Nat \ {0} /\ PRow \in Nat \ {0}
  BY GridSizes DEF Nodes
<1>2. row \in Nat /\ col \in 0 .. PCol - 1 /\ v = PCol * row + col
  BY <1>1
<1>3. Left(v) = HorizontalEdges + row * NCol + col /\ Right(v) = Left(v) + 1
  BY DEF Left, Right
<1> HIDE DEF row, col
<1>4. row <= PRow - 1
  <2>1. SUFFICES ASSUME row >= PRow PROVE FALSE
    BY <1>1, <1>2
  <2>2. PCol * row >= PCol * PRow
    BY <1>1, <1>2, <2>1
  <2>3. PCol * PRow = Ground /\ PCol * row \in Nat
    BY <1>1, <1>2, GridSizes
  <2> QED BY <1>1, <1>2, <2>2, <2>3
<1>5. HorizontalEdges = Ground + PCol /\ NCol = PCol + 1 /\ NCol \in Nat \ {0}
  BY GridSizes DEF HorizontalEdges
<1>14. NCol \in Nat \ {0} /\ PCol \in Nat \ {0} /\ row \in Int
  BY <1>1, <1>2, <1>5
<1> DEFINE left == row * NCol + col
<1>6. left \in Nat /\ left + 1 <= PRow * NCol - 1 /\ PRow * NCol \in Nat
  <2>1. (row + 1) * NCol <= PRow * NCol
    BY <1>1, <1>2, <1>4, <1>5
  <2>2. (row + 1) * NCol = row * NCol + NCol /\ row * NCol \in Nat /\ PRow * NCol \in Nat
    BY <1>1, <1>2, <1>5
  <2> DEFINE first == row * NCol
             all == PRow * NCol
             next == (row + 1) * NCol
  <2>3. next <= all /\ next = first + NCol /\ first \in Nat /\ all \in Nat /\ left = first + col
    BY <2>1, <2>2
  <2> HIDE DEF first, all, next, left
  <2> QED BY <1>1, <1>2, <1>5, <2>3 DEF all
<1>7. left \div NCol = row /\ left % NCol = col
  <2>1. col \in 0 .. NCol - 1
    BY <1>1, <1>2, <1>5
  <2>2. (row * NCol + col) \div NCol = row /\ (row * NCol + col) % NCol = col
    BY <1>14, <2>1, DivisionIsUnique
  <2> QED BY <2>2
<1>8. (left + 1) \div NCol = row /\ (left + 1) % NCol = col + 1
  <2>1. col + 1 \in 0 .. NCol - 1
    BY <1>1, <1>2, <1>5
  <2>2. (row * NCol + (col + 1)) \div NCol = row /\ (row * NCol + (col + 1)) % NCol = col + 1
    BY <1>14, <2>1, DivisionIsUnique
  <2>3. left + 1 = row * NCol + (col + 1)
    BY <1>1, <1>2, <1>5
  <2> QED BY <2>2, <2>3
<1>9. Left(v) = HorizontalEdges + left /\ Right(v) = HorizontalEdges + (left + 1)
  BY <1>2, <1>3, <1>5, GridSizes
<1> HIDE DEF left
<1>10. /\ Top(v) = v /\ Bottom(v) = v + PCol
       /\ Top(v) < HorizontalEdges /\ Bottom(v) < HorizontalEdges
       /\ Top(v) \in Nat /\ Bottom(v) \in Nat
  BY <1>1, <1>5, GridSizes DEF Top, Bottom
<1>11. EdgesAround(v) \subseteq Edges
  <2>1. Edges = 0 .. HorizontalEdges + PRow * NCol - 1 /\ HorizontalEdges \in Nat
    BY GridSizes DEF Edges
  <2> DEFINE all == PRow * NCol
  <2>2. all \in Nat /\ left + 1 <= all - 1 /\ Edges = 0 .. HorizontalEdges + all - 1
    BY <1>6, <2>1
  <2> HIDE DEF all
  <2>3. Top(v) \in Edges /\ Bottom(v) \in Edges /\ Left(v) \in Edges /\ Right(v) \in Edges
    BY <1>6, <1>9, <1>10, <2>1, <2>2
  <2> QED BY <2>3 DEF EdgesAround
<1>12. ASSUME NEW edge \in Edges
       PROVE  /\ NodesOf(edge)[2] = v <=> edge = Top(v) \/ edge = Right(v)
              /\ NodesOf(edge)[1] = v <=> edge = Bottom(v) \/ edge = Left(v)
  <2>1. edge \in Nat /\ Ground \in Nat /\ HorizontalEdges \in Nat
    BY EdgesAreFinite, GridSizes
  <2>2. CASE IsHorizontal(edge)
    <3>1. edge < HorizontalEdges
      BY <2>2 DEF IsHorizontal
    <3>2. NodesOf(edge) = <<IF edge < PCol THEN Ground ELSE edge - PCol,
                            IF edge >= Ground THEN Ground ELSE edge>>
      BY <2>2, GridSizes DEF NodesOf
    <3>3. Left(v) >= HorizontalEdges /\ Right(v) >= HorizontalEdges
      BY <1>6, <1>9, <2>1
    <3> QED BY <1>1, <1>5, <1>10, <2>1, <3>1, <3>2, <3>3
  <2>3. CASE ~IsHorizontal(edge)
    <3> DEFINE w == edge - HorizontalEdges
               r == w \div NCol
               c == w % NCol
    <3>1. w \in Nat /\ edge = HorizontalEdges + w
      BY <2>1, <2>3 DEF IsHorizontal
    <3>2. NodesOf(edge) = <<IF c = PCol THEN Ground ELSE r * PCol + c,
                            IF c = 0 THEN Ground ELSE r * PCol + c - 1>>
      BY <2>3 DEF NodesOf
    <3> HIDE DEF w
    <3>3. r \in Nat /\ c \in 0 .. NCol - 1 /\ w = NCol * r + c
      BY <1>14, <3>1
    <3>4. edge # Top(v) /\ edge # Bottom(v)
      BY <1>10, <2>1, <3>1
    <3>5. (edge = Left(v) <=> w = left) /\ (edge = Right(v) <=> w = left + 1)
      BY <1>6, <1>9, <2>1, <3>1
    <3>6. w = left => r = row /\ c = col
      BY <1>7
    <3>7. w = left + 1 => r = row /\ c = col + 1
      BY <1>8
    <3> HIDE DEF r, c
    <3>8. ASSUME c # PCol, r * PCol + c = v PROVE w = left
      <4>1. c \in 0 .. PCol - 1
        BY <1>1, <1>5, <3>3, <3>8
      <4>4. (r * PCol + c) \div PCol = r /\ (r * PCol + c) % PCol = c
        BY <1>14, <3>3, <4>1, DivisionIsUnique
      <4>2. v \div PCol = r /\ v % PCol = c
        BY <3>8, <4>4
      <4>3. r = row /\ c = col
        BY <4>2 DEF row, col
      <4> QED BY <1>2, <1>5, <3>3, <4>3 DEF left
    <3>9. ASSUME c # 0, r * PCol + c - 1 = v PROVE w = left + 1
      <4>1. c - 1 \in 0 .. PCol - 1 /\ r * PCol \in Nat
        BY <1>1, <1>5, <3>3, <3>9
      <4>2. r * PCol + (c - 1) = v
        BY <3>3, <3>9, <4>1
      <4> DEFINE k == c - 1
      <4> HIDE DEF k
      <4>5. k \in 0 .. PCol - 1
        BY <4>1 DEF k
      <4>6. (r * PCol + k) \div PCol = r /\ (r * PCol + k) % PCol = k
        BY <1>14, <3>3, <4>5, DivisionIsUnique
      <4>3. v \div PCol = r /\ v % PCol = c - 1
        BY <4>2, <4>6 DEF k
      <4>7. r = row /\ c = col + 1
        BY <3>3, <4>3 DEF row, col
      <4>8. row * NCol \in Nat /\ NCol * row = row * NCol
        BY <1>1, <1>2, <1>5
      <4> QED BY <1>2, <3>3, <4>7, <4>8 DEF left
    <3>10. w = left => c # PCol /\ r * PCol + c = v
      <4>1. row * PCol = PCol * row /\ col # PCol
        BY <1>1, <1>2
      <4> QED BY <1>2, <3>6, <4>1
    <3>11. w = left + 1 => c # 0 /\ r * PCol + c - 1 = v
      <4>1. row * PCol = PCol * row /\ row * PCol \in Nat /\ col + 1 # 0
        BY <1>1, <1>2
      <4>2. row * PCol + (col + 1) - 1 = v
        BY <1>2, <4>1
      <4> QED BY <3>7, <4>1, <4>2
    <3>12. NodesOf(edge)[1] = v <=> w = left
      BY <1>1, <3>2, <3>8, <3>10
    <3>13. NodesOf(edge)[2] = v <=> w = left + 1
      BY <1>1, <3>2, <3>9, <3>11
    <3> QED BY <3>4, <3>5, <3>12, <3>13
  <2> QED BY <2>2, <2>3
<1>13. Top(v) # Right(v) /\ Bottom(v) # Left(v) /\ Right(v) \in Nat /\ Left(v) \in Nat
  BY <1>6, <1>9, <1>10, GridSizes
<1> QED BY <1>10, <1>11, <1>12, <1>13

\* The arcs into a plaquette and those out of it.
IntoArcs(v) == <<2 * Top(v), 2 * Right(v), 2 * Bottom(v) + 1, 2 * Left(v) + 1>>
OutArcs(v) == <<2 * Top(v) + 1, 2 * Right(v) + 1, 2 * Bottom(v), 2 * Left(v)>>

\* An arc leads into a plaquette, or out of it, if it is one of these four.
LEMMA ArcsOfPlaquette ==
    ASSUME NEW v \in Nodes \ {Ground}, NEW arc \in ArcsOf(Edges)
    PROVE  /\ To[arc] = v <=> \E i \in 1 .. 4 : arc = IntoArcs(v)[i]
           /\ From[arc] = v <=> \E i \in 1 .. 4 : arc = OutArcs(v)[i]
<1> DEFINE edge == EdgeOf(arc)
<1>1. /\ edge \in Edges /\ edge \in Nat
      /\ IF IsReverse(arc) THEN arc = 2 * edge + 1 ELSE arc = 2 * edge
  BY ArcFacts
<1>2. /\ From[arc] = NodesOf(edge)[IF IsReverse(arc) THEN 2 ELSE 1]
      /\ To[arc] = NodesOf(edge)[IF IsReverse(arc) THEN 1 ELSE 2]
  BY DEF From, To
<1>3. /\ NodesOf(edge)[2] = v <=> edge = Top(v) \/ edge = Right(v)
      /\ NodesOf(edge)[1] = v <=> edge = Bottom(v) \/ edge = Left(v)
      /\ Top(v) \in Nat /\ Right(v) \in Nat /\ Bottom(v) \in Nat /\ Left(v) \in Nat
  BY <1>1, EdgesOfPlaquette
<1>4. /\ (\E i \in 1 .. 4 : arc = IntoArcs(v)[i])
          <=> \/ arc = 2 * Top(v) \/ arc = 2 * Right(v)
              \/ arc = 2 * Bottom(v) + 1 \/ arc = 2 * Left(v) + 1
      /\ (\E i \in 1 .. 4 : arc = OutArcs(v)[i])
          <=> \/ arc = 2 * Top(v) + 1 \/ arc = 2 * Right(v) + 1
              \/ arc = 2 * Bottom(v) \/ arc = 2 * Left(v)
  BY DEF IntoArcs, OutArcs
<1> HIDE DEF edge
<1>5. CASE IsReverse(arc)
  <2>1. arc = 2 * edge + 1 /\ From[arc] = NodesOf(edge)[2] /\ To[arc] = NodesOf(edge)[1]
    BY <1>1, <1>2, <1>5
  <2> QED BY <1>1, <1>3, <1>4, <2>1
<1>6. CASE ~IsReverse(arc)
  <2>1. arc = 2 * edge /\ From[arc] = NodesOf(edge)[1] /\ To[arc] = NodesOf(edge)[2]
    BY <1>1, <1>2, <1>6
  <2> QED BY <1>1, <1>3, <1>4, <2>1
<1> QED BY <1>5, <1>6

\* What a set of arcs, each with the same amount on it, takes into a plaquette
\* and out of it.
On(arcs, arc, amount) == IF arc \in arcs THEN amount ELSE 0
Inflow(arcs, v, amount) ==
    On(arcs, IntoArcs(v)[1], amount) + On(arcs, IntoArcs(v)[2], amount)
    + On(arcs, IntoArcs(v)[3], amount) + On(arcs, IntoArcs(v)[4], amount)
Outflow(arcs, v, amount) ==
    On(arcs, OutArcs(v)[1], amount) + On(arcs, OutArcs(v)[2], amount)
    + On(arcs, OutArcs(v)[3], amount) + On(arcs, OutArcs(v)[4], amount)

\* It is the amount if one arc leads there, and nothing if none does.
LEMMA Inflows ==
    ASSUME NEW v \in Nodes \ {Ground}, NEW arcs \in SUBSET ArcsOf(Edges), NEW amount \in Int
    PROVE  /\ (\A arc \in arcs : To[arc] # v) => Inflow(arcs, v, amount) = 0
           /\ (\E in \in arcs : To[in] = v /\ \A arc \in arcs : To[arc] = v => arc = in)
                 => Inflow(arcs, v, amount) = amount
<1>1. \A arc \in arcs : To[arc] = v <=> \E i \in 1 .. 4 : arc = IntoArcs(v)[i]
  BY ArcsOfPlaquette
<1>2. \A i, j \in 1 .. 4 : IntoArcs(v)[i] = IntoArcs(v)[j] => i = j
  <2>1. /\ Top(v) \in Nat /\ Right(v) \in Nat /\ Bottom(v) \in Nat /\ Left(v) \in Nat
        /\ Top(v) # Right(v) /\ Bottom(v) # Left(v)
    BY EdgesOfPlaquette
  <2> QED BY <2>1 DEF IntoArcs
<1>3. ASSUME \A arc \in arcs : To[arc] # v PROVE Inflow(arcs, v, amount) = 0
  <2>1. \A i \in 1 .. 4 : IntoArcs(v)[i] \notin arcs
    BY <1>1, <1>3
  <2> QED BY <2>1 DEF Inflow, On
<1>4. ASSUME NEW in \in arcs, To[in] = v, \A arc \in arcs : To[arc] = v => arc = in
      PROVE  Inflow(arcs, v, amount) = amount
  <2>1. PICK k \in 1 .. 4 : in = IntoArcs(v)[k]
    BY <1>1, <1>4
  <2>2. \A i \in 1 .. 4 : IntoArcs(v)[i] \in arcs <=> i = k
    BY <1>1, <1>2, <1>4, <2>1
  <2>3. \A i \in 1 .. 4 : On(arcs, IntoArcs(v)[i], amount) = IF i = k THEN amount ELSE 0
    BY <2>2 DEF On
  <2> QED BY <2>3 DEF Inflow
<1> QED BY <1>3, <1>4

\* And likewise of the arcs that lead away.
LEMMA Outflows ==
    ASSUME NEW v \in Nodes \ {Ground}, NEW arcs \in SUBSET ArcsOf(Edges), NEW amount \in Int
    PROVE  /\ (\A arc \in arcs : From[arc] # v) => Outflow(arcs, v, amount) = 0
           /\ (\E out \in arcs : From[out] = v /\ \A arc \in arcs : From[arc] = v => arc = out)
                 => Outflow(arcs, v, amount) = amount
<1>1. \A arc \in arcs : From[arc] = v <=> \E i \in 1 .. 4 : arc = OutArcs(v)[i]
  BY ArcsOfPlaquette
<1>2. \A i, j \in 1 .. 4 : OutArcs(v)[i] = OutArcs(v)[j] => i = j
  <2>1. /\ Top(v) \in Nat /\ Right(v) \in Nat /\ Bottom(v) \in Nat /\ Left(v) \in Nat
        /\ Top(v) # Right(v) /\ Bottom(v) # Left(v)
    BY EdgesOfPlaquette
  <2> QED BY <2>1 DEF OutArcs
<1>3. ASSUME \A arc \in arcs : From[arc] # v PROVE Outflow(arcs, v, amount) = 0
  <2>1. \A i \in 1 .. 4 : OutArcs(v)[i] \notin arcs
    BY <1>1, <1>3
  <2> QED BY <2>1 DEF Outflow, On
<1>4. ASSUME NEW out \in arcs, From[out] = v, \A arc \in arcs : From[arc] = v => arc = out
      PROVE  Outflow(arcs, v, amount) = amount
  <2>1. PICK k \in 1 .. 4 : out = OutArcs(v)[k]
    BY <1>1, <1>4
  <2>2. \A i \in 1 .. 4 : OutArcs(v)[i] \in arcs <=> i = k
    BY <1>1, <1>2, <1>4, <2>1
  <2>3. \A i \in 1 .. 4 : On(arcs, OutArcs(v)[i], amount) = IF i = k THEN amount ELSE 0
    BY <2>2 DEF On
  <2> QED BY <2>3 DEF Outflow
<1> QED BY <1>3, <1>4

\* A cycle takes as much into a plaquette as out of it, so that its correction
\* leaves every residue as it was.
LEMMA CycleKeepsResidue ==
    ASSUME NEW D \in SUBSET Edges, NEW arcs \in SUBSET ArcsOf(D), IsOneWay(arcs), IsCycle(arcs),
           nflow \in Nat \ {0}, NEW before, DOMAIN before = D, AreFlows(before, D),
           NEW after, DOMAIN after = D,
           \A edge \in D : after[edge] = before[edge] + CorrectionOf(arcs, edge),
           NEW v \in Nodes \ {Ground}
    PROVE  Residue(after, v) = Residue(before, v)
<1>1. SUFFICES ASSUME EdgesAround(v) \subseteq D PROVE Residue(after, v) = Residue(before, v)
  BY DEF Residue
<1>2. arcs \in SUBSET ArcsOf(Edges)
  BY DEF ArcsOf
<1>3. ASSUME NEW edge \in EdgesAround(v)
      PROVE  /\ CorrectionOf(arcs, edge) = On(arcs, 2 * edge, nflow) - On(arcs, 2 * edge + 1, nflow)
             /\ On(arcs, 2 * edge, nflow) \in Int /\ On(arcs, 2 * edge + 1, nflow) \in Int
             /\ after[edge] = before[edge] + CorrectionOf(arcs, edge) /\ before[edge] \in Int
  <2>1. edge \in D /\ edge \in Nat
    BY <1>1, EdgesAreFinite
  <2>2. 2 * edge \in arcs /\ 2 * edge + 1 \in arcs => FALSE
    <3>1. EdgeOf(2 * edge) = edge /\ EdgeOf(2 * edge + 1) = edge
      BY <2>1 DEF EdgeOf
    <3> QED BY <2>1, <3>1 DEF IsOneWay
  <2>3. Correction(2 * edge, nflow) = nflow /\ Correction(2 * edge + 1, nflow) = -nflow
    BY <2>1 DEF Correction, IsReverse
  <2> QED BY <2>1, <2>2, <2>3 DEF CorrectionOf, On, AreFlows
<1>4. Inflow(arcs, v, nflow) = Outflow(arcs, v, nflow)
  <2>1. v \in Nodes
    OBVIOUS
  <2>2. CASE \A arc \in arcs : From[arc] # v /\ To[arc] # v
    BY <1>2, <2>2, Inflows, Outflows
  <2>3. CASE \E in, out \in arcs : /\ {arc \in arcs : To[arc] = v} = {in}
                                   /\ {arc \in arcs : From[arc] = v} = {out}
    <3>1. PICK in \in arcs, out \in arcs : /\ {arc \in arcs : To[arc] = v} = {in}
                                           /\ {arc \in arcs : From[arc] = v} = {out}
      BY <2>3
    <3>2. To[in] = v /\ \A arc \in arcs : To[arc] = v => arc = in
      BY <3>1
    <3>3. From[out] = v /\ \A arc \in arcs : From[arc] = v => arc = out
      BY <3>1
    <3>4. Inflow(arcs, v, nflow) = nflow
      BY <1>2, <3>2, Inflows
    <3>5. Outflow(arcs, v, nflow) = nflow
      BY <1>2, <3>3, Outflows
    <3> QED BY <3>4, <3>5
  <2> QED BY <2>1, <2>2, <2>3 DEF IsCycle
<1>5. /\ Top(v) \in EdgesAround(v) /\ Right(v) \in EdgesAround(v)
      /\ Bottom(v) \in EdgesAround(v) /\ Left(v) \in EdgesAround(v)
  BY DEF EdgesAround
<1>6. Residue(after, v) = after[Top(v)] + after[Right(v)] - after[Bottom(v)] - after[Left(v)]
  BY <1>1 DEF Residue
<1>7. Residue(before, v)
        = before[Top(v)] + before[Right(v)] - before[Bottom(v)] - before[Left(v)]
  BY <1>1 DEF Residue
<1>8. /\ Inflow(arcs, v, nflow)
           = On(arcs, 2 * Top(v), nflow) + On(arcs, 2 * Right(v), nflow)
             + On(arcs, 2 * Bottom(v) + 1, nflow) + On(arcs, 2 * Left(v) + 1, nflow)
      /\ Outflow(arcs, v, nflow)
           = On(arcs, 2 * Top(v) + 1, nflow) + On(arcs, 2 * Right(v) + 1, nflow)
             + On(arcs, 2 * Bottom(v), nflow) + On(arcs, 2 * Left(v), nflow)
  BY DEF Inflow, Outflow, IntoArcs, OutArcs
<1>9. ASSUME NEW edge \in EdgesAround(v)
      PROVE  /\ after[edge]
                  = before[edge] + On(arcs, 2 * edge, nflow) - On(arcs, 2 * edge + 1, nflow)
             /\ before[edge] \in Int
             /\ On(arcs, 2 * edge, nflow) \in Int /\ On(arcs, 2 * edge + 1, nflow) \in Int
  BY <1>3
<1> DEFINE Forth(edge) == On(arcs, 2 * edge, nflow)
           Back(edge) == On(arcs, 2 * edge + 1, nflow)
<1>10. \A edge \in EdgesAround(v) :
           /\ after[edge] = before[edge] + Forth(edge) - Back(edge)
           /\ before[edge] \in Int /\ Forth(edge) \in Int /\ Back(edge) \in Int
  BY <1>9
<1>11. Forth(Top(v)) + Forth(Right(v)) + Back(Bottom(v)) + Back(Left(v))
         = Back(Top(v)) + Back(Right(v)) + Forth(Bottom(v)) + Forth(Left(v))
  BY <1>4, <1>8
<1> HIDE DEF Forth, Back
<1> QED BY <1>5, <1>6, <1>7, <1>10, <1>11

\* An arc from a node that a forest does not touch can be added to it.
LEMMA LeafKeepsForest ==
    ASSUME NEW tree \in SUBSET ArcsOf(Edges), IsForest(tree), NEW arc \in ArcsOf(Edges),
           \A other \in tree : From[other] # From[arc] /\ To[other] # From[arc]
    PROVE  IsForest(tree \cup {arc})
<1> DEFINE x == From[arc]
<1>1. x \in Nodes /\ To[arc] \in Nodes /\ x # To[arc] /\ arc \notin tree
  BY ArcEnds
<1>2. ~Joined((tree \cup {arc}) \ {arc}, From[arc], To[arc])
  <2>1. (tree \cup {arc}) \ {arc} = tree /\ {x} \in SUBSET Nodes
    BY <1>1
  <2>2. Closed(tree, {x})
    BY DEF Closed
  <2> QED BY <1>1, <2>1, <2>2, SameSide
<1>3. ASSUME NEW g \in tree, Joined((tree \cup {arc}) \ {g}, From[g], To[g]) PROVE FALSE
  <2>1. ~Joined(tree \ {g}, From[g], To[g])
    BY DEF IsForest
  <2>2. PICK P \in SUBSET Nodes : Closed(tree \ {g}, P) /\ From[g] \in P /\ To[g] \notin P
    BY <2>1, CutExists
  <2> DEFINE Q == IF To[arc] \in P THEN P \cup {x} ELSE P \ {x}
  <2>3. Q \in SUBSET Nodes /\ (x \in Q <=> To[arc] \in Q)
    BY <1>1
  <2>4. \A node \in Nodes : node # x => (node \in Q <=> node \in P)
    OBVIOUS
  <2> HIDE DEF Q
  <2>5. \A other \in tree : /\ From[other] \in Nodes /\ To[other] \in Nodes
                            /\ From[other] # x /\ To[other] # x
    BY ArcEnds
  <2>6. Closed((tree \cup {arc}) \ {g}, Q)
    BY <2>2, <2>3, <2>4, <2>5 DEF Closed
  <2>7. From[g] \in Q /\ To[g] \notin Q
    BY <2>2, <2>4, <2>5
  <2>8. (tree \cup {arc}) \ {g} \in SUBSET ArcsOf(Edges) /\ From[g] \in Nodes /\ To[g] \in Nodes
    BY <2>5
  <2> QED BY <1>3, <2>3, <2>6, <2>7, <2>8, SameSide
<1> QED BY <1>2, <1>3 DEF IsForest

\* The weight of an edge is a number.
LEMMA WeightIsInt ==
    ASSUME NEW edge, IsEdge(edge)
    PROVE  Weight(edge) \in Int
<1> DEFINE more == EdgeCost(edge, 1)
           less == EdgeCost(edge, -1)
           base == EdgeCost(edge, 0)
<1>1. more \in Int /\ less \in Int /\ base \in Int
  BY EdgeCostIsInt
<1>2. Weight(edge) = AtMost(AtLeast(Min({more, less}) - base, 1), 1000)
  BY DEF Weight
<1> HIDE DEF more, less, base
<1>3. Min({more, less}) \in Int
  <2>1. \E low \in {more, less} : \A high \in {more, less} : low <= high
    BY <1>1
  <2>2. Min({more, less}) \in {more, less}
    BY <2>1 DEF Min
  <2> QED BY <1>1, <2>2
<1> QED BY <1>1, <1>2, <1>3 DEF AtMost, AtLeast

\* The parts of ShortestPaths.
RootPath(root) == <<0, root, 0, root, 0, None>>
ReachedFrom(costs, settled) ==
    {<<pair[1][1] + Weight(costs[EdgeOf(pair[2])]), From[pair[2]],
       pair[1][1], pair[1][2],
       IF IsHorizontal(EdgeOf(pair[2])) THEN 1 ELSE 0, pair[2]>> :
        pair \in {p \in settled \X ArcsOf(DOMAIN costs) :
            /\ To[p[2]] = p[1][2]
            /\ \A other \in settled : other[2] # From[p[2]]}}
Settle(costs, settled) == settled \cup Range(Smallest(ReachedFrom(costs, settled), 1))
LinksOf(settled, root) == {path[6] : path \in {p \in settled : p[2] # root}}

\* What the paths settled so far are: one for each node, each along an arc of
\* the graph to the node before it; their arcs are a forest that leads to the root.
IsSettled(costs, root, settled) ==
    /\ RootPath(root) \in settled /\ IsFiniteSet(settled)
    /\ \A p \in settled :
           /\ p[1] \in Int /\ p[2] \in Nodes
           /\ p[2] # root => /\ p[6] \in ArcsOf(DOMAIN costs) /\ From[p[6]] = p[2]
                             /\ \E q \in settled : q[2] = To[p[6]]
    /\ \A p, q \in settled : p[2] = q[2] => p = q
    /\ IsForest(LinksOf(settled, root))
    /\ \A p \in settled : Joined(LinksOf(settled, root), p[2], root)

\* A node that is reached is a new one, next to one that is settled.
LEMMA ReachedAre ==
    ASSUME NEW costs, AreCosts(costs), NEW root \in Nodes,
           NEW settled, IsSettled(costs, root, settled)
    PROVE  /\ ReachedFrom(costs, settled) \in SUBSET [1 .. 6 -> Int]
           /\ IsFiniteSet(ReachedFrom(costs, settled))
           /\ \A x \in ReachedFrom(costs, settled) :
                 /\ x[1] \in Int /\ x[2] \in Nodes
                 /\ x[6] \in ArcsOf(DOMAIN costs) /\ From[x[6]] = x[2]
                 /\ \E q \in settled : q[2] = To[x[6]]
                 /\ \A q \in settled : q[2] # x[2]
           /\ (\E p \in settled, arc \in ArcsOf(DOMAIN costs) :
                   To[arc] = p[2] /\ \A other \in settled : other[2] # From[arc])
                 => ReachedFrom(costs, settled) # {}
<1> DEFINE arcs == ArcsOf(DOMAIN costs)
           Along(p, arc) == <<p[1] + Weight(costs[EdgeOf(arc)]), From[arc], p[1], p[2],
                              IF IsHorizontal(EdgeOf(arc)) THEN 1 ELSE 0, arc>>
           Leads(p, arc) == To[arc] = p[2] /\ \A other \in settled : other[2] # From[arc]
           reached == ReachedFrom(costs, settled)
<1>1. \A x \in reached : \E p \in settled, arc \in arcs : Leads(p, arc) /\ x = Along(p, arc)
  BY DEF ReachedFrom
<1>2. \A p \in settled, arc \in arcs : Leads(p, arc) => Along(p, arc) \in reached
  <2> TAKE p \in settled, arc \in arcs
  <2> HAVE Leads(p, arc)
  <2>1. <<p, arc>> \in settled \X arcs
    OBVIOUS
  <2> QED BY <2>1 DEF ReachedFrom
<1>3. ASSUME NEW p \in settled, NEW arc \in arcs
      PROVE  /\ p[1] \in Int /\ p[2] \in Nodes /\ arc \in Nat /\ arc \in ArcsOf(Edges)
             /\ Weight(costs[EdgeOf(arc)]) \in Int /\ From[arc] \in Nodes /\ From[arc] \in Int
             /\ p[2] \in Int
  <2>1. p[1] \in Int /\ p[2] \in Nodes
    BY DEF IsSettled
  <2>2. DOMAIN costs \in SUBSET Edges
    BY DEF AreCosts
  <2>3. arc \in Nat /\ arc \in ArcsOf(Edges) /\ EdgeOf(arc) \in DOMAIN costs
    BY <2>2, ArcFacts
  <2>4. From[arc] \in Nodes
    BY <2>3, ArcEnds
  <2>5. Weight(costs[EdgeOf(arc)]) \in Int
    BY <2>3, WeightIsInt DEF AreCosts
  <2> QED BY <2>1, <2>3, <2>4, <2>5, GridSizes DEF Nodes
<1>4. ASSUME NEW p \in settled, NEW arc \in arcs
      PROVE  /\ Along(p, arc) \in [1 .. 6 -> Int]
             /\ Along(p, arc)[1] \in Int /\ Along(p, arc)[2] = From[arc]
             /\ Along(p, arc)[6] = arc
  <2> DEFINE weight == Weight(costs[EdgeOf(arc)])
             side == IF IsHorizontal(EdgeOf(arc)) THEN 1 ELSE 0
  <2>1. p[1] \in Int /\ p[2] \in Int /\ weight \in Int /\ From[arc] \in Int /\ arc \in Int
    BY <1>3
  <2>2. side \in Int
    OBVIOUS
  <2>3. Along(p, arc) = <<p[1] + weight, From[arc], p[1], p[2], side, arc>>
    OBVIOUS
  <2> HIDE DEF weight, side, Along
  <2>4. p[1] + weight \in Int
    BY <2>1
  <2> QED BY <2>1, <2>2, <2>3, <2>4
<1> HIDE DEF reached, Along, arcs
<1>5. reached \in SUBSET [1 .. 6 -> Int]
  BY <1>1, <1>4
<1>6. ASSUME NEW x \in reached
      PROVE  /\ x[1] \in Int /\ x[2] \in Nodes /\ x[6] \in arcs /\ From[x[6]] = x[2]
             /\ \E q \in settled : q[2] = To[x[6]]
             /\ \A q \in settled : q[2] # x[2]
  <2>1. PICK p \in settled, arc \in arcs : Leads(p, arc) /\ x = Along(p, arc)
    BY <1>1
  <2>2. x[1] \in Int /\ x[2] = From[arc] /\ x[6] = arc
    BY <1>4, <2>1
  <2> QED BY <1>3, <2>1, <2>2
<1>7. \A x \in reached : x[6] \in arcs
  BY <1>6
<1>8. \A x \in reached : \A y \in reached : x[6] = y[6] => x = y
  <2> SUFFICES ASSUME NEW x \in reached, NEW y \in reached, x[6] = y[6] PROVE x = y
    OBVIOUS
  <2>1. PICK p \in settled, a \in arcs : Leads(p, a) /\ x = Along(p, a)
    BY <1>1
  <2>2. PICK q \in settled, b \in arcs : Leads(q, b) /\ y = Along(q, b)
    BY <1>1
  <2>3. a = b
    BY <1>4, <2>1, <2>2
  <2>4. p = q
    BY <2>1, <2>2, <2>3 DEF IsSettled
  <2> QED BY <2>1, <2>2, <2>3, <2>4
<1>9. IsFiniteSet(arcs)
  <2>1. arcs \in SUBSET ArcsOf(Edges)
    BY DEF arcs, AreCosts, ArcsOf
  <2> QED BY <2>1, EdgesAreFinite, FS_Subset
<1>10. IsFiniteSet(reached)
  BY <1>7, <1>8, <1>9, KeyedAreFinite
<1> QED BY <1>2, <1>5, <1>6, <1>10 DEF reached, arcs

\* Either nothing is reached, and nothing changes, or one more path is settled.
LEMMA SettleIs ==
    ASSUME NEW costs, AreCosts(costs), NEW root \in Nodes,
           NEW settled, IsSettled(costs, root, settled)
    PROVE  \/ ReachedFrom(costs, settled) = {} /\ Settle(costs, settled) = settled
           \/ \E x \in ReachedFrom(costs, settled) : Settle(costs, settled) = settled \cup {x}
<1> DEFINE reached == ReachedFrom(costs, settled)
           size == AtMost(Cardinality(reached), 1)
           least == Smallest(reached, 1)
<1>1. reached \in SUBSET [1 .. 6 -> Int] /\ IsFiniteSet(reached)
  BY ReachedAre
<1>2. Settle(costs, settled) = settled \cup Range(least)
  BY DEF Settle
<1>3. least = [index \in 1 .. size |->
                  CHOOSE x \in reached : Cardinality({y \in reached : Precedes(y, x)}) = index - 1]
  BY DEF Smallest
<1>4. Range(least) = {least[index] : index \in 1 .. size}
  BY <1>3 DEF Range
<1> HIDE DEF least, reached
<1>5. CASE reached = {}
  <2>1. Cardinality(reached) = 0
    BY <1>5, FS_EmptySet
  <2>2. 1 .. size = {}
    BY <2>1 DEF AtMost
  <2>3. Range(least) = {}
    BY <1>4, <2>2
  <2> QED BY <1>2, <1>5, <2>3 DEF reached
<1>6. CASE reached # {}
  <2>1. Cardinality(reached) \in Nat /\ Cardinality(reached) # 0
    BY <1>1, <1>6, FS_CardinalityType, FS_EmptySet
  <2>2. size = 1 /\ 0 \in 0 .. Cardinality(reached) - 1 /\ 6 \in Nat
    BY <2>1 DEF AtMost
  <2>3. \E x \in reached : Cardinality({y \in reached : Precedes(y, x)}) = 0
    BY <1>1, <2>2, RanksAreTaken
  <2> DEFINE Rank(x) == Cardinality({y \in reached : Precedes(y, x)})
  <2>7. least = [index \in 1 .. size |-> CHOOSE x \in reached : Rank(x) = index - 1]
    BY <1>3
  <2> HIDE DEF Rank, size
  <2>8. least[1] = CHOOSE x \in reached : Rank(x) = 1 - 1
    BY <2>2, <2>7
  <2>4. least[1] = CHOOSE x \in reached : Rank(x) = 0
    BY <2>8
  <2>5. least[1] \in reached
    BY <2>3, <2>4 DEF Rank
  <2>6. Range(least) = {least[1]}
    BY <1>4, <2>2
  <2> QED BY <1>2, <2>5, <2>6 DEF reached
<1> QED BY <1>5, <1>6

\* Settling one more path keeps what they are.
LEMMA SettleStays ==
    ASSUME NEW costs, AreCosts(costs), NEW root \in Nodes,
           NEW settled, IsSettled(costs, root, settled)
    PROVE  IsSettled(costs, root, Settle(costs, settled))
<1>1. CASE Settle(costs, settled) = settled
  BY <1>1
<1>2. ASSUME NEW x \in ReachedFrom(costs, settled), Settle(costs, settled) = settled \cup {x}
      PROVE  IsSettled(costs, root, Settle(costs, settled))
  <2> DEFINE more == settled \cup {x}
             links == LinksOf(settled, root)
             arc == x[6]
  <2>1. /\ x[1] \in Int /\ x[2] \in Nodes /\ arc \in ArcsOf(DOMAIN costs) /\ From[arc] = x[2]
        /\ \E q \in settled : q[2] = To[arc]
        /\ \A q \in settled : q[2] # x[2]
    BY ReachedAre
  <2>2. RootPath(root)[2] = root /\ RootPath(root) \in settled
    BY DEF RootPath, IsSettled
  <2>3. x[2] # root
    BY <2>1, <2>2
  <2>4. LinksOf(more, root) = links \cup {arc}
    BY <2>3 DEF LinksOf
  <2>5. \A other \in links : \E p \in settled : /\ p[2] # root /\ other = p[6]
                                               /\ other \in ArcsOf(DOMAIN costs)
                                               /\ From[other] = p[2]
                                               /\ \E q \in settled : q[2] = To[other]
    BY DEF LinksOf, IsSettled
  <2>6. ArcsOf(DOMAIN costs) \in SUBSET ArcsOf(Edges)
    BY DEF AreCosts, ArcsOf
  <2>7. links \in SUBSET ArcsOf(Edges) /\ arc \in ArcsOf(Edges) /\ IsForest(links)
    BY <2>1, <2>5, <2>6 DEF IsSettled
  <2> HIDE DEF links, arc
  <2>8. \A other \in links : From[other] # From[arc] /\ To[other] # From[arc]
    BY <2>1, <2>5
  <2>9. IsForest(links \cup {arc})
    BY <2>7, <2>8, LeafKeepsForest
  <2>10. ASSUME NEW p \in more PROVE Joined(links \cup {arc}, p[2], root)
    <3>1. links \subseteq links \cup {arc} /\ links \cup {arc} \in SUBSET ArcsOf(Edges)
      BY <2>7
    <3>2. \A q \in settled : q[2] \in Nodes /\ Joined(links \cup {arc}, q[2], root)
      BY <3>1, MoreArcsJoin DEF IsSettled, links
    <3>3. CASE p \in settled
      BY <3>2, <3>3
    <3>4. CASE p = x
      <4>1. PICK q \in settled : q[2] = To[arc]
        BY <2>1
      <4>2. Joined(links \cup {arc}, From[arc], To[arc])
        BY ArcJoins
      <4> QED BY <2>1, <3>1, <3>2, <3>4, <4>1, <4>2, JoinedFacts
    <3> QED BY <3>3, <3>4
  <2>11. \A p \in more :
             /\ p[1] \in Int /\ p[2] \in Nodes
             /\ p[2] # root => /\ p[6] \in ArcsOf(DOMAIN costs) /\ From[p[6]] = p[2]
                               /\ \E q \in more : q[2] = To[p[6]]
    BY <2>1 DEF IsSettled, arc
  <2>12. \A p, q \in more : p[2] = q[2] => p = q
    BY <2>1 DEF IsSettled
  <2>13. RootPath(root) \in more /\ IsFiniteSet(more)
    BY <2>2, FS_AddElement DEF IsSettled
  <2> HIDE DEF more
  <2>14. IsSettled(costs, root, more)
    BY <2>4, <2>9, <2>10, <2>11, <2>12, <2>13 DEF IsSettled
  <2> QED BY <1>2, <2>14 DEF more
<1> QED BY <1>1, <1>2, SettleIs

\* When nothing more is reached, what is settled is cut off from the rest.
LEMMA UnreachedIsClosed ==
    ASSUME NEW costs, AreCosts(costs), NEW root \in Nodes,
           NEW settled, IsSettled(costs, root, settled), ReachedFrom(costs, settled) = {}
    PROVE  Closed(ArcsOf(DOMAIN costs), {p[2] : p \in settled})
<1> DEFINE part == {p[2] : p \in settled}
<1>1. ASSUME NEW arc \in ArcsOf(DOMAIN costs), To[arc] \in part PROVE From[arc] \in part
  <2>1. PICK p \in settled : To[arc] = p[2]
    BY <1>1
  <2>2. \E other \in settled : other[2] = From[arc]
    BY <2>1, ReachedAre
  <2> QED BY <2>2
<1> HIDE DEF part
<1>2. ASSUME NEW arc \in ArcsOf(DOMAIN costs), From[arc] \in part PROVE To[arc] \in part
  <2>1. DOMAIN costs \in SUBSET Edges
    BY DEF AreCosts
  <2>2. arc \in ArcsOf(Edges) /\ EdgeOf(arc) \in DOMAIN costs
    BY <2>1, ArcFacts
  <2>3. PICK back \in ArcsOf({EdgeOf(arc)}) : From[back] = To[arc] /\ To[back] = From[arc]
    BY <2>2, TwoWays
  <2>4. back \in ArcsOf(DOMAIN costs)
    BY <2>2, <2>3 DEF ArcsOf
  <2> QED BY <1>1, <1>2, <2>3, <2>4
<1> QED BY <1>1, <1>2 DEF Closed, part

\* The graph is connected.
Connected(edges) == \A node \in Nodes : Joined(ArcsOf(edges), Ground, node)

\* In a connected graph the shortest paths reach every node: their arcs are a
\* forest in which every node is joined to the root.
LEMMA PathsReachAll ==
    ASSUME NEW costs, AreCosts(costs), NEW root \in Nodes, Connected(DOMAIN costs)
    PROVE  LET links == LinksOf(ShortestPaths(costs, root), root)
           IN  /\ links \in SUBSET ArcsOf(DOMAIN costs) /\ IsForest(links)
               /\ \A node \in Nodes : Joined(links, node, root)
<1> DEFINE Paths == [1 .. 6 -> Int] \cup {RootPath(root)}
           V == {s \in SUBSET Paths : IsSettled(costs, root, s)}
           first == {RootPath(root)}
           op == [s \in V |-> Settle(costs, s)]
           after == CHOOSE f : f = [k \in Nodes |-> IF k = 0 THEN first
                                                    ELSE Settle(costs, f[k - 1])]
<1>1. ShortestPaths(costs, root) = after[Ground]
  BY DEF ShortestPaths, Settle, ReachedFrom, RootPath
<1>2. first \in V
  <2>1. \A p \in first : p[1] = 0 /\ p[2] = root
    BY DEF RootPath
  <2>2. LinksOf(first, root) = {}
    BY <2>1 DEF LinksOf
  <2>3. IsForest({}) /\ Joined({}, root, root)
    BY DEF IsForest, Joined
  <2>4. IsFiniteSet(first) /\ first \in SUBSET Paths /\ RootPath(root) \in first
    BY FS_Singleton
  <2>5. \A p, q \in first : p = q
    OBVIOUS
  <2>6. IsSettled(costs, root, first)
    BY <2>1, <2>2, <2>3, <2>4, <2>5 DEF IsSettled
  <2> QED BY <2>4, <2>6
<1>3. ASSUME NEW s \in V
      PROVE  /\ Settle(costs, s) \in V /\ IsSettled(costs, root, s)
             /\ \/ ReachedFrom(costs, s) = {} /\ Settle(costs, s) = s
                \/ \E x : x \notin s /\ Settle(costs, s) = s \cup {x}
  <2>1. s \in SUBSET Paths /\ IsSettled(costs, root, s)
    OBVIOUS
  <2>2. IsSettled(costs, root, Settle(costs, s))
    BY <2>1, SettleStays
  <2>3. CASE ReachedFrom(costs, s) = {} /\ Settle(costs, s) = s
    BY <2>1, <2>2, <2>3
  <2>4. ASSUME NEW x \in ReachedFrom(costs, s), Settle(costs, s) = s \cup {x}
        PROVE  Settle(costs, s) \in SUBSET Paths /\ x \notin s
    <3>1. x \in [1 .. 6 -> Int] /\ \A q \in s : q[2] # x[2]
      BY <2>1, ReachedAre
    <3> QED BY <2>1, <2>4, <3>1
  <2> QED BY <2>1, <2>2, <2>3, <2>4, SettleIs
<1> HIDE DEF V, first
<1>4. \A s \in V : op[s] = Settle(costs, s) /\ op[s] \in V
  BY <1>3
<1> HIDE DEF op
<1>5. Ground \in Nat /\ Nodes = 0 .. Ground
  BY GridSizes DEF Nodes
<1>6. PICK f \in [0 .. Ground -> V] : IsIteration(f, op, first, Ground)
  BY <1>2, <1>4, <1>5, IterationExists
<1>7. f = [k \in 0 .. Ground |-> IF k = 0 THEN first ELSE op[f[k - 1]]]
  BY <1>6 DEF IsIteration
<1>8. \A k \in 0 .. Ground : f[k] = IF k = 0 THEN first ELSE Settle(costs, f[k - 1])
  <2> TAKE k \in 0 .. Ground
  <2>1. k # 0 => k - 1 \in 0 .. Ground
    BY <1>5
  <2> QED BY <1>4, <1>7, <2>1
<1>9. f = [k \in Nodes |-> IF k = 0 THEN first ELSE Settle(costs, f[k - 1])]
  BY <1>5, <1>7, <1>8
<1>10. after = [k \in Nodes |-> IF k = 0 THEN first ELSE Settle(costs, after[k - 1])]
  BY <1>9
<1> HIDE DEF after
<1> DEFINE Complete(s) == ReachedFrom(costs, s) = {}
           Ample(k) == /\ after[k] \in V
                       /\ Complete(after[k]) \/ Cardinality(after[k]) >= k + 1
<1>11. \A k \in 0 .. Ground : Ample(k)
  <2> DEFINE Bad == {k \in 0 .. Ground : ~Ample(k)}
  <2>1. ASSUME Bad # {} PROVE FALSE
    <3>1. PICK k \in Bad : \A l \in Bad : k <= l
      <4>1. Bad \in SUBSET Nat
        OBVIOUS
      <4> HIDE DEF Bad
      <4> QED BY <2>1, <4>1, LeastOf
    <3>2. after[0] = first /\ Cardinality(first) = 1
      <4>1. Cardinality(first) = 1
        BY FS_Singleton DEF first
      <4> QED BY <1>5, <1>10, <4>1
    <3>3. k \in 0 .. Ground /\ ~Ample(k) /\ k # 0
      BY <1>2, <3>1, <3>2
    <3>4. k - 1 \in 0 .. Ground /\ k - 1 \notin Bad
      <4>1. k - 1 \in 0 .. Ground /\ ~(k <= k - 1)
        BY <1>5, <3>3
      <4> HIDE DEF Ample
      <4> QED BY <3>1, <4>1
    <3> DEFINE s == after[k - 1]
    <3>5. s \in V /\ (Complete(s) \/ Cardinality(s) >= k)
      BY <3>3, <3>4
    <3>6. after[k] = Settle(costs, s)
      BY <1>5, <1>10, <3>3
    <3> HIDE DEF s
    <3>7. /\ Settle(costs, s) \in V /\ IsSettled(costs, root, s)
          /\ \/ ReachedFrom(costs, s) = {} /\ Settle(costs, s) = s
             \/ \E x : x \notin s /\ Settle(costs, s) = s \cup {x}
      BY <1>3, <3>5
    <3>8. CASE Settle(costs, s) = s /\ Complete(s)
      BY <3>3, <3>6, <3>7, <3>8
    <3>9. CASE ~Complete(s)
      <4>1. PICK x : x \notin s /\ Settle(costs, s) = s \cup {x}
        BY <3>7, <3>9
      <4>2. IsFiniteSet(s) /\ Cardinality(s) \in Nat
        BY <3>7, FS_CardinalityType DEF IsSettled
      <4>3. Cardinality(s \cup {x}) = Cardinality(s) + 1
        BY <4>1, <4>2, FS_AddElement
      <4>4. Cardinality(after[k]) >= k + 1
        BY <3>3, <3>5, <3>6, <3>9, <4>1, <4>2, <4>3
      <4> QED BY <3>3, <3>6, <3>7, <4>4
    <3>10. Complete(s) => Settle(costs, s) = s
      <4>1. ASSUME Complete(s), NEW x, x \notin s, Settle(costs, s) = s \cup {x} PROVE FALSE
        BY <3>7, <4>1, SettleIs
      <4> QED BY <3>7, <4>1
    <3> QED BY <3>8, <3>9, <3>10
  <2> QED BY <2>1
<1> DEFINE settled == after[Ground]
           reached == {p[2] : p \in settled}
<1>12. settled \in V /\ (Complete(settled) \/ Cardinality(settled) >= Ground + 1)
  <2>1. Ground \in 0 .. Ground
    BY <1>5
  <2>2. Ample(Ground)
    BY <1>11, <2>1
  <2> QED BY <2>2
<1>13. IsSettled(costs, root, settled)
  BY <1>12 DEF V
<1> HIDE DEF settled
<1>14. reached \in SUBSET Nodes /\ root \in reached
  <2>1. RootPath(root) \in settled /\ RootPath(root)[2] = root
    BY <1>13 DEF IsSettled, RootPath
  <2> QED BY <1>13, <2>1 DEF IsSettled
<1>15. reached = Nodes
  <2>1. CASE Complete(settled)
    <3>1. Closed(ArcsOf(DOMAIN costs), reached)
      BY <1>13, <2>1, UnreachedIsClosed
    <3>2. ArcsOf(DOMAIN costs) \in SUBSET ArcsOf(Edges) /\ Ground \in Nodes
      BY <1>5 DEF AreCosts, ArcsOf
    <3> HIDE DEF reached
    <3>3. Ground \in reached
      BY <1>14, <3>1, <3>2, SameSide DEF Connected
    <3>4. \A node \in Nodes : node \in reached
      BY <1>14, <3>1, <3>2, <3>3, SameSide DEF Connected
    <3> QED BY <1>14, <3>4
  <2>2. CASE Cardinality(settled) >= Ground + 1
    <3> DEFINE node == [p \in settled |-> p[2]]
    <3>1. node \in Injection(settled, reached)
      BY <1>13 DEF Injection, IsInjective, IsSettled
    <3>2. IsFiniteSet(Nodes) /\ Cardinality(Nodes) = Ground + 1
      BY <1>5, FS_Interval
    <3> HIDE DEF node, reached
    <3>3. IsFiniteSet(reached) /\ Cardinality(reached) <= Cardinality(Nodes)
      BY <1>14, <3>2, FS_Subset
    <3>4. Cardinality(settled) <= Cardinality(reached)
      BY <3>1, <3>3, FS_Injection
    <3>5. Cardinality(reached) = Cardinality(Nodes)
      <4>1. Cardinality(settled) \in Nat /\ Cardinality(reached) \in Nat
        BY <1>13, <3>3, FS_CardinalityType DEF IsSettled
      <4> QED BY <1>5, <2>2, <3>2, <3>3, <3>4, <4>1
    <3> QED BY <1>14, <3>2, <3>5, FS_Subset
  <2> QED BY <1>12, <2>1, <2>2
<1>16. LinksOf(settled, root) \in SUBSET ArcsOf(DOMAIN costs)
  BY <1>13 DEF LinksOf, IsSettled
<1>17. \A node \in Nodes : Joined(LinksOf(settled, root), node, root)
  <2> TAKE node \in Nodes
  <2>1. PICK p \in settled : node = p[2]
    BY <1>15
  <2> QED BY <1>13, <2>1 DEF IsSettled
<1> QED BY <1>1, <1>13, <1>16, <1>17 DEF settled, IsSettled

\* The way a charge takes to the root, and what it takes over an arc.
Way(costs, deltas, from) == TreePath(Links(costs, deltas), from, Root(deltas))
Carried(costs, deltas, arc) ==
    [t \in Terminals(deltas) |-> On(Way(costs, deltas, t), arc, Charge(deltas, t))]

\* The root is one of the charged nodes.
LEMMA RootIsTerminal ==
    ASSUME NEW deltas, Terminals(deltas) # {}
    PROVE  Root(deltas) \in Terminals(deltas) /\ Root(deltas) \in Nodes
<1> DEFINE terminals == Terminals(deltas)
<1>1. terminals \in SUBSET Nodes /\ terminals \in SUBSET Nat
  BY GridSizes DEF Terminals, Nodes
<1> HIDE DEF terminals
<1>2. \E m \in terminals : \A k \in terminals : m <= k
  BY <1>1, LeastOf DEF terminals
<1>3. Min(terminals) \in terminals
  BY <1>2 DEF Min
<1> QED BY <1>1, <1>3 DEF Root, terminals

\* The amount on an arc is the sum of what the charges take over it.
LEMMA AmountIsCarried ==
    ASSUME NEW costs, NEW deltas, AreFlows(deltas, DOMAIN deltas), NEW arc
    PROVE  /\ Amount(costs, deltas, arc) = SumOver(Carried(costs, deltas, arc), Terminals(deltas))
           /\ \A t \in Terminals(deltas) : Carried(costs, deltas, arc)[t] \in Int
           /\ IsFiniteSet(Terminals(deltas))
<1> DEFINE S == Terminals(deltas)
           T == Senders(costs, deltas, arc)
           g == Charges(deltas)
           part == Carried(costs, deltas, arc)
<1>1. S \in SUBSET Nodes /\ T \in SUBSET S
  BY DEF Terminals, Senders
<1>2. IsFiniteSet(S)
  BY <1>1, ChargesAreInt, FS_Subset
<1>3. \A t \in S : g[t] \in Int /\ g[t] = Charge(deltas, t)
  BY <1>1, ChargesAreInt DEF Charges
<1>4. \A t \in S : part[t] = IF t \in T THEN g[t] ELSE 0
  BY <1>3 DEF Carried, Senders, On, Way
<1>5. Amount(costs, deltas, arc) = SumOver(g, T)
  BY AmountIsSum
<1> HIDE DEF S, T, g, part
<1>6. SumOver(part, S) = SumOver(g, T)
  BY <1>1, <1>2, <1>3, <1>4, SumWithin
<1>7. \A t \in S : part[t] \in Int
  BY <1>3, <1>4
<1> QED BY <1>2, <1>5, <1>6, <1>7 DEF S, part

\* Four sums at once.
LEMMA SumOfFour ==
    ASSUME NEW S, IsFiniteSet(S), NEW a, \A x \in S : a[x] \in Int,
           NEW b, \A x \in S : b[x] \in Int, NEW c, \A x \in S : c[x] \in Int,
           NEW d, \A x \in S : d[x] \in Int,
           NEW all, \A x \in S : all[x] = a[x] + b[x] + c[x] + d[x]
    PROVE  /\ SumOver(all, S) = SumOver(a, S) + SumOver(b, S) + SumOver(c, S) + SumOver(d, S)
           /\ \A x \in S : all[x] \in Int
<1> DEFINE ab == [x \in S |-> a[x] + b[x]]
           cd == [x \in S |-> c[x] + d[x]]
<1>1. \A x \in S : /\ ab[x] \in Int /\ ab[x] = a[x] + b[x]
                   /\ cd[x] \in Int /\ cd[x] = c[x] + d[x] /\ all[x] = ab[x] + cd[x]
  OBVIOUS
<1> HIDE DEF ab, cd
<1>2. SumOver(ab, S) = SumOver(a, S) + SumOver(b, S)
  BY <1>1, SumPlus
<1>3. SumOver(cd, S) = SumOver(c, S) + SumOver(d, S)
  BY <1>1, SumPlus
<1>4. SumOver(all, S) = SumOver(ab, S) + SumOver(cd, S)
  BY <1>1, SumPlus
<1>5. /\ SumOver(a, S) \in Int /\ SumOver(b, S) \in Int
      /\ SumOver(c, S) \in Int /\ SumOver(d, S) \in Int
  BY SumStep
<1> QED BY <1>1, <1>2, <1>3, <1>4, <1>5

\* What each charge adds to a plaquette on its way.
Net(costs, deltas, v, t) ==
    Inflow(Way(costs, deltas, t), v, Charge(deltas, t))
    - Outflow(Way(costs, deltas, t), v, Charge(deltas, t))
Nets(costs, deltas, v) == [t \in Terminals(deltas) |-> Net(costs, deltas, v, t)]

\* The routing changes a residue by what all charges add to the plaquette.
LEMMA RoutingAddsNets ==
    ASSUME NEW costs, NEW deltas, AreFlows(deltas, DOMAIN deltas), DOMAIN deltas = DOMAIN costs,
           NEW after, DOMAIN after = DOMAIN costs, Terminals(deltas) # {},
           \A edge \in DOMAIN costs :
               after[edge] = deltas[edge] + InitialCorrections(costs, deltas)[edge],
           NEW v \in Nodes \ {Ground}, EdgesAround(v) \subseteq DOMAIN costs
    PROVE  /\ Residue(after, v)
                = Residue(deltas, v) + SumOver(Nets(costs, deltas, v), Terminals(deltas))
           /\ \A t \in Terminals(deltas) : Nets(costs, deltas, v)[t] \in Int
<1> DEFINE S == Terminals(deltas)
           Over(arc) == Carried(costs, deltas, arc)
           Total(arc) == SumOver(Over(arc), S)
           in == [t \in S |-> Inflow(Way(costs, deltas, t), v, Charge(deltas, t))]
           out == [t \in S |-> Outflow(Way(costs, deltas, t), v, Charge(deltas, t))]
           nets == Nets(costs, deltas, v)
           a == IntoArcs(v)
           b == OutArcs(v)
<1>1. IsFiniteSet(S) /\ \A arc : /\ \A t \in S : Over(arc)[t] \in Int
                                /\ Amount(costs, deltas, arc) = Total(arc)
  BY AmountIsCarried
<1>2. \A t \in S : in[t] = Over(a[1])[t] + Over(a[2])[t] + Over(a[3])[t] + Over(a[4])[t]
  BY DEF Inflow, Carried
<1>3. \A t \in S : out[t] = Over(b[1])[t] + Over(b[2])[t] + Over(b[3])[t] + Over(b[4])[t]
  BY DEF Outflow, Carried
<1>4. \A t \in S : nets[t] = in[t] - out[t]
  BY DEF Nets, Net
<1>5. \A edge \in DOMAIN costs : after[edge] = deltas[edge] + Total(2 * edge) - Total(2 * edge + 1)
  <2> TAKE edge \in DOMAIN costs
  <2>1. InitialCorrections(costs, deltas)[edge]
          = Amount(costs, deltas, 2 * edge) - Amount(costs, deltas, 2 * edge + 1)
    BY CorrectionsAre
  <2>2. /\ Amount(costs, deltas, 2 * edge) = Total(2 * edge)
        /\ Amount(costs, deltas, 2 * edge + 1) = Total(2 * edge + 1)
        /\ Amount(costs, deltas, 2 * edge) \in Int /\ Amount(costs, deltas, 2 * edge + 1) \in Int
    BY <1>1, AmountIsSum
  <2>3. deltas[edge] \in Int
    BY DEF AreFlows
  <2> HIDE DEF Total
  <2> QED BY <2>1, <2>2, <2>3
<1> HIDE DEF S, Over, in, out, nets
<1>6. ASSUME NEW arc PROVE Total(arc) \in Int
  BY <1>1, SumStep
<1>7. /\ SumOver(in, S) = Total(a[1]) + Total(a[2]) + Total(a[3]) + Total(a[4])
      /\ \A t \in S : in[t] \in Int
  BY <1>1, <1>2, SumOfFour
<1>8. /\ SumOver(out, S) = Total(b[1]) + Total(b[2]) + Total(b[3]) + Total(b[4])
      /\ \A t \in S : out[t] \in Int
  BY <1>1, <1>3, SumOfFour
<1>9. \A t \in S : nets[t] \in Int /\ in[t] = nets[t] + out[t]
  BY <1>4, <1>7, <1>8
<1>10. SumOver(in, S) = SumOver(nets, S) + SumOver(out, S)
  BY <1>1, <1>8, <1>9, SumPlus
<1>11. SumOver(nets, S) \in Int
  BY <1>1, <1>9, SumStep
<1>12. /\ a[1] = 2 * Top(v) /\ a[2] = 2 * Right(v)
       /\ a[3] = 2 * Bottom(v) + 1 /\ a[4] = 2 * Left(v) + 1
       /\ b[1] = 2 * Top(v) + 1 /\ b[2] = 2 * Right(v) + 1
       /\ b[3] = 2 * Bottom(v) /\ b[4] = 2 * Left(v)
  BY DEF IntoArcs, OutArcs
<1>13. /\ Top(v) \in DOMAIN costs /\ Right(v) \in DOMAIN costs
       /\ Bottom(v) \in DOMAIN costs /\ Left(v) \in DOMAIN costs
  BY DEF EdgesAround
<1>14. Residue(after, v) = after[Top(v)] + after[Right(v)] - after[Bottom(v)] - after[Left(v)]
  BY DEF Residue
<1>15. Residue(deltas, v)
         = deltas[Top(v)] + deltas[Right(v)] - deltas[Bottom(v)] - deltas[Left(v)]
  BY DEF Residue
<1> DEFINE Forth(edge) == Total(2 * edge)
           Back(edge) == Total(2 * edge + 1)
<1>16. \A edge \in DOMAIN costs :
           /\ after[edge] = deltas[edge] + Forth(edge) - Back(edge)
           /\ deltas[edge] \in Int /\ Forth(edge) \in Int /\ Back(edge) \in Int
  BY <1>5, <1>6 DEF AreFlows
<1>17. /\ SumOver(in, S)
            = Forth(Top(v)) + Forth(Right(v)) + Back(Bottom(v)) + Back(Left(v))
       /\ SumOver(out, S)
            = Back(Top(v)) + Back(Right(v)) + Forth(Bottom(v)) + Forth(Left(v))
  BY <1>7, <1>8, <1>12
<1> HIDE DEF Forth, Back, Total
<1>18. Residue(after, v) = Residue(deltas, v) + SumOver(nets, S)
  BY <1>10, <1>11, <1>13, <1>14, <1>15, <1>16, <1>17
<1> QED BY <1>9, <1>18 DEF nets, S

\* On its way to the root a charge leaves its own node, enters the root, and
\* enters any other node as often as it leaves it.
LEMMA NetIs ==
    ASSUME NEW costs, NEW deltas, AreFlows(deltas, DOMAIN deltas),
           Links(costs, deltas) \in SUBSET ArcsOf(Edges), IsForest(Links(costs, deltas)),
           \A node \in Nodes : Joined(Links(costs, deltas), node, Root(deltas)),
           NEW v \in Nodes \ {Ground}, NEW t \in Terminals(deltas)
    PROVE  Net(costs, deltas, v, t) = IF t = Root(deltas) THEN 0
                                      ELSE IF v = t THEN -Charge(deltas, t)
                                      ELSE IF v = Root(deltas) THEN Charge(deltas, t) ELSE 0
<1> DEFINE root == Root(deltas)
           links == Links(costs, deltas)
           way == Way(costs, deltas, t)
           amount == Charge(deltas, t)
<1>1. t \in Nodes /\ root \in Nodes /\ amount \in Int /\ Joined(links, t, root)
  BY RootIsTerminal, ChargesAreInt DEF Terminals
<1>2. way = TreePath(links, t, root)
  BY DEF Way
<1>3. way \in SUBSET ArcsOf(Edges)
  <2>1. EdgesOf(links) \in SUBSET Edges
    BY ArcFacts DEF EdgesOf
  <2> QED BY <1>2, <2>1 DEF TreePath, ArcsOf
<1>4. Net(costs, deltas, v, t) = Inflow(way, v, amount) - Outflow(way, v, amount)
  BY DEF Net
<1>5. t = root => way = {}
  BY <1>2 DEF TreePath, Joined
<1> HIDE DEF way, amount, links, root
<1>6. CASE t = root
  <2>1. Inflow(way, v, amount) = 0 /\ Outflow(way, v, amount) = 0
    BY <1>1, <1>3, <1>5, <1>6, Inflows, Outflows
  <2> QED BY <1>4, <1>6, <2>1 DEF root
<1>7. CASE t # root
  <2>1. links \in SUBSET ArcsOf(Edges) /\ IsForest(links)
    BY DEF links
  <2>2. /\ \A a, b \in way : From[a] = From[b] => a = b
        /\ \A a, b \in way : To[a] = To[b] => a = b
        /\ \A a \in way :
              /\ To[a] # t /\ From[a] # root
              /\ To[a] # root => \E b \in way : From[b] = To[a]
              /\ From[a] # t => \E b \in way : To[b] = From[a]
        /\ \E a \in way : From[a] = t
        /\ \E a \in way : To[a] = root
    BY <1>1, <1>2, <1>7, <2>1, WayFacts
  <2>3. (\E a \in way : To[a] = v) => Inflow(way, v, amount) = amount
    BY <1>1, <1>3, <2>2, Inflows
  <2>4. ~(\E a \in way : To[a] = v) => Inflow(way, v, amount) = 0
    BY <1>1, <1>3, Inflows
  <2>5. (\E a \in way : From[a] = v) => Outflow(way, v, amount) = amount
    BY <1>1, <1>3, <2>2, Outflows
  <2>6. ~(\E a \in way : From[a] = v) => Outflow(way, v, amount) = 0
    BY <1>1, <1>3, Outflows
  <2>7. CASE v = t
    <3>1. Inflow(way, v, amount) = 0 /\ Outflow(way, v, amount) = amount
      BY <2>2, <2>4, <2>5, <2>7
    <3> QED BY <1>1, <1>4, <1>7, <2>7, <3>1 DEF root, amount
  <2>8. CASE v = root
    <3>1. Inflow(way, v, amount) = amount /\ Outflow(way, v, amount) = 0
      BY <2>2, <2>3, <2>6, <2>8
    <3> QED BY <1>1, <1>4, <1>7, <2>8, <3>1 DEF root, amount
  <2>9. CASE v # t /\ v # root
    <3>1. (\E a \in way : To[a] = v) <=> (\E a \in way : From[a] = v)
      BY <2>2, <2>9
    <3>2. Inflow(way, v, amount) = Outflow(way, v, amount) /\ Inflow(way, v, amount) \in Int
      BY <1>1, <2>3, <2>4, <2>5, <2>6, <3>1
    <3> QED BY <1>4, <1>7, <2>9, <3>2 DEF root
  <2> QED BY <2>7, <2>8, <2>9
<1> QED BY <1>6, <1>7

\* The charges of all nodes, the ground included, cancel each other.
LEMMA ChargesCancel ==
    ASSUME NEW deltas, AreFlows(deltas, DOMAIN deltas)
    PROVE  SumOver(Charges(deltas), Terminals(deltas)) = 0
<1> DEFINE g == Charges(deltas)
           S == Nodes
           T == Terminals(deltas)
           rest == Nodes \ {Ground}
<1>1. IsFiniteSet(S) /\ \A x \in S : g[x] \in Int
  BY ChargesAreInt
<1>2. T \in SUBSET S /\ \A x \in S : g[x] = IF x \in T THEN g[x] ELSE 0
  BY DEF Terminals, Charges
<1>3. Ground \in S
  BY GridSizes DEF Nodes
<1>4. /\ \A x \in rest : g[x] = Residues(deltas)[x] /\ Residues(deltas)[x] \in Int
      /\ g[Ground] = -SumOver(Residues(deltas), rest)
  BY <1>3, ChargesAreInt DEF Charges, Charge, Residues
<1> HIDE DEF g, T
<1>5. SumOver(g, S) = SumOver(g, T)
  BY <1>1, <1>2, SumWithin
<1>6. SumOver(g, S) = g[Ground] + SumOver(g, rest)
  BY <1>1, <1>3, SumRemove
<1>7. IsFiniteSet(rest)
  BY <1>1, FS_Subset
<1> HIDE DEF rest, S
<1>8. SumOver(g, rest) = SumOver(Residues(deltas), rest) /\ SumOver(Residues(deltas), rest) \in Int
  BY <1>4, <1>7, SumCongruence, SumStep
<1>9. SumOver(g, T) = 0
  <2> DEFINE all == SumOver(Residues(deltas), rest)
  <2>1. SumOver(g, T) = -all + all /\ all \in Int
    BY <1>4, <1>5, <1>6, <1>8
  <2> HIDE DEF all
  <2> QED BY <2>1
<1> QED BY <1>9 DEF g, T

\* The first routing clears every residue of a connected graph.
LEMMA RoutingClearsResidues ==
    ASSUME NEW costs, AreCosts(costs), Connected(DOMAIN costs),
           NEW deltas, AreFlows(deltas, DOMAIN deltas), DOMAIN deltas = DOMAIN costs,
           NEW after, DOMAIN after = DOMAIN costs,
           \A edge \in DOMAIN costs :
               after[edge] = deltas[edge] + InitialCorrections(costs, deltas)[edge],
           NEW v \in Nodes \ {Ground}
    PROVE  Residue(after, v) = 0
<1> DEFINE S == Terminals(deltas)
           root == Root(deltas)
           g == Charges(deltas)
           nets == Nets(costs, deltas, v)
<1>1. SUFFICES ASSUME EdgesAround(v) \subseteq DOMAIN costs PROVE Residue(after, v) = 0
  BY DEF Residue
<1>2. v \in Nodes /\ Charge(deltas, v) = Residue(deltas, v) /\ Residue(deltas, v) \in Int
  BY ResidueIsInt DEF Charge
<1>3. CASE S = {}
  <2>1. \A edge \in DOMAIN costs : after[edge] = deltas[edge]
    <3> TAKE edge \in DOMAIN costs
    <3>1. InitialCorrections(costs, deltas)[edge] = 0
      BY <1>3, CorrectionsAre
    <3> QED BY <3>1 DEF AreFlows
  <2>2. Residue(after, v) = Residue(deltas, v)
    BY <1>1, <2>1 DEF Residue, EdgesAround
  <2>3. Charge(deltas, v) = 0
    BY <1>2, <1>3 DEF Terminals
  <2> QED BY <1>2, <2>2, <2>3
<1>4. CASE S # {}
  <2>1. /\ Residue(after, v) = Residue(deltas, v) + SumOver(nets, S)
        /\ \A t \in S : nets[t] \in Int
    BY <1>1, <1>4, RoutingAddsNets
  <2>2. root \in S /\ root \in Nodes
    BY <1>4, RootIsTerminal
  <2>3. /\ Links(costs, deltas) \in SUBSET ArcsOf(Edges) /\ IsForest(Links(costs, deltas))
        /\ \A node \in Nodes : Joined(Links(costs, deltas), node, Root(deltas))
    <3>1. Links(costs, deltas) = LinksOf(ShortestPaths(costs, root), root)
      BY DEF Links, LinksOf
    <3>2. ArcsOf(DOMAIN costs) \in SUBSET ArcsOf(Edges)
      BY DEF AreCosts, ArcsOf
    <3> QED BY <2>2, <3>1, <3>2, PathsReachAll
  <2>4. \A t \in S : nets[t] = IF t = root THEN 0
                               ELSE IF v = t THEN -Charge(deltas, t)
                               ELSE IF v = root THEN Charge(deltas, t) ELSE 0
    BY <2>3, NetIs DEF Nets
  <2>5. S \in SUBSET Nodes /\ IsFiniteSet(S)
    BY ChargesAreInt, FS_Subset DEF Terminals
  <2>6. \A t \in S : g[t] \in Int /\ g[t] = Charge(deltas, t)
    BY <2>5, ChargesAreInt DEF Charges
  <2> HIDE DEF nets, g, root, S
  <2>7. CASE v = root
    <3> DEFINE T == S \ {root}
    <3>1. \A t \in S : nets[t] = IF t \in T THEN g[t] ELSE 0
      BY <2>4, <2>6, <2>7
    <3>2. \A t \in T : g[t] \in Int
      BY <2>6
    <3>3. SumOver(nets, S) = SumOver(g, T)
      BY <2>5, <3>1, <3>2, SumWithin
    <3>4. SumOver(g, S) = g[root] + SumOver(g, T) /\ SumOver(g, T) \in Int
      BY <2>2, <2>5, <2>6, SumRemove
    <3>5. SumOver(g, S) = 0
      BY ChargesCancel DEF g, S
    <3>6. g[root] = Residue(deltas, v)
      BY <1>2, <2>2, <2>6, <2>7
    <3> HIDE DEF T
    <3> QED BY <1>2, <2>1, <3>3, <3>4, <3>5, <3>6
  <2>8. CASE v # root /\ v \in S
    <3> DEFINE T == {v}
               sent == [t \in S |-> -Charge(deltas, t)]
    <3>1. T \in SUBSET S /\ \A t \in S : nets[t] = IF t \in T THEN sent[t] ELSE 0
      BY <2>4, <2>8
    <3>2. \A t \in T : sent[t] \in Int
      BY <1>2, <2>8
    <3>3. sent[v] = -Residue(deltas, v)
      BY <1>2, <2>8
    <3> HIDE DEF sent
    <3>4. SumOver(nets, S) = SumOver(sent, T)
      BY <2>5, <3>1, <3>2, SumWithin
    <3>5. SumOver(sent, T) = sent[v] + SumOver(sent, T \ {v})
      BY <3>2, FS_Singleton, SumRemove
    <3>6. SumOver(sent, T \ {v}) = 0
      <4>1. T \ {v} = {} /\ IsFiniteSet({})
        BY FS_EmptySet
      <4>2. SumOver(sent, {}) = 0
        BY <4>1, SumStep
      <4> QED BY <4>1, <4>2
    <3> QED BY <1>2, <2>1, <3>3, <3>4, <3>5, <3>6
  <2>9. CASE v # root /\ v \notin S
    <3>1. \A t \in S : nets[t] = 0
      BY <2>4, <2>9
    <3>2. SumOver(nets, S) = 0
      BY <2>5, <3>1, SumZero
    <3>3. Residue(deltas, v) = 0
      BY <1>2, <2>9 DEF S, Terminals
    <3> QED BY <2>1, <3>2, <3>3
  <2> QED BY <2>7, <2>8, <2>9
<1> QED BY <1>3, <1>4

\* A tree with as many arcs as a spanning tree shows that the graph is connected.
LEMMA SpanningConnects ==
    ASSUME NEW costs, AreCosts(costs), NEW tree \in SUBSET ArcsOf(DOMAIN costs), IsForest(tree),
           Cardinality(tree) + 1 = Cardinality(Nodes)
    PROVE  Connected(DOMAIN costs)
<1>1. tree \in SUBSET ArcsOf(Edges)
  BY DEF AreCosts, ArcsOf
<1>2. \A node \in Nodes : Joined(tree, Ground, node)
  BY <1>1, ForestSpans DEF IsSpanningTree
<1> QED BY <1>2, MoreArcsJoin DEF Connected

\* Residues vanish when the first routing is done.
LEMMA RouteClears == SolverInv /\ SolverInv' /\ Route => ResiduesVanish'
<1> SUFFICES ASSUME SolverInv, SolverInv', Route, SomeTreeSpans', NEW v \in Nodes \ {Ground}
             PROVE  Residue(delta', v) = 0
  BY DEF ResiduesVanish
<1>1. cost' = cost /\ CorrectBy(InitialCorrections(cost, delta))
  BY DEF Route, input
<1>2. AreCosts(cost) /\ DOMAIN delta = DOMAIN cost /\ AreFlows(delta, DOMAIN delta)
  BY DEF SolverInv, DataInv
<1>3. Connected(DOMAIN cost)
  <2>1. PICK index \in 1 .. 2 : Cardinality(trees'[index]) + 1 = Cardinality(Nodes)
    BY DEF SomeTreeSpans
  <2>2. trees'[index] \in SUBSET ArcsOf(DOMAIN cost) /\ IsForest(trees'[index])
    BY <1>1 DEF SolverInv, TreesInv
  <2> QED BY <1>2, <2>1, <2>2, SpanningConnects
<1>4. /\ DOMAIN delta' = DOMAIN cost
      /\ \A edge \in DOMAIN cost :
             delta'[edge] = delta[edge] + InitialCorrections(cost, delta)[edge]
  BY <1>1, <1>2 DEF CorrectBy
<1> QED BY <1>2, <1>3, <1>4, RoutingClearsResidues

\* No increment of a cycle brings one back.
LEMMA PushKeepsClear == SolverInv /\ ResiduesVanish /\ Push => ResiduesVanish'
<1> SUFFICES ASSUME SolverInv, ResiduesVanish, Push, SomeTreeSpans', NEW v \in Nodes \ {Ground}
             PROVE  Residue(delta', v) = 0
  BY DEF ResiduesVanish
<1> DEFINE cycle == CycleOf(Head(batch))
           change == [edge \in DOMAIN delta |-> CorrectionOf(cycle, edge)]
<1>1. pc = "saturate" /\ trees' = trees /\ CorrectBy(change)
  BY DEF Push
<1>2. Residue(delta, v) = 0
  BY <1>1 DEF ResiduesVanish, SomeTreeSpans
<1>3. /\ cycle \in SUBSET ArcsOf(DOMAIN cost) /\ IsOneWay(cycle) /\ IsCycle(cycle)
      /\ DOMAIN cost \in SUBSET Edges
      /\ nflow \in Nat \ {0} /\ DOMAIN delta = DOMAIN cost /\ AreFlows(delta, DOMAIN cost)
  BY <1>1, SaturatedIsCycle, OptimizerAssumption DEF SolverInv, DataInv, ControlInv, AreCosts
<1>4. /\ DOMAIN delta' = DOMAIN cost
      /\ \A edge \in DOMAIN cost : delta'[edge] = delta[edge] + CorrectionOf(cycle, edge)
  BY <1>1, <1>3 DEF CorrectBy
<1> HIDE DEF cycle
<1> QED BY <1>2, <1>3, <1>4, CycleKeepsResidue

\* A tree is pivoted only when it spans the graph.
LEMMA PivotKeepsClear == SolverInv /\ ResiduesVanish /\ EndOfCycle => ResiduesVanish'
<1> SUFFICES ASSUME SolverInv, ResiduesVanish, EndOfCycle, SomeTreeSpans' PROVE ResiduesVanish'
  BY DEF ResiduesVanish
<1>1. pc = "saturate" /\ delta' = delta
  BY DEF EndOfCycle, arrays
<1>2. SomeTreeSpans
  <2>1. CASE trees' = trees
    BY <2>1 DEF SomeTreeSpans
  <2>2. CASE trees' # trees
    <3>1. stage < 3
      BY <2>2 DEF EndOfCycle
    <3>2. stage \in 1 .. 2 /\ IsSpanningTree(trees[stage])
      BY <1>1, <3>1 DEF SolverInv, BatchInv, ControlInv
    <3> QED BY <3>2 DEF SomeTreeSpans, IsSpanningTree
  <2> QED BY <2>1, <2>2
<1> QED BY <1>1, <1>2 DEF ResiduesVanish

\* Once the residues of a connected graph are routed, the deltas around every
\* plaquette add up to zero for ever: the labels do not depend on the way in
\* which they are read off.
THEOREM ResiduesStayClear == Spec => []ResiduesVanish
<1>1. Init => ResiduesVanish
  BY DEF Init, ResiduesVanish
<1>2. SolverInv /\ SolverInv' /\ ResiduesVanish /\ [Next]_vars => ResiduesVanish'
  <2> SUFFICES ASSUME SolverInv, SolverInv', ResiduesVanish, [Next]_vars PROVE ResiduesVanish'
    OBVIOUS
  <2>1. CASE Route
    BY <2>1, RouteClears
  <2>2. CASE Push
    BY <2>2, PushKeepsClear
  <2>3. CASE EndOfCycle
    BY <2>3, PivotKeepsClear
  <2>4. ASSUME pc # "route", delta' = delta, trees' = trees PROVE ResiduesVanish'
    BY <2>4 DEF ResiduesVanish, SomeTreeSpans
  <2>5. CASE SelectTreeCycles
    BY <2>4, <2>5 DEF SelectTreeCycles, arrays
  <2>6. CASE LeaveTree
    BY <2>4, <2>6 DEF LeaveTree, arrays
  <2>7. CASE SelectFoundCycle
    BY <2>4, <2>7 DEF SelectFoundCycle, arrays
  <2>8. CASE NextWindow
    BY <2>4, <2>8 DEF NextWindow, arrays
  <2>9. CASE EndOfPass
    BY <2>4, <2>9 DEF EndOfPass, arrays
  <2>10. CASE CheckObjective
    BY <2>4, <2>10 DEF CheckObjective, arrays
  <2>11. CASE UNCHANGED vars
    BY <2>11 DEF vars, arrays, ResiduesVanish, SomeTreeSpans
  <2> QED BY <2>1, <2>2, <2>3, <2>5, <2>6, <2>7, <2>8, <2>9, <2>10, <2>11 DEF Next, Finished
<1> QED BY <1>1, <1>2, SolverInvariant, PTL DEF Spec
=============================================================================

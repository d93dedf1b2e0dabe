--------------------------- MODULE PipelineProofs ---------------------------
(***************************************************************************)
(* The stage runner keeps its promises for every list of patches, any      *)
(* number of runs and any number of kills and errors.                      *)
(***************************************************************************)
EXTENDS Pipeline, TLAPS

-----------------------------------------------------------------------------
(* The inductive invariant.                                                *)

\* What invalidate_downstream removes before u is executed.
Doomed(u) == {Owner(u, i) : i \in {j \in DOMAIN Products : ShouldRemove(u, j)}}

\* Only a unit of the requested range is invalidated and executed, and never
\* in a dry run.
PositionInv ==
    /\ pos # 0 /\ scan # 0
    /\ pc \in {"invalidate", "execute"} => InRange(pos) /\ ~dry

\* Only what invalidation spares can become stale: Stage 7 when Stage 6 is run
\* again, and Stage 8 computed from it.
StaleInv == \A u \in Units : stale[u] => u.stage >= 7

\* The loop over the products has removed everything before `scan`.
ScanInv == pc = "invalidate" =>
    \A i \in DOMAIN Products :
        i < scan /\ ShouldRemove(Unit, i) => ~Has(Owner(Unit, i), Products[i].kind)

\* Nothing downstream of the unit is left when it is computed.
RemovedInv == pc = "execute" => \A d \in Doomed(Unit) : files[d] = {}

\* A marker vouches for its bundle and, up to Stage 5, for the markers of the
\* upstream units.
Backed(u) == Marked(u) =>
    /\ files[u] = Kinds(u)
    /\ u.stage <= 5 => \A d \in Upstream(u) : Marked(d)

BackedInv == ~cut =>
    \A u \in Units : (pc = "invalidate" => u \notin Doomed(Unit)) => Backed(u)

\* The units a running run has passed.
Visited == {Order[j] : j \in {k \in DOMAIN Order : k < pos}}

\* A resumed run leaves a completion artifact at every unit it passes.
ResumeInv == pc # "idle" /\ Resume /\ ~dry => \A u \in Visited : Marked(u)

\* The report speaks of visited units only and is true at every moment.
ReportInv ==
    \A u \in Units : status[u] \in {"completed", "skipped_existing"} =>
        /\ Marked(u)
        /\ cut \/ files[u] = Kinds(u)
        /\ pc # "idle" => u \in Visited

IInv ==
    /\ TypeOK
    /\ PositionInv
    /\ StaleInv
    /\ ScanInv
    /\ RemovedInv
    /\ BackedInv
    /\ ResumeInv
    /\ ReportInv
-----------------------------------------------------------------------------
(* The order of the visits.                                                *)

\* Euclid for the index arithmetic of Order.
LEMMA Division ==
    ASSUME NEW n \in Nat \ {0}, NEW k \in Nat
    PROVE  /\ k \div n \in Nat
           /\ k % n \in 0..(n - 1)
           /\ k = n * (k \div n) + (k % n)
OBVIOUS

\* Quotient and remainder.
LEMMA Quotient ==
    ASSUME NEW n \in Nat \ {0}, NEW q \in 0..4, NEW r \in 0..(n - 1)
    PROVE  (q * n + r) \div n = q /\ (q * n + r) % n = r
<1> DEFINE k == q * n + r
           d == k \div n
           m == k % n
<1>1. k \in Nat
  OBVIOUS
<1>2. d \in Nat /\ m \in 0..(n - 1) /\ k = n * d + m
  BY <1>1, Division
<1> HIDE DEF d, m
<1>3. n * d + m = q * n + r
  BY <1>2
<1>4. d < q + 1
  BY <1>2, <1>3
<1>5. d \in 0..4
  BY <1>2, <1>4
<1>6. d = q
  BY <1>2, <1>3, <1>5
<1> QED BY <1>2, <1>6, <1>3 DEF d, m

\* The patches are a function on 1..Len(Patches), and Root is none of them.
LEMMA PatchFacts ==
    /\ Len(Patches) \in Nat \ {0}
    /\ DOMAIN Patches = 1..Len(Patches)
    /\ \A i \in 1..Len(Patches) : Patches[i] \in Dirs
    /\ \A p \in Dirs : \E i \in 1..Len(Patches) : Patches[i] = p
    /\ Root \notin Dirs
BY PipelineAssumption DEF Dirs

\* The visits of the patches form five rounds of n.
LEMMA Rounds ==
    ASSUME NEW n \in Nat \ {0}, NEW i \in 1..(5 * n)
    PROVE  \E q \in 0..4 :
              /\ (i - 1) \div n = q
              /\ q * n < i
              /\ i <= (q + 1) * n
<1> DEFINE q == (i - 1) \div n
           r == (i - 1) % n
<1>1. q \in Nat /\ r \in 0..(n - 1) /\ i - 1 = n * q + r
  <2>1. i - 1 \in Nat
    OBVIOUS
  <2> QED BY <2>1, Division
<1> HIDE DEF q, r
<1>2. q < 5
  BY <1>1
<1>3. q \in {0, 1, 2, 3, 4}
  BY <1>1, <1>2
<1>4. q * n < i /\ i <= (q + 1) * n
  BY <1>1, <1>3
<1> QED
  BY <1>3, <1>4 DEF q

\* The length of the order.
LEMMA OrderDomain == DOMAIN Order = 1..(5 * Len(Patches) + 4)
BY DEF Order

\* A visit in round q is one of a patch at stage q + 1.
LEMMA PatchVisit ==
    ASSUME NEW i \in 1..(5 * Len(Patches))
    PROVE  \E q \in 0..4, p \in Dirs :
              /\ Order[i] = [stage |-> 1 + q, at |-> p]
              /\ q * Len(Patches) < i
              /\ i <= (q + 1) * Len(Patches)
<1> DEFINE r == (i - 1) % Len(Patches)
<1>1. PICK q \in 0..4 : /\ (i - 1) \div Len(Patches) = q
                        /\ q * Len(Patches) < i
                        /\ i <= (q + 1) * Len(Patches)
  BY Rounds, PatchFacts
<1>2. r \in 0..(Len(Patches) - 1)
  <2>1. i - 1 \in Nat
    BY PatchFacts
  <2> QED BY <2>1, Division, PatchFacts
<1>3. Order[i] = [stage |-> 1 + ((i - 1) \div Len(Patches)), at |-> Patches[1 + r]]
  BY PatchFacts DEF Order
<1> HIDE DEF r
<1>4. Patches[1 + r] \in Dirs
  BY <1>2, PatchFacts
<1> QED BY <1>1, <1>3, <1>4

\* The last visits are those of the root.
LEMMA RootVisit ==
    ASSUME NEW i \in DOMAIN Order, i > 5 * Len(Patches)
    PROVE  Order[i] = [stage |-> 4 + i - 5 * Len(Patches), at |-> Root]
BY PatchFacts DEF Order

\* Every visit is of a unit.
LEMMA OrderUnits == \A i \in DOMAIN Order : Order[i] \in Units
<1> SUFFICES ASSUME NEW i \in DOMAIN Order PROVE Order[i] \in Units
  OBVIOUS
<1>1. CASE i <= 5 * Len(Patches)
  <2> i \in 1..(5 * Len(Patches))
    BY <1>1, OrderDomain, PatchFacts
  <2>1. PICK q \in 0..4, p \in Dirs : Order[i] = [stage |-> 1 + q, at |-> p]
    BY PatchVisit
  <2> QED BY <2>1 DEF Units
<1>2. CASE i > 5 * Len(Patches)
  BY <1>2, RootVisit, OrderDomain, PatchFacts DEF Units
<1> QED BY <1>1, <1>2, OrderDomain, PatchFacts

\* A later visit is of the same or a later stage, no patch is visited after the
\* root, and the root is visited once per stage.
LEMMA OrderMonotone ==
    ASSUME NEW i \in DOMAIN Order, NEW j \in DOMAIN Order, j < i
    PROVE  IF Order[j].at = Root
             THEN Order[i].at = Root /\ Order[j].stage < Order[i].stage
             ELSE Order[j].stage <= Order[i].stage
<1>1. CASE i <= 5 * Len(Patches)
  <2> i \in 1..(5 * Len(Patches)) /\ j \in 1..(5 * Len(Patches))
    BY <1>1, OrderDomain, PatchFacts
  <2>1. PICK q \in 0..4, p \in Dirs :
          /\ Order[i] = [stage |-> 1 + q, at |-> p]
          /\ i <= (q + 1) * Len(Patches)
    BY PatchVisit
  <2>2. PICK t \in 0..4, d \in Dirs :
          /\ Order[j] = [stage |-> 1 + t, at |-> d]
          /\ t * Len(Patches) < j
    BY PatchVisit
  <2>3. t <= q
    BY <2>1, <2>2, OrderDomain, PatchFacts
  <2> QED BY <2>1, <2>2, <2>3, PatchFacts
<1>2. CASE i > 5 * Len(Patches) /\ j > 5 * Len(Patches)
  BY <1>2, RootVisit, OrderDomain, PatchFacts
<1>3. CASE i > 5 * Len(Patches) /\ j <= 5 * Len(Patches)
  <2> j \in 1..(5 * Len(Patches))
    BY <1>3, OrderDomain, PatchFacts
  <2>1. PICK t \in 0..4, d \in Dirs : Order[j] = [stage |-> 1 + t, at |-> d]
    BY PatchVisit
  <2>2. Order[i].stage >= 5
    BY <1>3, RootVisit, OrderDomain, PatchFacts
  <2> QED BY <2>1, <2>2, OrderUnits, PatchFacts DEF Units
<1> QED BY <1>1, <1>2, <1>3, OrderDomain, PatchFacts

\* Every unit is visited.
LEMMA OrderComplete == \A u \in Units : \E i \in DOMAIN Order : Order[i] = u
<1> SUFFICES ASSUME NEW u \in Units PROVE \E i \in DOMAIN Order : Order[i] = u
  OBVIOUS
<1>1. CASE u.at = Root
  <2>1. u = [stage |-> u.stage, at |-> Root] /\ u.stage \in 5..8
    BY <1>1, PatchFacts DEF Units
  <2> DEFINE i == u.stage - 4 + 5 * Len(Patches)
  <2>2. i \in DOMAIN Order /\ i > 5 * Len(Patches)
    BY <2>1, OrderDomain, PatchFacts
  <2>3. Order[i] = [stage |-> 4 + i - 5 * Len(Patches), at |-> Root]
    BY <2>2, RootVisit
  <2>4. 4 + i - 5 * Len(Patches) = u.stage
    BY <2>1, PatchFacts
  <2> QED BY <2>1, <2>2, <2>3, <2>4
<1>2. CASE u.at # Root
  <2>1. u.stage \in 1..5 /\ u.at \in Dirs /\ u = [stage |-> u.stage, at |-> u.at]
    BY <1>2 DEF Units
  <2>2. PICK k \in 1..Len(Patches) : Patches[k] = u.at
    BY <2>1, PatchFacts
  <2> DEFINE n == Len(Patches)
             i == (u.stage - 1) * n + k
  <2>3. n \in Nat \ {0} /\ k \in 1..n
    BY PatchFacts
  <2> HIDE DEF n
  <2>4. i \in 1..(5 * n)
    BY <2>1, <2>3
  <2>5. (i - 1) \div n = u.stage - 1 /\ (i - 1) % n = k - 1
    <3>1. i - 1 \in Nat /\ i - 1 = (u.stage - 1) * n + (k - 1)
      BY <2>1, <2>3
    <3>2. u.stage - 1 \in 0..4 /\ k - 1 \in 0..(n - 1)
      BY <2>1, <2>3
    <3> QED BY <3>1, <3>2, <2>3, Quotient
  <2>6. Order[i] = [stage |-> 1 + ((i - 1) \div n), at |-> Patches[1 + ((i - 1) % n)]]
    BY <2>4 DEF Order, n
  <2>7. i \in DOMAIN Order
    BY <2>4, OrderDomain, PatchFacts DEF n
  <2> HIDE DEF i
  <2>8. Order[i] = u
    BY <2>1, <2>2, <2>5, <2>6
  <2> QED BY <2>7, <2>8
<1> QED BY <1>1, <1>2

\* The first visit of every stage exists: a run starts at one of the visits.
LEMMA FirstOfIsVisit ==
    ASSUME NEW s \in 0..8
    PROVE  FirstOf(s) \in DOMAIN Order /\ (s = 0 => FirstOf(s) = 1)
<1>1. CASE s <= 1
  BY <1>1, OrderDomain, PatchFacts DEF FirstOf
<1>2. CASE s > 1
  <2>1. \E i \in DOMAIN Order : /\ Order[i].stage = s
                               /\ \A j \in 1..(i - 1) : Order[j].stage < s
    <3>1. CASE s <= 5
      <4> DEFINE n == Len(Patches)
                 i == (s - 1) * n + 1
      <4>1. n \in Nat \ {0}
        BY PatchFacts
      <4> HIDE DEF n
      <4>2. i \in 1..(5 * n)
        BY <1>2, <3>1, <4>1
      <4>3. (i - 1) \div n = s - 1
        <5>1. i - 1 = (s - 1) * n + 0 /\ s - 1 \in 0..4 /\ 0 \in 0..(n - 1)
          BY <1>2, <3>1, <4>1, <4>2
        <5> QED BY <4>1, <5>1, Quotient
      <4>4. Order[i].stage = s
        BY <4>2, <4>3 DEF Order, n
      <4>5. ASSUME NEW j \in 1..(i - 1) PROVE Order[j].stage < s
        <5>1. j \in 1..(5 * n) /\ j <= (s - 1) * n
          BY <4>1, <4>2, <1>2, <3>1
        <5>2. PICK q \in 0..4, p \in Dirs : /\ Order[j] = [stage |-> 1 + q, at |-> p]
                                            /\ q * n < j
          BY <5>1, PatchVisit DEF n
        <5>3. q < s - 1
          BY <5>1, <5>2, <4>1, <1>2, <3>1
        <5> QED BY <5>2, <5>3
      <4>6. i \in DOMAIN Order
        BY <4>1, <4>2, OrderDomain DEF n
      <4> QED BY <4>4, <4>5, <4>6
    <3>2. CASE s > 5
      <4> DEFINE i == 5 * Len(Patches) + s - 4
      <4>1. i \in DOMAIN Order /\ i > 5 * Len(Patches)
        BY <3>2, OrderDomain, PatchFacts
      <4>2. Order[i] = [stage |-> s, at |-> Root]
        <5>1. 4 + i - 5 * Len(Patches) = s
          BY PatchFacts
        <5> QED BY <4>1, <5>1, RootVisit
      <4>3. ASSUME NEW j \in 1..(i - 1) PROVE Order[j].stage < s
        <5>1. j \in DOMAIN Order /\ j < i
          BY <4>1, OrderDomain, PatchFacts
        <5>2. CASE j > 5 * Len(Patches)
          BY <5>1, <5>2, RootVisit, PatchFacts, OrderDomain
        <5>3. CASE j <= 5 * Len(Patches)
          <6>1. j \in 1..(5 * Len(Patches))
            BY <5>1, <5>3, OrderDomain, PatchFacts
          <6>2. PICK q \in 0..4, p \in Dirs : Order[j] = [stage |-> 1 + q, at |-> p]
            BY <6>1, PatchVisit
          <6> QED BY <6>2, <3>2
        <5> QED BY <5>1, <5>2, <5>3, OrderDomain, PatchFacts
      <4> QED BY <4>1, <4>2, <4>3
    <3> QED BY <3>1, <3>2
  <2> QED BY <1>2, <2>1 DEF FirstOf
<1> QED BY <1>1, <1>2

\* What is upstream of a unit comes before it in the order.
LEMMA UpstreamIsVisited ==
    ASSUME pos \in DOMAIN Order, NEW d \in Upstream(Unit)
    PROVE  d \in Visited
<1>1. d \in Units /\ Unit \in Units /\ Unit \in Downstream(d)
  BY OrderUnits DEF Upstream, Unit
<1>2. PICK j \in DOMAIN Order : Order[j] = d
  BY <1>1, OrderComplete
<1>3. ~(pos < j)
  <2> SUFFICES ASSUME pos < j PROVE FALSE
    OBVIOUS
  <2>1. IF Unit.at = Root THEN d.at = Root /\ Unit.stage < d.stage ELSE Unit.stage <= d.stage
    BY <1>2, OrderMonotone DEF Unit
  <2> QED BY <1>1, <2>1, PatchFacts DEF Downstream, Units
<1>4. j # pos
  BY <1>1, <1>2, PatchFacts DEF Downstream, Units, Unit
<1> QED BY <1>2, <1>3, <1>4, OrderDomain, PatchFacts DEF Visited

-----------------------------------------------------------------------------
(* What invalidation removes.                                              *)

\* The products that are removed, by kind.
LEMMA ProductTable ==
    /\ DOMAIN Products = 1..15
    /\ \A i \in 1..6 : Products[i] = PatchProducts[i]
    /\ \A i \in 7..15 : Products[i] = RootProducts[i - 6]
    /\ \A i \in 1..15 : InPatchList(i) <=> i <= 6
BY DEF Products, PatchProducts, RootProducts, InPatchList

\* The rules agree with the dependencies: a rerun of u removes exactly what is
\* downstream of it, except Stage 7 when Stage 6 is rerun.
LEMMA DoomedIsDownstream ==
    ASSUME NEW u \in Units
    PROVE  Doomed(u) = {d \in Downstream(u) : ~(u.stage = 6 /\ d.stage = 7)}
<1>1. CASE u.at = Root
  <2>1. u.stage \in 5..8
    BY <1>1, PatchFacts DEF Units
  <2>2. ASSUME NEW d \in Doomed(u)
        PROVE  d \in Downstream(u) /\ ~(u.stage = 6 /\ d.stage = 7)
    <3>1. PICK i \in 1..15 : ShouldRemove(u, i) /\ d = Owner(u, i)
      BY ProductTable DEF Doomed
    <3>2. i \in 7..15
      BY <1>1, <2>1, <3>1, ProductTable DEF ShouldRemove, PatchProducts
    <3> QED BY <1>1, <2>1, <3>1, <3>2, ProductTable
            DEF ShouldRemove, RootProducts, Owner, Downstream, Units
  <2>3. ASSUME NEW d \in Downstream(u), ~(u.stage = 6 /\ d.stage = 7)
        PROVE  d \in Doomed(u)
    <3>1. d = [stage |-> d.stage, at |-> Root] /\ d.stage \in 6..8 /\ d.stage > u.stage
      BY <1>1, <2>1, PatchFacts DEF Downstream, Units
    <3>2. \E i \in 7..15 : ShouldRemove(u, i) /\ Owner(u, i) = d
      BY <1>1, <2>1, <2>3, <3>1, ProductTable DEF ShouldRemove, RootProducts, Owner
    <3> QED BY <3>2, ProductTable DEF Doomed
  <2> QED BY <2>2, <2>3
<1>2. CASE u.at # Root
  <2>1. u.stage \in 1..5 /\ u.at \in Dirs
    BY <1>2 DEF Units
  <2>2. ASSUME NEW d \in Doomed(u)
        PROVE  d \in Downstream(u)
    <3>1. PICK i \in 1..15 : ShouldRemove(u, i) /\ d = Owner(u, i)
      BY ProductTable DEF Doomed
    <3>2. CASE i \in 1..6
      BY <1>2, <2>1, <3>1, <3>2, ProductTable
         DEF ShouldRemove, PatchProducts, Owner, Downstream, Units
    <3>3. CASE i \in 7..15
      BY <1>2, <2>1, <3>1, <3>3, ProductTable
         DEF ShouldRemove, RootProducts, Owner, Downstream, Units
    <3> QED BY <3>2, <3>3
  <2>3. ASSUME NEW d \in Downstream(u)
        PROVE  d \in Doomed(u)
    <3>1. CASE d.at = Root
      <4>1. d = [stage |-> d.stage, at |-> Root] /\ d.stage \in 5..8
        BY <3>1, PatchFacts DEF Downstream, Units
      <4>2. \E i \in 7..15 : ShouldRemove(u, i) /\ Owner(u, i) = d
        BY <1>2, <4>1, ProductTable DEF ShouldRemove, RootProducts, Owner
      <4> QED BY <4>2, ProductTable DEF Doomed
    <3>2. CASE d.at # Root
      <4>1. d = [stage |-> d.stage, at |-> u.at] /\ d.stage \in 2..5 /\ d.stage > u.stage
        BY <2>1, <3>2, PatchFacts DEF Downstream, Units
      <4>2. \E i \in 1..6 : ShouldRemove(u, i) /\ Owner(u, i) = d
        BY <1>2, <2>1, <4>1, ProductTable DEF ShouldRemove, PatchProducts, Owner
      <4> QED BY <4>2, ProductTable DEF Doomed
    <3> QED BY <3>1, <3>2
  <2> QED BY <2>1, <2>2, <2>3
<1> QED BY <1>1, <1>2

\* No file of a doomed unit is spared.
LEMMA EveryKindIsRemoved ==
    ASSUME NEW u \in Units, NEW d \in Doomed(u), NEW k \in Kinds(d)
    PROVE  \E i \in DOMAIN Products :
              ShouldRemove(u, i) /\ Owner(u, i) = d /\ Products[i].kind = k
<1>1. d \in Downstream(u) /\ ~(u.stage = 6 /\ d.stage = 7)
  BY DoomedIsDownstream
<1>2. CASE d.at = Root
  <2>1. d = [stage |-> d.stage, at |-> Root] /\ d.stage \in 5..8
    BY <1>1, <1>2, PatchFacts DEF Downstream, Units
  <2>2. u.at # Root \/ (u.at = Root /\ u.stage \in 5..8 /\ d.stage > u.stage)
    BY <1>1, PatchFacts DEF Downstream, Units
  <2>3. \E i \in 7..15 : ShouldRemove(u, i) /\ Owner(u, i) = d /\ Products[i].kind = k
    BY <1>1, <2>1, <2>2, ProductTable DEF ShouldRemove, RootProducts, Owner, Kinds
  <2> QED BY <2>3, ProductTable
<1>3. CASE d.at # Root
  <2>1. /\ u.at # Root /\ u.stage \in 1..5
        /\ d = [stage |-> d.stage, at |-> u.at] /\ d.stage \in 2..5 /\ d.stage > u.stage
    BY <1>1, <1>3, PatchFacts DEF Downstream, Units
  <2>2. \E i \in 1..6 : ShouldRemove(u, i) /\ Owner(u, i) = d /\ Products[i].kind = k
    BY <2>1, ProductTable DEF ShouldRemove, PatchProducts, Owner, Kinds
  <2> QED BY <2>2, ProductTable
<1> QED BY <1>2, <1>3

\* A run never removes what it has already visited.
LEMMA VisitedIsSpared ==
    ASSUME pos \in DOMAIN Order
    PROVE  /\ Visited \subseteq Units
           /\ Unit \in Units /\ Unit \notin Doomed(Unit)
           /\ \A u \in Visited : u \notin Doomed(Unit)
<1>1. Visited \subseteq Units /\ Unit \in Units
  BY OrderUnits DEF Visited, Unit
<1>2. Unit \notin Doomed(Unit)
  BY <1>1, DoomedIsDownstream, PatchFacts DEF Downstream, Units
<1>3. ASSUME NEW u \in Visited PROVE u \notin Doomed(Unit)
  <2>1. PICK j \in DOMAIN Order : Order[j] = u /\ j < pos
    BY DEF Visited
  <2>2. IF u.at = Root THEN Unit.at = Root /\ u.stage < Unit.stage ELSE u.stage <= Unit.stage
    BY <2>1, OrderMonotone DEF Unit
  <2> QED BY <1>1, <2>2, DoomedIsDownstream, PatchFacts DEF Downstream, Units
<1> QED BY <1>1, <1>2, <1>3

\* A unit up to Stage 5 whose input is removed is removed with it.
LEMMA DoomedIsClosed ==
    ASSUME NEW v \in Units, NEW u \in Units, u.stage <= 5, NEW d \in Upstream(u), d \in Doomed(v)
    PROVE  u \in Doomed(v)
<1>1. d \in Units /\ u \in Downstream(d) /\ d \in Downstream(v)
  BY DoomedIsDownstream DEF Upstream
<1>2. u \in Downstream(v)
  BY <1>1, PatchFacts DEF Downstream, Units
<1> QED BY <1>2, DoomedIsDownstream DEF Units

-----------------------------------------------------------------------------
(* The steps.                                                              *)

\* What was visited stays visited.
LEMMA VisitedGrows ==
    ASSUME pos \in DOMAIN Order, pos' = pos + 1
    PROVE  Visited' = Visited \cup {Unit}
BY OrderDomain, PatchFacts DEF Visited, Unit

\* Nothing has been computed and no run has started.
LEMMA InitIInv == Init => IInv
<1> SUFFICES ASSUME Init PROVE IInv
  OBVIOUS
<1>1. \A u \in Units : Kinds(u) \subseteq {"data", "marker", "more"}
  BY DEF Kinds, Units
<1>2. TypeOK
  <2>1. /\ files \in [Units -> SUBSET {"data", "marker", "more"}]
        /\ \A u \in Units : files[u] \subseteq Kinds(u)
    BY <1>1 DEF Init
  <2>2. stale \in [Units -> BOOLEAN] /\ status \in [Units -> Statuses]
    BY DEF Init, Statuses
  <2>3. pc = "idle" /\ cut \in BOOLEAN /\ dry \in BOOLEAN
    BY Zenon DEF Init
  <2>4. /\ pos \in Nat /\ scan \in Nat
        /\ start \in 0..8 /\ end \in 0..8 /\ faults \in 0..MaxFaults /\ runs \in 0..MaxRuns
    BY PipelineAssumption DEF Init
  <2> QED BY <2>1, <2>2, <2>3, <2>4 DEF TypeOK
<1>3. BackedInv
  <2> SUFFICES ASSUME NEW u \in Units, Marked(u), u.stage <= 5, NEW d \in Upstream(u)
               PROVE  Marked(d)
    BY DEF BackedInv, Backed, Init, Marked, Has
  <2>1. d \in Units /\ "marker" \in Kinds(d)
    BY DEF Upstream, Kinds, Units
  <2> QED BY <2>1 DEF Init, Marked, Has
<1> QED BY <1>2, <1>3 DEF Init, IInv, PositionInv, StaleInv, ScanInv, RemovedInv,
           ResumeInv, ReportInv

\* A new run: the disk is what the last one left.
LEMMA RunPipelineKeeps ==
    ASSUME IInv, NEW s \in 0..8, NEW e \in 0..8, NEW d \in BOOLEAN,
           RunPipeline(s, e, d), runs' \in 0..MaxRuns
    PROVE  IInv'
<1> USE DEF IInv, RunPipeline, disk
<1>1. pos' \in Nat \ {0} /\ (s = 0 => pos' = 1)
  <2>1. FirstOf(s) \in DOMAIN Order /\ (s = 0 => FirstOf(s) = 1)
    BY FirstOfIsVisit
  <2> QED BY <2>1, OrderDomain, PatchFacts
<1>2. TypeOK'
  BY <1>1 DEF TypeOK, Statuses
<1>3. BackedInv'
  BY DEF BackedInv, Backed, Marked, Has
<1>4. ResumeInv'
  <2> SUFFICES ASSUME s = 0 PROVE Visited' = {}
    BY DEF ResumeInv, Resume
  <2> QED BY <1>1, OrderDomain, PatchFacts DEF Visited
<1> QED BY <1>1, <1>2, <1>3, <1>4 DEF PositionInv, StaleInv, ScanInv, RemovedInv, ReportInv

\* A unit is passed without being run.
LEMMA PassKeeps ==
    ASSUME IInv, Skip \/ Plan
    PROVE  IInv'
<1> USE DEF IInv, disk, request, Report
<1>1. /\ pos \in DOMAIN Order /\ pos' = pos + 1 /\ pos \in Nat
      /\ pc = "visit" /\ pc' = "visit" /\ UNCHANGED <<files, stale, cut, scan, start, end, dry>>
  BY DEF TypeOK, Skip, Plan, InRange
<1>2. Unit \in Units /\ Visited' = Visited \cup {Unit}
  BY <1>1, OrderUnits, VisitedGrows DEF Unit
<1>3. TypeOK'
  BY <1>1, <1>2 DEF TypeOK, Statuses, Skip, Plan
<1>4. PositionInv' /\ StaleInv' /\ ScanInv' /\ RemovedInv'
  BY <1>1 DEF PositionInv, StaleInv, ScanInv, RemovedInv
<1>5. BackedInv'
  BY <1>1 DEF BackedInv, Backed, Marked, Has
<1>6. ResumeInv'
  BY <1>1, <1>2 DEF ResumeInv, Resume, Marked, Has, Skip, Plan
<1>7. ReportInv'
  <2> SUFFICES ASSUME NEW u \in Units, status'[u] \in {"completed", "skipped_existing"}
               PROVE  Marked(u) /\ (cut \/ files[u] = Kinds(u)) /\ u \in Visited'
    BY <1>1 DEF ReportInv, Marked, Has
  <2>1. CASE u = Unit
    BY <1>1, <1>2, <2>1 DEF TypeOK, Skip, Plan, BackedInv, Backed
  <2>2. CASE u # Unit
    BY <1>1, <1>2, <2>2 DEF TypeOK, Skip, Plan, ReportInv
  <2> QED BY <2>1, <2>2
<1> QED BY <1>3, <1>4, <1>5, <1>6, <1>7

\* The removals are planned.
LEMMA InvalidateKeeps ==
    ASSUME IInv, Invalidate
    PROVE  IInv'
<1> USE DEF IInv, disk, request, Invalidate
<1>1. pos \in DOMAIN Order /\ Unit \in Units
  BY OrderUnits DEF InRange, Unit
<1>2. scan' \in {1, 7} /\ (scan' = 7 => Unit.at = Root)
  BY DEF FirstProduct, PatchProducts
<1>3. TypeOK' /\ PositionInv' /\ StaleInv' /\ RemovedInv'
  BY <1>1, <1>2 DEF TypeOK, PositionInv, InRange, StaleInv, RemovedInv
<1>4. ScanInv'
  <2> SUFFICES ASSUME NEW i \in 1..15, i < scan', ShouldRemove(Unit, i)
               PROVE  FALSE
    BY ProductTable DEF ScanInv, Unit
  <2>1. i \in 1..6 /\ Unit.at = Root
    BY <1>2
  <2>2. Unit.stage \in 5..8
    BY <1>1, <2>1, PatchFacts DEF Units
  <2> QED BY <2>1, <2>2, ProductTable DEF ShouldRemove, PatchProducts
<1>5. BackedInv'
  BY DEF BackedInv, Backed, Marked, Has
<1>6. ResumeInv' /\ ReportInv'
  BY DEF ResumeInv, ReportInv, Resume, Marked, Has, Visited
<1> QED BY <1>3, <1>4, <1>5, <1>6

\* What a removal does: it may only take products of doomed units.
LEMMA RemovalSpares ==
    ASSUME IInv, RemoveProduct
    PROVE  /\ pos \in DOMAIN Order /\ Unit \in Units
           /\ files' \in [Units -> SUBSET {"data", "marker", "more"}]
           /\ \A u \in Units : files'[u] \subseteq files[u]
           /\ \A u \in Units \ Doomed(Unit) : files'[u] = files[u]
<1>1. pos \in DOMAIN Order /\ Unit \in Units
  BY OrderUnits DEF IInv, PositionInv, RemoveProduct, InRange, Unit
<1>2. files \in [Units -> SUBSET {"data", "marker", "more"}]
  BY DEF IInv, TypeOK
<1>3. CASE ShouldRemove(Unit, scan)
  <2>1. Owner(Unit, scan) \in Doomed(Unit)
    BY <1>3 DEF RemoveProduct, Doomed
  <2>2. files' = [files EXCEPT ![Owner(Unit, scan)] = @ \ {Products[scan].kind}]
    BY <1>3 DEF RemoveProduct
  <2> QED BY <1>1, <1>2, <2>1, <2>2
<1>4. CASE ~ShouldRemove(Unit, scan)
  BY <1>1, <1>2, <1>4 DEF RemoveProduct
<1> QED BY <1>3, <1>4

\* A product is removed.
LEMMA RemoveProductKeeps ==
    ASSUME IInv, RemoveProduct
    PROVE  IInv'
<1> USE DEF IInv, request
<1>1. /\ pc = "invalidate" /\ scan \in DOMAIN Products /\ scan' = scan + 1
      /\ UNCHANGED <<stale, cut, pc, pos, start, end, dry, status, faults, runs>>
  BY DEF RemoveProduct
<1>2. Unit' = Unit /\ Visited' = Visited
  BY <1>1 DEF Unit, Visited
<1>3. TypeOK'
  <2>1. \A u \in Units : files'[u] \subseteq Kinds(u)
    BY RemovalSpares DEF TypeOK
  <2> QED BY <1>1, <2>1, RemovalSpares, ProductTable DEF TypeOK
<1>4. PositionInv' /\ StaleInv' /\ RemovedInv'
  BY <1>1, ProductTable DEF PositionInv, InRange, StaleInv, RemovedInv
<1>5. ScanInv'
  <2> SUFFICES ASSUME NEW i \in DOMAIN Products, i < scan + 1, ShouldRemove(Unit, i)
               PROVE  Products[i].kind \notin files'[Owner(Unit, i)]
    BY <1>1, <1>2 DEF ScanInv, Has
  <2>1. Owner(Unit, i) \in Units
    <3>1. Owner(Unit, i) \in Doomed(Unit)
      BY DEF Doomed
    <3> QED BY <3>1, RemovalSpares, DoomedIsDownstream DEF Downstream
  <2>2. CASE i = scan
    BY <2>1, <2>2 DEF RemoveProduct, TypeOK
  <2>3. CASE i < scan
    BY <1>1, <2>1, <2>3, RemovalSpares DEF ScanInv, Has
  <2> QED BY <1>1, <2>2, <2>3, ProductTable
<1>6. BackedInv'
  <2> SUFFICES ASSUME ~cut, NEW u \in Units, u \notin Doomed(Unit), Marked(u)'
               PROVE  files'[u] = Kinds(u) /\ (u.stage <= 5 => \A d \in Upstream(u) : Marked(d)')
    BY <1>1, <1>2 DEF BackedInv, Backed
  <2>1. files'[u] = files[u] /\ Marked(u)
    BY RemovalSpares DEF Marked, Has
  <2>2. Backed(u)
    BY <1>1 DEF BackedInv
  <2>3. ASSUME u.stage <= 5, NEW d \in Upstream(u) PROVE Marked(d)'
    <3>1. d \in Units /\ d \notin Doomed(Unit)
      BY <2>3, RemovalSpares, DoomedIsClosed DEF Upstream
    <3> QED BY <2>1, <2>2, <2>3, <3>1, RemovalSpares DEF Backed, Marked, Has
  <2> QED BY <2>1, <2>2, <2>3 DEF Backed
<1>7. \A u \in Visited : u \in Units /\ files'[u] = files[u]
  BY RemovalSpares, VisitedIsSpared
<1>8. ResumeInv' /\ ReportInv'
  BY <1>1, <1>2, <1>7 DEF ResumeInv, ReportInv, Resume, Marked, Has
<1> QED BY <1>3, <1>4, <1>5, <1>6, <1>8

\* All products are visited: nothing doomed is left.
LEMMA InvalidatedKeeps ==
    ASSUME IInv, Invalidated
    PROVE  IInv'
<1> USE DEF IInv, disk, request, Invalidated
<1>1. Unit \in Units /\ Unit' = Unit /\ Visited' = Visited
  BY OrderUnits DEF PositionInv, InRange, Unit, Visited
<1>2. \A i \in DOMAIN Products : i < scan
  BY ProductTable DEF TypeOK, PositionInv
<1>3. \A d \in Doomed(Unit) : files[d] = {}
  <2> SUFFICES ASSUME NEW d \in Doomed(Unit), NEW k \in files[d] PROVE FALSE
    OBVIOUS
  <2>1. k \in Kinds(d)
    BY <1>1, DoomedIsDownstream DEF TypeOK, Downstream
  <2>2. PICK i \in DOMAIN Products :
          ShouldRemove(Unit, i) /\ Owner(Unit, i) = d /\ Products[i].kind = k
    BY <1>1, <2>1, EveryKindIsRemoved
  <2> QED BY <1>2, <2>2 DEF ScanInv, Has
<1>4. TypeOK' /\ PositionInv' /\ StaleInv' /\ ScanInv' /\ RemovedInv'
  BY <1>1, <1>3 DEF TypeOK, PositionInv, InRange, StaleInv, ScanInv, RemovedInv
<1>5. BackedInv'
  BY <1>3 DEF BackedInv, Backed, Marked, Has
<1>6. ResumeInv' /\ ReportInv'
  BY <1>1 DEF ResumeInv, ReportInv, Resume, Marked, Has
<1> QED BY <1>4, <1>5, <1>6

\* A removal that fails ends the run and is remembered in `cut`.
LEMMA RemoveFailsKeeps ==
    ASSUME IInv, RemoveFails
    PROVE  IInv'
<1> USE DEF IInv, disk, request, RemoveFails, Fault, Report
<1>1. Unit \in Units
  BY OrderUnits DEF PositionInv, InRange, Unit
<1>2. cut' = TRUE /\ pc' = "idle" /\ UNCHANGED <<files, stale, pos, scan, start, end, dry, runs>>
  OBVIOUS
<1>3. TypeOK'
  BY <1>1, <1>2, PipelineAssumption DEF TypeOK, Statuses
<1>4. PositionInv' /\ StaleInv' /\ ScanInv' /\ RemovedInv' /\ BackedInv' /\ ResumeInv'
  BY <1>2 DEF PositionInv, StaleInv, ScanInv, RemovedInv, BackedInv, ResumeInv
<1>5. ReportInv'
  BY <1>1, <1>2 DEF ReportInv, TypeOK, Marked, Has
<1> QED BY <1>3, <1>4, <1>5

\* When a unit is computed, all that a change of it could make stale is gone,
\* and what it reads below Stage 7 is fresh.
LEMMA RewriteIsFresh ==
    ASSUME IInv, pc = "execute", NEW fs \in SUBSET Kinds(Unit), Rewrite(Unit, fs)
    PROVE  /\ stale' \in [Units -> BOOLEAN]
           /\ StaleInv'
<1>1. Unit \in Units
  BY OrderUnits DEF IInv, PositionInv, InRange, Unit
<1>2. stale' = [d \in Units |->
                  IF d = Unit THEN fs # {} /\ ComputedFromStale(Unit)
                  ELSE stale[d] \/ (d \in Downstream(Unit) /\ files[d] # {})]
  BY DEF Rewrite
<1>3. stale' \in [Units -> BOOLEAN]
  <2>1. \A d \in Units : /\ (fs # {} /\ ComputedFromStale(Unit)) \in BOOLEAN
                         /\ (stale[d] \/ (d \in Downstream(Unit) /\ files[d] # {})) \in BOOLEAN
    BY Zenon
  <2> QED BY <1>2, <2>1
<1>4. ASSUME NEW u \in Units, stale'[u] PROVE u.stage >= 7
  <2>1. CASE u = Unit
    <3>1. PICK d \in Upstream(Unit) : stale[d]
      BY <1>1, <1>2, <1>4, <2>1 DEF ComputedFromStale
    <3>2. d.stage >= 7 /\ d \in Units
      BY <3>1 DEF IInv, StaleInv, Upstream
    <3> QED BY <1>1, <2>1, <3>1, <3>2, PatchFacts DEF Upstream, Downstream, Units
  <2>2. CASE u # Unit /\ stale[u]
    BY <2>2 DEF IInv, StaleInv
  <2>3. CASE u \in Downstream(Unit) /\ files[u] # {}
    <3>1. u \notin Doomed(Unit)
      BY <2>3 DEF IInv, RemovedInv
    <3> QED BY <1>1, <2>3, <3>1, DoomedIsDownstream
  <2> QED BY <1>2, <1>4, <2>1, <2>2, <2>3
<1> QED BY <1>3, <1>4 DEF StaleInv

\* What the completion artifact of a unit that can run vouches for.
LEMMA InputsAreMarked ==
    ASSUME IInv, ~cut, pc = "execute", Unit.stage <= 5, InputsPresent(Unit), NEW d \in Upstream(Unit)
    PROVE  Marked(d)
<1>1. Unit \in Units /\ d \in Units /\ Unit \in Downstream(d)
  BY OrderUnits DEF IInv, PositionInv, InRange, Unit, Upstream
<1>2. "marker" \in Kinds(d)
  BY <1>1 DEF Kinds, Units
<1>3. CASE Unit.at # Root
  BY <1>2, <1>3 DEF InputsPresent, Marked, Has
<1>4. CASE Unit.at = Root
  <2>1. Unit.stage = 5 /\ d.at \in Dirs /\ d.stage \in 1..5
    BY <1>1, <1>4, PatchFacts DEF Downstream, Units
  <2> DEFINE p == [stage |-> 5, at |-> d.at]
  <2>2. p \in Units /\ files[p] = Kinds(p) /\ Backed(p)
    BY <1>4, <2>1 DEF InputsPresent, Units, IInv, BackedInv
  <2>3. Marked(p)
    BY <2>2 DEF Marked, Has, Kinds
  <2>4. CASE d.stage = 5
    BY <1>1, <2>1, <2>3, <2>4 DEF Units
  <2>5. CASE d.stage # 5
    <3>1. d \in Upstream(p)
      BY <1>1, <2>1, <2>2, <2>5 DEF Upstream, Downstream
    <3> QED BY <2>2, <2>3, <3>1 DEF Backed
  <2> QED BY <2>4, <2>5
<1> QED BY <1>3, <1>4

\* A stage commits its bundle.
LEMMA ExecuteKeeps ==
    ASSUME IInv, Execute
    PROVE  IInv'
<1> USE DEF IInv, request
<1>1. /\ pc = "execute" /\ pc' = "visit" /\ InputsPresent(Unit)
      /\ pos \in DOMAIN Order /\ pos \in Nat /\ pos' = pos + 1 /\ ~dry
      /\ UNCHANGED <<cut, scan, start, end, dry, faults, runs>>
  BY DEF Execute, PositionInv, InRange, TypeOK
<1>2. Unit \in Units /\ Visited' = Visited \cup {Unit} /\ Visited \subseteq Units
  BY <1>1, VisitedGrows, VisitedIsSpared
<1>3. Kinds(Unit) \subseteq {"data", "marker", "more"} /\ "marker" \in Kinds(Unit)
  BY <1>2 DEF Kinds, Units
<1>4. /\ files' = [files EXCEPT ![Unit] = Kinds(Unit)]
      /\ status' = [status EXCEPT ![Unit] = "completed"]
  BY DEF Execute, Rewrite, Report
<1>5. stale' \in [Units -> BOOLEAN] /\ StaleInv'
  BY <1>1, RewriteIsFresh DEF Execute
<1>6. /\ files'[Unit] = Kinds(Unit)
      /\ \A u \in Units : u # Unit => files'[u] = files[u]
  BY <1>2, <1>3, <1>4 DEF TypeOK
<1>7. TypeOK'
  <2>1. status' \in [Units -> Statuses]
    BY <1>2, <1>4 DEF TypeOK, Statuses
  <2>2. /\ files' \in [Units -> SUBSET {"data", "marker", "more"}]
        /\ \A u \in Units : files'[u] \subseteq Kinds(u)
    BY <1>2, <1>3, <1>4, <1>6 DEF TypeOK
  <2> QED BY <1>1, <1>5, <2>1, <2>2 DEF TypeOK
<1>8. PositionInv' /\ ScanInv' /\ RemovedInv'
  BY <1>1 DEF PositionInv, ScanInv, RemovedInv
<1>9. BackedInv'
  <2> SUFFICES ASSUME ~cut, NEW u \in Units, Marked(u)'
               PROVE  files'[u] = Kinds(u) /\ (u.stage <= 5 => \A d \in Upstream(u) : Marked(d)')
    BY <1>1 DEF BackedInv, Backed
  <2>1. files'[u] = Kinds(u) /\ (u.stage <= 5 => \A d \in Upstream(u) : Marked(d))
    <3>1. CASE u = Unit
      BY <1>1, <1>6, <3>1, InputsAreMarked
    <3>2. CASE u # Unit
      BY <1>1, <1>6, <3>2 DEF BackedInv, Backed, Marked, Has
    <3> QED BY <3>1, <3>2
  <2>2. \A d \in Upstream(u) : Marked(d) => Marked(d)'
    BY <1>3, <1>6 DEF Upstream, Marked, Has
  <2> QED BY <2>1, <2>2
<1>10. ResumeInv'
  <2> SUFFICES ASSUME start = 0, NEW u \in Visited' PROVE "marker" \in files'[u]
    BY <1>1 DEF ResumeInv, Resume, Marked, Has
  <2> QED BY <1>1, <1>2, <1>3, <1>6 DEF ResumeInv, Resume, Marked, Has
<1>11. ReportInv'
  <2> SUFFICES ASSUME NEW u \in Units, status'[u] \in {"completed", "skipped_existing"}
               PROVE  Marked(u)' /\ (cut \/ files'[u] = Kinds(u)) /\ u \in Visited'
    BY <1>1 DEF ReportInv
  <2>1. CASE u = Unit
    BY <1>2, <1>3, <1>6, <2>1 DEF Marked, Has
  <2>2. CASE u # Unit
    BY <1>1, <1>2, <1>4, <1>6, <2>2 DEF TypeOK, ReportInv, Marked, Has
  <2> QED BY <2>1, <2>2
<1> QED BY <1>5, <1>7, <1>8, <1>9, <1>10, <1>11

\* Whatever an interrupted commit leaves, it touches the unit alone and leaves
\* no marker unless it leaves the bundle as it was.
LEMMA InterruptedSpares ==
    ASSUME IInv, pc = "execute", Interrupted(Unit)
    PROVE  /\ files' \in [Units -> SUBSET {"data", "marker", "more"}]
           /\ \A u \in Units : files'[u] \subseteq Kinds(u)
           /\ \A u \in Units : u # Unit => files'[u] = files[u]
           /\ files' = files \/ "marker" \notin files'[Unit]
           /\ stale' \in [Units -> BOOLEAN]
           /\ StaleInv'
<1> USE DEF IInv
<1>1. Unit \in Units
  BY OrderUnits DEF PositionInv, InRange, Unit
<1>2. Kinds(Unit) \subseteq {"data", "marker", "more"}
  BY <1>1 DEF Kinds, Units
<1>3. CASE Kept(Unit)
  BY <1>3 DEF Kept, disk, TypeOK, StaleInv
<1>4. CASE BrokenOld(Unit)
  BY <1>1, <1>4 DEF BrokenOld, TypeOK, StaleInv
<1>5. CASE BrokenNew(Unit)
  <2>1. PICK fs \in SUBSET (Kinds(Unit) \ {"marker"}) : Rewrite(Unit, fs)
    BY <1>5 DEF BrokenNew
  <2>2. stale' \in [Units -> BOOLEAN] /\ StaleInv'
    BY <2>1, RewriteIsFresh
  <2>3. files' = [files EXCEPT ![Unit] = fs]
    BY <2>1 DEF Rewrite
  <2> QED BY <1>1, <1>2, <2>1, <2>2, <2>3 DEF TypeOK
<1> QED BY <1>3, <1>4, <1>5 DEF Interrupted

\* Between runs only the disk and the report matter.
LEMMA BackedAfterInterruption ==
    ASSUME IInv, pc = "execute", pc' = "idle", cut' = cut, Interrupted(Unit)
    PROVE  BackedInv'
<1> SUFFICES ASSUME ~cut, NEW u \in Units, Marked(u)'
             PROVE  files'[u] = Kinds(u) /\ (u.stage <= 5 => \A d \in Upstream(u) : Marked(d)')
  BY DEF BackedInv, Backed
<1>1. Unit \in Units
  BY OrderUnits DEF IInv, PositionInv, InRange, Unit
<1>2. files' = files \/ ("marker" \notin files'[Unit] /\ \A v \in Units : v # Unit => files'[v] = files[v])
  BY InterruptedSpares
<1>3. files'[u] = files[u] /\ Marked(u) /\ Backed(u)
  BY <1>2 DEF IInv, BackedInv, Marked, Has
<1>4. ASSUME u.stage <= 5, NEW d \in Upstream(u) PROVE Marked(d)'
  <2>1. d # Unit
    <3> SUFFICES ASSUME d = Unit PROVE FALSE
      OBVIOUS
    <3>1. u \in Doomed(Unit)
      BY <1>1, <1>4, DoomedIsDownstream DEF Upstream, Units
    <3> QED BY <1>3, <3>1 DEF IInv, RemovedInv, Marked, Has
  <2>2. d \in Units /\ Marked(d)
    BY <1>3, <1>4 DEF Backed, Upstream
  <2> QED BY <1>2, <2>1, <2>2 DEF Marked, Has
<1> QED BY <1>3, <1>4 DEF Backed

\* A stage fails, and leaves the old bundle or one without its marker.
LEMMA ExecuteFailsKeeps ==
    ASSUME IInv, ExecuteFails
    PROVE  IInv'
<1> USE DEF IInv, request
<1>1. /\ pc = "execute" /\ pc' = "idle" /\ Interrupted(Unit) /\ cut' = cut
      /\ status' = [status EXCEPT ![Unit] = "failed"]
      /\ UNCHANGED <<pos, scan, start, end, dry, runs>>
  BY DEF ExecuteFails, Interrupted, Fault, Report, TypeOK
<1>2. Unit \in Units
  BY <1>1, OrderUnits DEF PositionInv, InRange, Unit
<1>3. faults' \in 0..MaxFaults
  BY PipelineAssumption DEF ExecuteFails, Fault, TypeOK
<1>4. TypeOK'
  BY <1>1, <1>2, <1>3, InterruptedSpares DEF TypeOK, Statuses
<1>5. StaleInv' /\ BackedInv'
  BY <1>1, InterruptedSpares, BackedAfterInterruption
<1>6. PositionInv' /\ ScanInv' /\ RemovedInv' /\ ResumeInv'
  BY <1>1 DEF PositionInv, ScanInv, RemovedInv, ResumeInv
<1>7. ReportInv'
  BY <1>1, <1>2, InterruptedSpares DEF ReportInv, TypeOK, Marked, Has
<1> QED BY <1>4, <1>5, <1>6, <1>7

\* A run ends.
LEMMA FinishKeeps ==
    ASSUME IInv, Finish
    PROVE  IInv'
<1> USE DEF IInv, disk, request, Finish
<1>1. TypeOK' /\ PositionInv' /\ StaleInv' /\ ScanInv' /\ RemovedInv' /\ ResumeInv' /\ ReportInv'
  BY DEF TypeOK, PositionInv, StaleInv, ScanInv, RemovedInv, ResumeInv, ReportInv, Marked, Has
<1>2. BackedInv'
  BY DEF BackedInv, Backed, Marked, Has
<1> QED BY <1>1, <1>2

\* A run is killed.
LEMMA KilledKeeps ==
    ASSUME IInv, Killed
    PROVE  IInv'
<1> USE DEF IInv, request, disk
<1>1. /\ pc # "idle" /\ pc' = "idle" /\ faults' \in 0..MaxFaults
      /\ status' = [u \in Units |-> "none"]
      /\ UNCHANGED <<pos, scan, start, end, dry, runs>>
  BY PipelineAssumption DEF Killed, Fault, TypeOK
<1>2. cut' \in BOOLEAN
  BY Zenon DEF Killed, Fault
<1>3. status' \in [Units -> Statuses] /\ ReportInv'
  BY <1>1 DEF Statuses, ReportInv
<1>4. PositionInv' /\ ScanInv' /\ RemovedInv' /\ ResumeInv'
  BY <1>1 DEF PositionInv, ScanInv, RemovedInv, ResumeInv
<1>5. TypeOK' /\ StaleInv' /\ BackedInv'
  <2>1. CASE pc = "execute"
    <3>1. Interrupted(Unit) /\ cut' = cut
      BY <2>1 DEF Killed, Fault, TypeOK
    <3> QED BY <1>1, <1>3, <2>1, <3>1, InterruptedSpares, BackedAfterInterruption DEF TypeOK
  <2>2. CASE pc = "invalidate"
    <3>1. UNCHANGED disk /\ cut'
      BY <2>2 DEF Killed, Fault
    <3> QED BY <1>1, <1>2, <1>3, <3>1 DEF TypeOK, StaleInv, BackedInv
  <2>3. CASE pc = "visit"
    <3>1. UNCHANGED disk /\ cut' = cut
      BY <2>3 DEF Killed, Fault, TypeOK
    <3> QED BY <1>1, <1>3, <2>3, <3>1 DEF TypeOK, StaleInv, BackedInv, Backed, Marked, Has
  <2> QED BY <1>1, <2>1, <2>2, <2>3 DEF TypeOK
<1> QED BY <1>3, <1>4, <1>5

\* The next-state relation, action by action.
LEMMA NextKeeps == IInv /\ [Next]_vars => IInv'
<1> SUFFICES ASSUME IInv, [Next]_vars PROVE IInv'
  OBVIOUS
<1>1. CASE Start
  <2>1. PICK s \in 0..8, e \in 1..8, d \in BOOLEAN : RunPipeline(s, e, d)
    BY <1>1 DEF Start
  <2>2. e \in 0..8 /\ runs' \in 0..MaxRuns
    BY <1>1, PipelineAssumption DEF Start, IInv, TypeOK
  <2> QED BY <2>1, <2>2, RunPipelineKeeps
<1>2. CASE StartResume
  <2>1. RunPipeline(0, 8, FALSE) /\ runs' \in 0..MaxRuns
    BY <1>2 DEF StartResume, IInv, TypeOK
  <2>2. 0 \in 0..8 /\ 8 \in 0..8 /\ FALSE \in BOOLEAN
    OBVIOUS
  <2> QED BY <2>1, <2>2, RunPipelineKeeps
<1>3. CASE RunStep
  BY <1>3, PassKeeps, InvalidateKeeps, RemoveProductKeeps, InvalidatedKeeps, ExecuteKeeps,
     ExecuteFailsKeeps, FinishKeeps DEF RunStep
<1>4. CASE RemoveFails
  BY <1>4, RemoveFailsKeeps
<1>5. CASE Killed
  BY <1>5, KilledKeeps
<1>6. CASE UNCHANGED vars
  BY <1>6 DEF vars, IInv, TypeOK, PositionInv, StaleInv, ScanInv, RemovedInv, BackedInv,
     ResumeInv, ReportInv, InRange, Unit, Has, Marked, Backed, Visited, Resume
<1> QED BY <1>1, <1>2, <1>3, <1>4, <1>5, <1>6 DEF Next

-----------------------------------------------------------------------------
(* The theorems.                                                           *)

\* The inductive invariant holds in every reachable state of the runner
\* (runner.rs, invalidation.rs and the publication of the native stages).
THEOREM Invariance == Spec => []IInv
BY InitIInv, NextKeeps, PTL DEF Spec

\* Every variable keeps its type; in particular a dry run neither invalidates
\* nor executes.
THEOREM TypeCorrect == Spec => []TypeOK
<1>1. IInv => TypeOK
  BY DEF IInv
<1> QED BY <1>1, Invariance, PTL

\* Whatever is rerun, killed or failed, a completion artifact of Stages 1-6
\* that exists was computed from the inputs that exist: what
\* invalidate_downstream spares is Stage 7 only, and what it removes is gone
\* before the unit is computed.
THEOREM MarkersAreFresh == Spec => []TrustedMarkersAreFresh
<1>1. IInv => TrustedMarkersAreFresh
  BY PatchFacts DEF IInv, StaleInv, TrustedMarkersAreFresh, Units
<1> QED BY <1>1, Invariance, PTL

\* A resumed run executes no stage before all that it depends on has its
\* completion artifact, with any number of patches.
THEOREM ResumeIsOrdered == Spec => []ResumeKeepsOrder
<1>1. IInv => ResumeKeepsOrder
  BY UpstreamIsVisited DEF IInv, PositionInv, InRange, ResumeInv, ResumeKeepsOrder
<1> QED BY <1>1, Invariance, PTL

\* What a report calls completed or skipped is there when the report is
\* returned, and whole unless a removal was ever cut short.
THEOREM ReportsAreTrue == Spec => []ReportIsTrue
<1>1. IInv => ReportIsTrue
  BY DEF IInv, ReportInv, ReportIsTrue
<1> QED BY <1>1, Invariance, PTL

\* `status` shows a merged stage only when every patch has all its stages,
\* unless a removal was ever cut short.
THEOREM MergedIsBacked == Spec => []MergedStatusIsBacked
<1>1. IInv => MergedStatusIsBacked
  <2> SUFFICES ASSUME IInv, pc = "idle", ~cut, InferStage(Root) >= 5, NEW p \in Dirs
               PROVE  InferStage(p) = 5
    BY DEF MergedStatusIsBacked
  <2> DEFINE m == [stage |-> 5, at |-> Root]
             Reached(at) == {u.stage : u \in {v \in {u \in Units : u.at = at} :
                               \A w \in {u \in Units : u.at = at} :
                                  w.stage <= v.stage => Marked(w)}}
  <2>1. m \in Units /\ Backed(m)
    BY DEF Units, IInv, BackedInv
  <2>2. Marked(m)
    <3>1. Reached(Root) # {}
      BY DEF InferStage
    <3>2. PICK v \in Units : v.at = Root /\ \A w \in Units :
             w.at = Root => (w.stage <= v.stage => Marked(w))
      BY <3>1
    <3>3. 5 <= v.stage
      BY <3>2, PatchFacts DEF Units
    <3> QED BY <2>1, <3>2, <3>3
  <2>3. \A u \in Units : u.at = p => u.stage \in 1..5 /\ Marked(u)
    <3> SUFFICES ASSUME NEW u \in Units, u.at = p PROVE u.stage \in 1..5 /\ Marked(u)
      OBVIOUS
    <3>1. u.stage \in 1..5 /\ u \in Upstream(m)
      BY <2>1, PatchFacts DEF Units, Upstream, Downstream
    <3> QED BY <2>1, <2>2, <3>1 DEF Backed
  <2>4. [stage |-> 5, at |-> p] \in Units
    BY DEF Units
  <2>5. 5 \in Reached(p) /\ \A t \in Reached(p) : t \in 1..5
    BY <2>3, <2>4
  <2>6. InferStage(p) = CHOOSE s \in Reached(p) : \A t \in Reached(p) : t <= s
    BY <2>5 DEF InferStage
  <2> HIDE DEF Reached
  <2>7. InferStage(p) \in Reached(p) /\ \A t \in Reached(p) : t <= InferStage(p)
    BY <2>5, <2>6
  <2> QED BY <2>5, <2>7
<1> QED BY <1>1, Invariance, PTL

\* A run changes the files of the unit it runs and of units downstream of it,
\* and of no other unit, whatever fails: rerunning a stage of one patch cannot
\* damage another patch or an earlier stage.
OnlyDownstreamChanges ==
    [][\A u \in Units : files'[u] # files[u] => u = Unit \/ u \in Downstream(Unit)]_vars

\* For any patches, ranges and faults, no step of a run leaves its scope.
THEOREM RunsStayInScope == Spec => OnlyDownstreamChanges
<1> DEFINE A == \A u \in Units : files'[u] # files[u] => u = Unit \/ u \in Downstream(Unit)
<1>1. IInv /\ [Next]_vars => [A]_vars
  <2> SUFFICES ASSUME IInv, Next, NEW u \in Units, files'[u] # files[u]
               PROVE  u = Unit \/ u \in Downstream(Unit)
    OBVIOUS
  <2>1. CASE RemoveProduct
    BY <2>1, RemovalSpares, DoomedIsDownstream
  <2>2. CASE Execute
    <3>1. files' = [files EXCEPT ![Unit] = Kinds(Unit)]
      BY <2>2 DEF Execute, Rewrite
    <3> QED BY <3>1 DEF IInv, TypeOK
  <2>3. CASE pc = "execute" /\ Interrupted(Unit)
    BY <2>3, InterruptedSpares
  <2>4. CASE UNCHANGED files
    BY <2>4
  <2> QED BY <2>1, <2>2, <2>3, <2>4 DEF Next, RunStep, Start, StartResume, RunPipeline, Skip,
             Plan, Invalidate, RemoveFails, Invalidated, ExecuteFails, Interrupted, Finish,
             Killed, disk
<1> QED BY <1>1, Invariance, PTL DEF Spec, OnlyDownstreamChanges
=============================================================================

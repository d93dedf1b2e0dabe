-------------------------- MODULE NativeCallProofs --------------------------
(* Buffers, memoryview objects and locks balance for every number of        *)
(* threads, every mix of calls and arrays and every failure; no call runs   *)
(* in a half-initialised extension; a grid is the one a single thread would *)
(* add up, whatever the team; and a call ends with what PureCalls promises. *)
EXTENDS NativeCall, FiniteSetTheorems, WellFoundedInduction, TLAPS

----------------------------------------------------------------------------
(* The inductive invariant: the heap.                                       *)

HeapFields == {"exports", "objects", "pool", "used"}
ObjectFields == {"array", "acquired", "lock"}
PoolLocks == { {<<"pool", k>>} : k \in 1..PoolSize }

HeapOK(h) ==
    /\ DOMAIN h = HeapFields
    /\ DOMAIN h.exports = ArrayIds
    /\ \A id \in DOMAIN h.objects : DOMAIN h.objects[id] = ObjectFields
    /\ h.pool \in Seq({{}} \union PoolLocks)
    /\ h.used \in 0..Len(h.pool)

\* A lock is an object's own or one of those in use, and of one object only.
Owns(h, id, lock) ==
    \/ lock = {<<"own", id>>}
    \/ \E k \in 1..h.used : h.pool[k] # {} /\ lock = h.pool[k]

PoolOK(h) == \A j, k \in 1..Len(h.pool) : h.pool[j] # {} /\ h.pool[j] = h.pool[k] => j = k

LocksOK(h) ==
    /\ PoolOK(h)
    /\ \A id \in DOMAIN h.objects :
          IF Atomics THEN h.objects[id].lock = {} ELSE Owns(h, id, h.objects[id].lock)
    /\ \A id, jd \in DOMAIN h.objects :
          h.objects[id].lock = h.objects[jd].lock => Atomics \/ id = jd

(* The callers.                                                             *)

CallerFields == {"stage", "call", "args", "step", "found", "buffers", "views", "outcome"}

\* What a call holds it has got in an earlier step of its body.
Passed(c, do, name) ==
    \E k \in 1..Len(Body(c)) :
        k < callers[c].step /\ Body(c)[k].do = do /\ Body(c)[k].of = name

HoldingInv(c) ==
    IF callers[c].stage \in {"running", "outside"}
      THEN /\ callers[c].step >= 1
           /\ \A name \in callers[c].buffers : Passed(c, "buffer", name)
           /\ \A name \in callers[c].views : Passed(c, "view", name)
      ELSE callers[c].stage # "leaving" => callers[c].buffers = {} /\ callers[c].views = {}

CallersInv ==
    /\ DOMAIN callers = Callers
    /\ \A c \in Callers :
          /\ DOMAIN callers[c] = CallerFields
          /\ callers[c].stage \in Stages
          /\ callers[c].step \in Nat
          /\ callers[c].call.fn \in DOMAIN Signature
          /\ HoldingInv(c)

ScalarInv ==
    /\ gil = {} \/ \E c \in Callers : gil = {c}
    /\ faults \in 0..MaxFaults

----------------------------------------------------------------------------
(* The extension.                                                           *)

ModuleFields == {"exists", "done", "listed", "by", "cached"}

\* The steps done are the first ones; whoever finds the module outside its
\* initialisation finds it whole.
ModuleInv ==
    /\ DOMAIN module = ModuleFields
    /\ \E n \in 0..Len(InitSteps) : module.done = SubSeq(InitSteps, 1, n)
    /\ module.by # {} => module.exists /\ Len(module.done) < Len(InitSteps)
    /\ module.exists /\ module.by = {} => Whole
    /\ module.listed => Whole
    /\ module.cached => Whole

\* A caller that has the module, or holds anything, has a whole one.
Uses(c) ==
    \/ callers[c].found = TRUE
    \/ callers[c].stage \in {"binding", "running", "outside"}
    \/ callers[c].buffers # {}
    \/ callers[c].views # {}

WholeInv == \A c \in Callers : Uses(c) => Whole

----------------------------------------------------------------------------
(* The books.                                                               *)

Viewed == UNION { {c} \X callers[c].views : c \in Callers }
HeldOn(a) == { held \in Held : ArrayOfHeld(held) = a }
ObjectsOn(a) == { id \in DOMAIN heap.objects : heap.objects[id].array = a }

HeapInv ==
    /\ HeapOK(heap)
    /\ LocksOK(heap)
    /\ \A id \in DOMAIN heap.objects : heap.objects[id].acquired = 1
    /\ DOMAIN heap.objects = Viewed
    /\ IsFiniteSet(Held)
    /\ IsFiniteSet(Viewed)
    /\ \A a \in ArrayIds : heap.exports[a] = Cardinality(HeldOn(a)) + Cardinality(ObjectsOn(a))

IInv ==
    /\ ScalarInv
    /\ ModuleInv
    /\ CallersInv
    /\ WholeInv
    /\ HeapInv

----------------------------------------------------------------------------
(* The heap operations.                                                     *)

\* What __cinit__ does: it exports a buffer, adds one object and changes no
\* other.
Added(h, id, a, memory, m) ==
    /\ HeapOK(m)
    /\ m.exports = [h.exports EXCEPT ![a] = @ + 1]
    /\ m.pool = h.pool
    /\ m.used \in h.used..(h.used + 1)
    /\ ~Atomics /\ h.used < Len(h.pool) => m.used = h.used + 1
    /\ DOMAIN m.objects = DOMAIN h.objects \union {id}
    /\ m.objects[id] = [array |-> a, acquired |-> 0, lock |-> LockFor(h, id, memory)]
    /\ \A x \in DOMAIN h.objects : x # id => m.objects[x] = h.objects[x]

\* What __cinit__ changes, for any heap.
LEMMA CinitAdds ==
    ASSUME NEW h, HeapOK(h), NEW id, NEW a, NEW memory \in BOOLEAN
    PROVE  Added(h, id, a, memory, Cinit(h, id, a, memory))
<1> DEFINE e == Export(h, a)
           m == Cinit(h, id, a, memory)
           o == [array |-> a, acquired |-> 0, lock |-> LockFor(h, id, memory)]
           w == With(h.objects, id, o)
<1>1. /\ DOMAIN e = HeapFields /\ e.exports = [h.exports EXCEPT ![a] = @ + 1]
      /\ e.objects = h.objects /\ e.pool = h.pool /\ e.used = h.used
  BY DEF HeapOK, HeapFields, Export
<1>2. /\ DOMAIN w = DOMAIN h.objects \union {id} /\ w[id] = o
      /\ \A x \in DOMAIN h.objects : x # id => w[x] = h.objects[x]
  BY DEF With
<1> HIDE DEF e, w, o
<1>3. m = [e EXCEPT !.used = IF ~Atomics /\ e.used < Len(e.pool) THEN e.used + 1 ELSE e.used,
                    !.objects = w]
  BY <1>1 DEF Cinit, e, w, o
<1> HIDE DEF m
<1>4. /\ DOMAIN m = HeapFields /\ m.exports = e.exports /\ m.pool = e.pool /\ m.objects = w
      /\ m.used = IF ~Atomics /\ h.used < Len(h.pool) THEN h.used + 1 ELSE h.used
  BY <1>1, <1>3 DEF HeapFields
<1>5. DOMAIN o = ObjectFields
  BY DEF o, ObjectFields
<1>6. HeapOK(m)
  BY <1>1, <1>2, <1>4, <1>5 DEF HeapOK
<1>7. m.used \in h.used..(h.used + 1)
  BY <1>4 DEF HeapOK
<1> QED BY <1>1, <1>2, <1>4, <1>6, <1>7 DEF HeapOK, m, o, Added

\* The locks an object may get.
LEMMA LockForIsNew ==
    ASSUME NEW h, HeapOK(h), NEW id, NEW memory \in BOOLEAN
    PROVE  LET l == LockFor(h, id, memory) IN
           /\ Atomics => l = {}
           /\ ~Atomics => \/ l = {<<"own", id>>}
                          \/ h.used < Len(h.pool) /\ l = h.pool[h.used + 1] /\ l # {}
                          \/ ~memory /\ l = {}
BY DEF LockFor

\* Locks of the pool are locks, and no lock an object allocated is one.
LEMMA PoolLockIsNotOwn ==
    /\ \A l \in PoolLocks : l # {}
    /\ \A l \in {{}} \union PoolLocks : \A id : l # {<<"own", id>>}
<1>1. ASSUME NEW k \in 1..PoolSize, NEW id PROVE {<<"pool", k>>} # {<<"own", id>>}
  <2>1. <<"pool", k>>[1] # <<"own", id>>[1]
    OBVIOUS
  <2> QED BY <2>1
<1> QED BY <1>1 DEF PoolLocks

\* The places of the pool.
LEMMA PoolElements ==
    ASSUME NEW h, HeapOK(h)
    PROVE  /\ Len(h.pool) \in Nat /\ h.used \in Nat /\ h.used <= Len(h.pool)
           /\ \A k \in 1..Len(h.pool) : h.pool[k] \in {{}} \union PoolLocks
BY DEF HeapOK

\* A new object that got a lock, or needs none, shares it with no other.
LEMMA CinitKeepsLocks ==
    ASSUME NEW h, HeapOK(h), LocksOK(h), NEW id, id \notin DOMAIN h.objects, NEW a,
           NEW memory \in BOOLEAN, LockFor(h, id, memory) = {} => Atomics
    PROVE  LocksOK(Cinit(h, id, a, memory))
<1> DEFINE m == Cinit(h, id, a, memory)
           l == LockFor(h, id, memory)
<1>1. /\ HeapOK(m) /\ m.pool = h.pool /\ m.used \in h.used..(h.used + 1)
      /\ ~Atomics /\ h.used < Len(h.pool) => m.used = h.used + 1
      /\ DOMAIN m.objects = DOMAIN h.objects \union {id}
      /\ m.objects[id].lock = l
      /\ \A x \in DOMAIN h.objects : m.objects[x] = h.objects[x]
  <2>1. Added(h, id, a, memory, m)
    BY CinitAdds
  <2> HIDE DEF m, l
  <2> QED BY <2>1 DEF Added, l
<1> HIDE DEF m
<1>2. PoolOK(m)
  BY <1>1 DEF PoolOK, LocksOK
<1>3. CASE Atomics
  <2>1. l = {}
    BY <1>3, LockForIsNew
  <2> QED BY <1>1, <1>2, <1>3, <2>1 DEF LocksOK, m
<1>4. CASE ~Atomics
  <2>1. \/ l = {<<"own", id>>}
        \/ h.used < Len(h.pool) /\ l = h.pool[h.used + 1] /\ l # {}
    BY <1>4, LockForIsNew
  <2> HIDE DEF l
  <2>2. Owns(m, id, l)
    BY <1>1, <1>4, <2>1, PoolElements DEF Owns
  <2>3. ASSUME NEW x \in DOMAIN h.objects
        PROVE  Owns(h, x, h.objects[x].lock) /\ Owns(m, x, m.objects[x].lock)
    BY <1>1, <1>4, <2>3, PoolElements DEF LocksOK, Owns
  <2>4. ASSUME NEW x \in DOMAIN h.objects PROVE h.objects[x].lock # l
    <3>1. x # id
      OBVIOUS
    <3>2. CASE h.objects[x].lock = {<<"own", x>>}
      <4>1. <<"own", x>>[2] # <<"own", id>>[2]
        BY <3>1
      <4>2. {<<"own", x>>} # {<<"own", id>>}
        BY <4>1
      <4>3. CASE h.used < Len(h.pool) /\ l = h.pool[h.used + 1]
        <5>1. l \in {{}} \union PoolLocks
          BY <4>3, PoolElements
        <5> QED BY <3>2, <5>1, PoolLockIsNotOwn
      <4> QED BY <2>1, <3>2, <4>2, <4>3
    <3>3. CASE \E k \in 1..h.used : h.pool[k] # {} /\ h.objects[x].lock = h.pool[k]
      <4>1. PICK k \in 1..h.used : h.pool[k] # {} /\ h.objects[x].lock = h.pool[k]
        BY <3>3
      <4>2. CASE l = {<<"own", id>>}
        <5>1. h.pool[k] \in {{}} \union PoolLocks
          BY PoolElements
        <5> QED BY <4>1, <4>2, <5>1, PoolLockIsNotOwn
      <4>3. CASE h.used < Len(h.pool) /\ l = h.pool[h.used + 1]
        <5>1. k \in 1..Len(h.pool) /\ h.used + 1 \in 1..Len(h.pool) /\ k # h.used + 1
          BY <4>3, PoolElements
        <5> QED BY <4>1, <4>3, <5>1 DEF LocksOK, PoolOK
      <4> QED BY <2>1, <4>2, <4>3
    <3> QED BY <2>3, <3>2, <3>3 DEF Owns
  <2> QED BY <1>1, <1>2, <1>4, <2>2, <2>3, <2>4 DEF LocksOK, m
<1> QED BY <1>3, <1>4

\* What the other objects need when `id` is to go.
OthersOK(h, id) ==
    /\ PoolOK(h)
    /\ \A x \in DOMAIN h.objects \ {id} :
          /\ IF Atomics THEN h.objects[x].lock = {} ELSE Owns(h, x, h.objects[x].lock)
          /\ h.objects[id].lock = {} \/ h.objects[x].lock # h.objects[id].lock
    /\ \A x, y \in DOMAIN h.objects \ {id} :
          h.objects[x].lock = h.objects[y].lock => Atomics \/ x = y

\* __dealloc__ gives the buffer back, removes one object, and leaves every
\* other object the owner of its lock.
Removed(h, id, d) ==
    /\ HeapOK(d) /\ LocksOK(d)
    /\ d.exports = [h.exports EXCEPT ![h.objects[id].array] = @ - 1]
    /\ DOMAIN d.objects = DOMAIN h.objects \ {id}
    /\ \A x \in DOMAIN d.objects : d.objects[x] = h.objects[x]

\* What __dealloc__ changes, the move of the last lock into the free place included.
LEMMA DeallocRemoves ==
    ASSUME NEW h, HeapOK(h), NEW id \in DOMAIN h.objects, OthersOK(h, id)
    PROVE  Removed(h, id, Dealloc(h, id))
<1> DEFINE o == h.objects[id]
           w == [h EXCEPT !.objects = Restrict(@, DOMAIN @ \ {id})]
           g == SafeReleaseBuffer(w, o.array)
           l == o.lock
           d == DropLock(g, l)
           places == { k \in 1..g.used : l # {} /\ g.pool[k] = l }
<1>1. /\ DOMAIN w = HeapFields /\ w.exports = h.exports /\ w.pool = h.pool /\ w.used = h.used
      /\ DOMAIN w.objects = DOMAIN h.objects \ {id}
      /\ \A x \in DOMAIN w.objects : w.objects[x] = h.objects[x]
  BY DEF HeapOK, HeapFields, Restrict
<1> HIDE DEF w
<1>2. /\ DOMAIN g = HeapFields /\ g.pool = h.pool /\ g.used = h.used
      /\ g.exports = [h.exports EXCEPT ![o.array] = @ - 1]
      /\ DOMAIN g.objects = DOMAIN h.objects \ {id}
      /\ \A x \in DOMAIN g.objects : g.objects[x] = h.objects[x]
  BY <1>1 DEF HeapFields, SafeReleaseBuffer
<1> HIDE DEF g
<1>3. HeapOK(g)
  BY <1>2 DEF HeapOK
<1>4. CASE places = {}
  <2>1. d = g
    BY <1>4 DEF DropLock
  <2>2. LocksOK(g)
    BY <1>2 DEF OthersOK, LocksOK, PoolOK, Owns
  <2> QED BY <1>2, <1>3, <2>1, <2>2 DEF Dealloc, Removed, d, g, w
<1>5. CASE places # {}
  <2>1. PICK k \in 1..h.used : h.pool[k] = l /\ l # {}
    BY <1>2, <1>5
  <2>2. \A j \in 1..h.used : h.pool[j] = l => j = k
    BY <2>1, PoolElements DEF OthersOK, PoolOK
  <2>3. (CHOOSE j \in places : \A i \in places : j <= i) = k
    <3>1. places = {k}
      BY <1>2, <2>1, <2>2
    <3>2. k <= k
      BY PoolElements
    <3> QED BY <3>1, <3>2
  <2>4. d = [g EXCEPT !.used = @ - 1, !.pool[k] = g.pool[g.used], !.pool[g.used] = g.pool[k]]
    BY <1>5, <2>3 DEF DropLock
  <2>5. /\ DOMAIN d = HeapFields /\ d.used = h.used - 1
        /\ d.exports = g.exports /\ d.objects = g.objects
        /\ d.pool = [[h.pool EXCEPT ![k] = h.pool[h.used]] EXCEPT ![h.used] = h.pool[k]]
    BY <1>2, <2>4 DEF HeapFields
  <2> HIDE DEF d
  <2>6. /\ d.pool \in Seq({{}} \union PoolLocks) /\ Len(d.pool) = Len(h.pool)
        /\ \A j \in 1..Len(h.pool) :
              d.pool[j] = IF j = h.used THEN l ELSE IF j = k THEN h.pool[h.used] ELSE h.pool[j]
    BY <2>1, <2>5, PoolElements DEF HeapOK
  <2>7. HeapOK(d)
    BY <1>2, <1>3, <2>1, <2>5, <2>6, PoolElements DEF HeapOK
  <2>8. PoolOK(d)
    <3> SUFFICES ASSUME NEW i \in 1..Len(h.pool), NEW j \in 1..Len(h.pool),
                        d.pool[i] # {}, d.pool[i] = d.pool[j]
                 PROVE  i = j
      BY <2>6 DEF PoolOK
    <3> DEFINE from(n) == IF n = h.used THEN k ELSE IF n = k THEN h.used ELSE n
    <3>1. k \in 1..Len(h.pool) /\ h.used \in 1..Len(h.pool)
      BY <2>1, PoolElements
    <3>2. /\ from(i) \in 1..Len(h.pool) /\ d.pool[i] = h.pool[from(i)]
          /\ from(j) \in 1..Len(h.pool) /\ d.pool[j] = h.pool[from(j)]
      BY <2>1, <2>6, <3>1
    <3>3. from(i) = from(j)
      BY <3>2 DEF PoolOK, OthersOK
    <3> QED BY <3>3
  <2>9. ASSUME NEW x \in DOMAIN h.objects \ {id}, ~Atomics PROVE Owns(d, x, h.objects[x].lock)
    <3>1. Owns(h, x, h.objects[x].lock) /\ h.objects[x].lock # l
      BY <2>1, <2>9 DEF OthersOK
    <3>2. CASE \E j \in 1..h.used : h.pool[j] # {} /\ h.objects[x].lock = h.pool[j]
      <4>1. PICK j \in 1..h.used : h.pool[j] # {} /\ h.objects[x].lock = h.pool[j]
        BY <3>2
      <4>2. CASE j = h.used
        <5>1. k \in 1..d.used /\ d.pool[k] = h.pool[j]
          BY <2>1, <2>5, <2>6, <3>1, <4>1, <4>2, PoolElements
        <5> QED BY <4>1, <5>1 DEF Owns
      <4>3. CASE j # h.used
        <5>1. j \in 1..d.used /\ d.pool[j] = h.pool[j]
          BY <2>1, <2>5, <2>6, <3>1, <4>1, <4>3, PoolElements
        <5> QED BY <4>1, <5>1 DEF Owns
      <4> QED BY <4>2, <4>3
    <3> QED BY <3>1, <3>2 DEF Owns
  <2>10. LocksOK(d)
    BY <1>2, <2>5, <2>8, <2>9 DEF LocksOK, OthersOK
  <2> QED BY <1>2, <2>5, <2>7, <2>10 DEF Dealloc, Removed, d, g, w
<1> QED BY <1>4, <1>5
----------------------------------------------------------------------------
(* Bodies.  What a step reads of its caller is the call and the arguments.  *)

GivenIn(call, args, name) ==
    LET params == Signature[call.fn]
        k == CHOOSE k \in 1..Len(params) : params[k].name = name
    IN  (CHOOSE v \in args[k] : TRUE).array
IdIn(c, call, args, name) ==
    IF name \in {"out", "mids"} THEN <<c, name>> ELSE GivenIn(call, args, name)
BodyIn(call, args) ==
    CASE call.fn = "accumulate_weighted_grid" -> AccumulateBody
      [] call.fn = "ps_topofit_batch_generic" -> GenericBody
      [] call.fn = "ps_topofit_batch_row_invariant" -> RowInvariantBody
      [] call.fn = "ps_topofit_coh_row_invariant" -> CoherenceBody
      [] call.fn = "histogram_with_centers" ->
            HistogramBody(Arrays[GivenIn(call, args, "centers")].shape[1])

\* Bodies and arrays in terms of the call and its arguments, before and after a step.
LEMMA ReadsCallAndArgs ==
    /\ \A c, name : IdOf(c, name) = IdIn(c, callers[c].call, callers[c].args, name)
    /\ \A c, name : IdOf(c, name)' = IdIn(c, callers'[c].call, callers'[c].args, name)
    /\ \A c : Body(c) = BodyIn(callers[c].call, callers[c].args)
    /\ \A c : Body(c)' = BodyIn(callers'[c].call, callers'[c].args)
BY DEF IdOf, GivenArray, ArgOf, Body, TheArray, IdIn, GivenIn, BodyIn

\* A body asks for every buffer and every view once.
Distinct(body) ==
    /\ Len(body) \in Nat
    /\ \A j, k \in 1..Len(body) :
          j < k /\ body[j].do = body[k].do /\ body[j].do \in {"buffer", "view"}
            => body[j].of # body[k].of

\* No exported function takes a buffer, or a view, of one array twice.
LEMMA StepsAreDistinct ==
    ASSUME NEW c, callers[c].call.fn \in DOMAIN Signature
    PROVE  Distinct(Body(c))
<1> USE DEF Buf, Python, View, Region, Fill
<1>1. Distinct(AccumulateBody)
  BY DEF Distinct, AccumulateBody
<1>2. Distinct(GenericBody)
  BY DEF Distinct, GenericBody
<1>3. Distinct(RowInvariantBody) /\ Distinct(CoherenceBody)
  BY DEF Distinct, RowInvariantBody, CoherenceBody
<1>4. ASSUME NEW bins PROVE Distinct(HistogramBody(bins))
  BY DEF Distinct, HistogramBody, HistogramStart
<1>5. callers[c].call.fn \in {"accumulate_weighted_grid", "ps_topofit_batch_generic",
          "ps_topofit_batch_row_invariant", "ps_topofit_coh_row_invariant", "histogram_with_centers"}
  BY DEF Signature
<1> QED BY <1>1, <1>2, <1>3, <1>4, <1>5 DEF Body
----------------------------------------------------------------------------
(* Counting what is held.                                                   *)

\* Members of the set of held buffers.
LEMMA HeldMembers ==
    /\ \A c, name : <<c, name>> \in Held <=> c \in Callers /\ name \in callers[c].buffers
    /\ \A c, name : <<c, name>> \in Held' <=> c \in Callers /\ name \in callers'[c].buffers
    /\ \A x \in Held \union Held' : x = <<x[1], x[2]>>
BY DEF Held

\* Members of the set of views.
LEMMA ViewedMembers ==
    /\ \A c, name : <<c, name>> \in Viewed <=> c \in Callers /\ name \in callers[c].views
    /\ \A c, name : <<c, name>> \in Viewed' <=> c \in Callers /\ name \in callers'[c].views
    /\ \A x \in Viewed \union Viewed' : x = <<x[1], x[2]>>
BY DEF Viewed

\* A step that leaves the calls, the arguments and the heap alone, or changes
\* the arguments of a caller that holds nothing, leaves the books in balance.
SameHoldings ==
    \A d \in Callers :
        /\ callers'[d].buffers = callers[d].buffers
        /\ callers'[d].views = callers[d].views
        /\ \/ callers[d].buffers = {}
           \/ callers'[d].call = callers[d].call /\ callers'[d].args = callers[d].args

SameCalls ==
    \A d \in Callers : callers'[d].call = callers[d].call /\ callers'[d].args = callers[d].args

\* What is held on an array depends on the holdings only.
LEMMA HeldStaysHeld ==
    ASSUME SameHoldings
    PROVE  Held' = Held /\ Viewed' = Viewed /\ \A a : HeldOn(a)' = HeldOn(a)
<1>1. Held' = Held
  <2>1. \A x \in Held : x \in Held'
    BY HeldMembers DEF SameHoldings
  <2>2. \A x \in Held' : x \in Held
    BY HeldMembers DEF SameHoldings
  <2> QED BY <2>1, <2>2
<1>2. Viewed' = Viewed
  <2>1. \A x \in Viewed : x \in Viewed'
    BY ViewedMembers DEF SameHoldings
  <2>2. \A x \in Viewed' : x \in Viewed
    BY ViewedMembers DEF SameHoldings
  <2> QED BY <2>1, <2>2
<1>3. ASSUME NEW x \in Held PROVE ArrayOfHeld(x)' = ArrayOfHeld(x)
  <2>1. x[1] \in Callers /\ x[2] \in callers[x[1]].buffers
    BY HeldMembers
  <2> QED BY <2>1, ReadsCallAndArgs DEF SameHoldings, ArrayOfHeld
<1> QED BY <1>1, <1>2, <1>3 DEF HeldOn

\* A step that changes neither the heap nor a holding keeps the balance.
LEMMA SameBooks ==
    ASSUME HeapInv, SameHoldings, heap' = heap
    PROVE  HeapInv'
BY HeldStaysHeld DEF HeapInv, ObjectsOn, HeapOK, LocksOK, PoolOK, Owns

\* One more and one less.
LEMMA CountOneMore ==
    ASSUME NEW S, IsFiniteSet(S), NEW x, x \notin S
    PROVE  IsFiniteSet(S \union {x}) /\ Cardinality(S \union {x}) = Cardinality(S) + 1
BY FS_AddElement

\* One less.
LEMMA CountOneLess ==
    ASSUME NEW S, IsFiniteSet(S), NEW x \in S
    PROVE  /\ IsFiniteSet(S \ {x})
           /\ Cardinality(S \ {x}) = Cardinality(S) - 1
           /\ Cardinality(S) \in Nat \ {0}
BY FS_RemoveElement, FS_CardinalityType, FS_EmptySet

\* What is counted on an array is finite.
LEMMA CountsAreFinite ==
    ASSUME HeapInv, NEW a
    PROVE  /\ IsFiniteSet(HeldOn(a)) /\ Cardinality(HeldOn(a)) \in Nat
           /\ IsFiniteSet(ObjectsOn(a)) /\ Cardinality(ObjectsOn(a)) \in Nat
<1>1. HeldOn(a) \subseteq Held /\ ObjectsOn(a) \subseteq Viewed
  BY DEF HeldOn, ObjectsOn, HeapInv
<1> QED BY <1>1, FS_Subset, FS_CardinalityType DEF HeapInv

\* Members of what is held on an array, before and after a step.
LEMMA BookMembers ==
    \A a : /\ \A x : x \in HeldOn(a) <=> x \in Held /\ ArrayOfHeld(x) = a
           /\ \A x : x \in HeldOn(a)' <=> x \in Held' /\ ArrayOfHeld(x)' = a
           /\ \A x : x \in ObjectsOn(a) <=> x \in DOMAIN heap.objects /\ heap.objects[x].array = a
           /\ \A x : x \in ObjectsOn(a)' <=> x \in DOMAIN heap'.objects /\ heap'.objects[x].array = a
BY DEF HeldOn, ObjectsOn

\* A held buffer stays one of the same array.
LEMMA ArraysStay ==
    ASSUME SameCalls
    PROVE  /\ \A x \in Held \union Held' : ArrayOfHeld(x)' = ArrayOfHeld(x)
           /\ \A c \in Callers : \A name : ArrayOfHeld(<<c, name>>)' = IdOf(c, name)
<1>1. \A c \in Callers : \A name : IdOf(c, name)' = IdOf(c, name)
  BY ReadsCallAndArgs DEF SameCalls
<1>2. \A x \in Held \union Held' : x[1] \in Callers
  BY HeldMembers
<1> QED BY <1>1, <1>2 DEF ArrayOfHeld

\* A buffer taken and a buffer given back.
LEMMA OneMoreHeld ==
    ASSUME SameCalls, NEW c \in Callers, NEW name, name \notin callers[c].buffers,
           callers'[c].buffers = callers[c].buffers \union {name},
           \A d \in Callers \ {c} : callers'[d].buffers = callers[d].buffers
    PROVE  /\ <<c, name>> \notin Held /\ Held' = Held \union {<<c, name>>}
           /\ \A a : HeldOn(a)' = IF a = IdOf(c, name) THEN HeldOn(a) \union {<<c, name>>}
                                  ELSE HeldOn(a)
<1>1. <<c, name>> \notin Held
  BY HeldMembers
<1>2. Held' = Held \union {<<c, name>>}
  <2>1. ASSUME NEW x \in Held' PROVE x \in Held \/ x = <<c, name>>
    BY <2>1, HeldMembers
  <2>2. ASSUME NEW x \in Held PROVE x \in Held'
    BY <2>2, HeldMembers
  <2>3. <<c, name>> \in Held'
    BY HeldMembers
  <2> QED BY <2>1, <2>2, <2>3
<1>3. ASSUME NEW a
      PROVE  HeldOn(a)' = IF a = IdOf(c, name) THEN HeldOn(a) \union {<<c, name>>} ELSE HeldOn(a)
  <2>1. ArrayOfHeld(<<c, name>>)' = IdOf(c, name)
    BY ArraysStay
  <2>2. \A x : x \in HeldOn(a)' <=> \/ x \in HeldOn(a)
                                    \/ x = <<c, name>> /\ a = IdOf(c, name)
    BY <1>1, <1>2, <2>1, BookMembers, ArraysStay
  <2> QED BY <2>2
<1> QED BY <1>1, <1>2, <1>3

\* A buffer given back.
LEMMA OneLessHeld ==
    ASSUME SameCalls, NEW c \in Callers, NEW name \in callers[c].buffers,
           callers'[c].buffers = callers[c].buffers \ {name},
           \A d \in Callers \ {c} : callers'[d].buffers = callers[d].buffers
    PROVE  /\ <<c, name>> \in Held /\ Held' = Held \ {<<c, name>>}
           /\ <<c, name>> \in HeldOn(IdOf(c, name))
           /\ \A a : HeldOn(a)' = IF a = IdOf(c, name) THEN HeldOn(a) \ {<<c, name>>}
                                  ELSE HeldOn(a)
<1>1. <<c, name>> \in Held
  BY HeldMembers
<1>2. Held' = Held \ {<<c, name>>}
  <2>1. ASSUME NEW x \in Held' PROVE x \in Held /\ x # <<c, name>>
    BY <2>1, HeldMembers
  <2>2. ASSUME NEW x \in Held, x # <<c, name>> PROVE x \in Held'
    BY <2>2, HeldMembers
  <2> QED BY <2>1, <2>2
<1>3. ArrayOfHeld(<<c, name>>) = IdOf(c, name)
  BY DEF ArrayOfHeld
<1>4. ASSUME NEW a
      PROVE  HeldOn(a)' = IF a = IdOf(c, name) THEN HeldOn(a) \ {<<c, name>>} ELSE HeldOn(a)
  <2>1. \A x : x \in HeldOn(a)' <=> x \in HeldOn(a) /\ x # <<c, name>>
    BY <1>2, BookMembers, ArraysStay
  <2>2. a # IdOf(c, name) => <<c, name>> \notin HeldOn(a)
    BY <1>3, BookMembers
  <2> QED BY <2>1, <2>2
<1> QED BY <1>1, <1>2, <1>3, <1>4, BookMembers

\* A view taken and a view cleared.
LEMMA OneMoreViewed ==
    ASSUME NEW c \in Callers, NEW name,
           callers'[c].views = callers[c].views \union {name},
           \A d \in Callers \ {c} : callers'[d].views = callers[d].views
    PROVE  Viewed' = Viewed \union {<<c, name>>}
<1>1. ASSUME NEW x \in Viewed' PROVE x \in Viewed \/ x = <<c, name>>
  BY <1>1, ViewedMembers
<1>2. ASSUME NEW x \in Viewed PROVE x \in Viewed'
  BY <1>2, ViewedMembers
<1>3. <<c, name>> \in Viewed'
  BY ViewedMembers
<1> QED BY <1>1, <1>2, <1>3

\* A view cleared.
LEMMA OneLessViewed ==
    ASSUME NEW c \in Callers, NEW name \in callers[c].views,
           callers'[c].views = callers[c].views \ {name},
           \A d \in Callers \ {c} : callers'[d].views = callers[d].views
    PROVE  <<c, name>> \in Viewed /\ Viewed' = Viewed \ {<<c, name>>}
<1>1. ASSUME NEW x \in Viewed' PROVE x \in Viewed /\ x # <<c, name>>
  BY <1>1, ViewedMembers
<1>2. ASSUME NEW x \in Viewed, x # <<c, name>> PROVE x \in Viewed'
  BY <1>2, ViewedMembers
<1> QED BY <1>1, <1>2, ViewedMembers
----------------------------------------------------------------------------
(* What a step does to the callers.                                         *)

\* One caller moves on; its call stays what it is.
Moves(c) ==
    /\ DOMAIN callers' = Callers
    /\ DOMAIN callers'[c] = CallerFields
    /\ callers'[c].call = callers[c].call
    /\ callers'[c].stage \in Stages
    /\ callers'[c].step \in Nat
    /\ \A d \in Callers \ {c} : callers'[d] = callers[d]

\* It holds what it held.
Keeps(c) ==
    /\ callers'[c].args = callers[c].args
    /\ callers'[c].buffers = callers[c].buffers
    /\ callers'[c].views = callers[c].views

\* What a caller holds depends on nothing but the caller.
LEMMA HoldingStays ==
    ASSUME NEW d, callers'[d] = callers[d], HoldingInv(d)
    PROVE  HoldingInv(d)'
<1>1. Body(d)' = Body(d)
  BY ReadsCallAndArgs
<1> QED BY <1>1 DEF HoldingInv, Passed

\* A step of one caller keeps what is said of all.
LEMMA CallersMove ==
    ASSUME CallersInv, NEW c \in Callers, Moves(c), HoldingInv(c)'
    PROVE  CallersInv'
<1> SUFFICES ASSUME NEW d \in Callers
             PROVE  /\ DOMAIN callers'[d] = CallerFields /\ callers'[d].stage \in Stages
                    /\ callers'[d].step \in Nat /\ callers'[d].call.fn \in DOMAIN Signature
                    /\ HoldingInv(d)'
  BY DEF CallersInv, Moves
<1>1. CASE d = c
  BY <1>1 DEF CallersInv, Moves
<1>2. CASE d # c
  BY <1>2, HoldingStays DEF CallersInv, Moves
<1> QED BY <1>1, <1>2

\* So does a step of none.
LEMMA CallersStay ==
    ASSUME CallersInv, callers' = callers
    PROVE  CallersInv' /\ SameHoldings /\ SameCalls
<1>1. \A d \in Callers : HoldingInv(d)'
  BY HoldingStays DEF CallersInv
<1> QED BY <1>1 DEF CallersInv, SameHoldings, SameCalls

\* A caller that keeps its holdings changes no books.
LEMMA KeepsHoldings ==
    ASSUME NEW c \in Callers, Moves(c), Keeps(c)
    PROVE  SameHoldings /\ SameCalls
BY DEF Moves, Keeps, SameHoldings, SameCalls

\* To another stage, where a caller holds what it held.
Staged(c, stage) ==
    Moves(c) /\ Keeps(c) /\ callers'[c].stage = stage /\ callers'[c].found = callers[c].found

\* A new stage and nothing else.
LEMMA ToMoves ==
    ASSUME CallersInv, NEW c \in Callers, NEW stage \in Stages, To(c, stage)
    PROVE  Staged(c, stage) /\ callers'[c].step = callers[c].step
BY DEF CallersInv, CallerFields, To, Staged, Moves, Keeps

\* On the way out a caller still holds what it held.
LEMMA OutMoves ==
    ASSUME CallersInv, NEW c \in Callers, NEW kind, NEW value, Out(c, kind, value)
    PROVE  Staged(c, "leaving")
BY DEF CallersInv, CallerFields, Out, Staged, Moves, Keeps, Stages

\* The next step of a body.
LEMMA AdvanceMoves ==
    ASSUME CallersInv, NEW c \in Callers, Advance(c)
    PROVE  Staged(c, callers[c].stage) /\ callers'[c].step = callers[c].step + 1
BY DEF CallersInv, CallerFields, Advance, Staged, Moves, Keeps

\* Nothing is asked of a caller that leaves, and a caller outside its body
\* holds nothing.
LEMMA LeavingHolds ==
    ASSUME NEW c, callers'[c].stage = "leaving"
    PROVE  HoldingInv(c)'
BY DEF HoldingInv

\* Who holds nothing, holds what it should.
LEMMA EmptyHolds ==
    ASSUME NEW c, callers'[c].buffers = {}, callers'[c].views = {},
           callers'[c].step >= 1 \/ callers'[c].stage \notin {"running", "outside"}
    PROVE  HoldingInv(c)'
BY DEF HoldingInv

\* What is passed stays passed, and a step that is done is passed.
LEMMA PassedStays ==
    ASSUME NEW c, callers'[c].call = callers[c].call, callers'[c].args = callers[c].args,
           callers[c].step \in Nat, callers'[c].step \in Nat,
           callers'[c].step >= callers[c].step
    PROVE  \A do, name : Passed(c, do, name) => Passed(c, do, name)'
<1> SUFFICES ASSUME NEW do, NEW name, Passed(c, do, name)
             PROVE  Passed(c, do, name)'
  OBVIOUS
<1>1. Body(c)' = Body(c)
  BY ReadsCallAndArgs
<1>2. PICK k \in 1..Len(Body(c)) :
          k < callers[c].step /\ Body(c)[k].do = do /\ Body(c)[k].of = name
  BY DEF Passed
<1>3. k < callers'[c].step
  BY <1>2
<1> QED BY <1>1, <1>2, <1>3 DEF Passed

\* The step that is done is passed.
LEMMA JustPassed ==
    ASSUME CallersInv, NEW c \in Callers, NEW do, At(c, do), NEW name, name = Step(c).of,
           callers'[c].call = callers[c].call, callers'[c].args = callers[c].args,
           callers'[c].step = callers[c].step + 1
    PROVE  Passed(c, do, name)'
<1>1. Body(c)' = Body(c)
  BY ReadsCallAndArgs
<1>2. callers[c].step \in 1..Len(Body(c)) /\ Body(c)[callers[c].step].do = do
  <2>1. Distinct(Body(c)) /\ HoldingInv(c) /\ callers[c].stage = "running"
    BY StepsAreDistinct DEF CallersInv, At, Is
  <2> QED BY <2>1 DEF Distinct, HoldingInv, CallersInv, At, Step
<1>3. callers[c].step < callers'[c].step
  BY <1>2
<1> QED BY <1>1, <1>2, <1>3 DEF Passed, Step

\* A caller in its body holds what it has got before, wherever it is.
LEMMA RunningHolds ==
    ASSUME NEW c, HoldingInv(c), callers[c].stage \in {"running", "outside"},
           callers'[c].call = callers[c].call, Keeps(c),
           callers[c].step \in Nat, callers'[c].step \in Nat,
           callers'[c].step >= callers[c].step,
           callers'[c].stage \in {"running", "outside"}
    PROVE  HoldingInv(c)'
<1>1. \A do, name : Passed(c, do, name) => Passed(c, do, name)'
  BY PassedStays DEF Keeps
<1> QED BY <1>1 DEF HoldingInv, Keeps
----------------------------------------------------------------------------
(* The steps that touch the heap.                                           *)

\* The step a running caller is at asks for something it does not hold yet.
LEMMA NotYetHeld ==
    ASSUME CallersInv, NEW c \in Callers, NEW do \in {"buffer", "view"}, At(c, do)
    PROVE  IF do = "buffer" THEN Step(c).of \notin callers[c].buffers
                            ELSE Step(c).of \notin callers[c].views
<1>1. /\ HoldingInv(c) /\ callers[c].stage = "running" /\ callers[c].step \in Nat
      /\ Distinct(Body(c)) /\ callers[c].step <= Len(Body(c)) /\ callers[c].step >= 1
  BY StepsAreDistinct DEF CallersInv, At, Is, HoldingInv
<1>2. ~Passed(c, do, Step(c).of)
  <2> SUFFICES ASSUME NEW k \in 1..Len(Body(c)), k < callers[c].step,
                      Body(c)[k].do = do, Body(c)[k].of = Step(c).of
               PROVE  FALSE
    BY DEF Passed
  <2>1. callers[c].step \in 1..Len(Body(c)) /\ Body(c)[callers[c].step].do = do
    BY <1>1 DEF At, Step, Distinct
  <2> QED BY <1>1, <2>1 DEF Distinct, Step
<1> QED BY <1>1, <1>2 DEF HoldingInv

\* The fields of the heap after a buffer was taken, and given back.
LEMMA ExportCounts ==
    ASSUME NEW h, HeapOK(h), NEW a
    PROVE  LET m == Export(h, a) IN
           /\ HeapOK(m) /\ m.objects = h.objects /\ m.pool = h.pool /\ m.used = h.used
           /\ \A b \in ArrayIds \ {a} : m.exports[b] = h.exports[b]
           /\ a \in ArrayIds => m.exports[a] = h.exports[a] + 1
BY DEF HeapOK, HeapFields, Export

\* The fields of the heap after a buffer was given back.
LEMMA ReleaseCounts ==
    ASSUME NEW h, HeapOK(h), NEW a
    PROVE  LET m == SafeReleaseBuffer(h, a) IN
           /\ HeapOK(m) /\ m.objects = h.objects /\ m.pool = h.pool /\ m.used = h.used
           /\ \A b \in ArrayIds \ {a} : m.exports[b] = h.exports[b]
           /\ a \in ArrayIds => m.exports[a] = h.exports[a] - 1
BY DEF HeapOK, HeapFields, SafeReleaseBuffer

\* The locks and the objects of two heaps that differ in their counts.
LEMMA SameLocks ==
    ASSUME NEW h, LocksOK(h), NEW m, m.objects = h.objects, m.pool = h.pool, m.used = h.used
    PROVE  LocksOK(m)
BY DEF LocksOK, PoolOK, Owns

\* A buffer is on the books exactly if it passed the validation.
LEMMA GetBufferBooks ==
    ASSUME CallersInv, HeapInv, NEW c \in Callers, GetBuffer(c)
    PROVE  HeapInv' /\ CallersInv'
<1> PICK name : name = Step(c).of
  OBVIOUS
<1> DEFINE fits == Validated(TheArray(c, name), Want(callers[c].call.fn, name))
           a == IdOf(c, name)
<1>1. /\ At(c, "buffer") /\ HoldingInv(c) /\ callers[c].stage = "running"
      /\ heap' = GetBufferAndValidate(heap, a, fits)
  BY DEF GetBuffer, CallersInv, At, Is
<1>2. CASE fits /\ callers' = [callers EXCEPT ![c].step = @ + 1, ![c].buffers = @ \union {name}]
  <2>1. /\ Moves(c) /\ callers'[c].args = callers[c].args /\ callers'[c].views = callers[c].views
        /\ callers'[c].buffers = callers[c].buffers \union {name}
        /\ callers'[c].stage = "running" /\ callers'[c].step = callers[c].step + 1
    BY <1>1, <1>2 DEF CallersInv, CallerFields, Moves
  <2>2. SameCalls
    BY <2>1 DEF Moves, SameCalls
  <2>3. name \notin callers[c].buffers
    BY <1>1, NotYetHeld
  <2>4. \A d \in Callers \ {c} : callers'[d].buffers = callers[d].buffers
    BY <2>1 DEF Moves
  <2> HIDE DEF fits, a
  <2>5. /\ <<c, name>> \notin Held /\ Held' = Held \union {<<c, name>>}
        /\ \A b : HeldOn(b)' = IF b = a THEN HeldOn(b) \union {<<c, name>>} ELSE HeldOn(b)
    BY <2>1, <2>2, <2>3, <2>4, OneMoreHeld DEF a
  <2>6. Viewed' = Viewed
    BY <2>1 DEF Viewed, Moves
  <2>7. heap' = Export(heap, a)
    BY <1>1, <1>2 DEF GetBufferAndValidate
  <2> DEFINE m == Export(heap, a)
  <2>8. /\ HeapOK(m) /\ m.objects = heap.objects /\ m.pool = heap.pool /\ m.used = heap.used
        /\ \A b \in ArrayIds \ {a} : m.exports[b] = heap.exports[b]
        /\ a \in ArrayIds => m.exports[a] = heap.exports[a] + 1
    BY ExportCounts DEF HeapInv
  <2>9. LocksOK(m)
    BY <2>8, SameLocks DEF HeapInv
  <2> HIDE DEF m
  <2>10. \A b : ObjectsOn(b)' = ObjectsOn(b)
    BY <2>7, <2>8 DEF ObjectsOn, m
  <2>11. IsFiniteSet(Held') /\ IsFiniteSet(Viewed')
    BY <2>5, <2>6, CountOneMore DEF HeapInv
  <2>12. ASSUME NEW b \in ArrayIds
         PROVE  heap'.exports[b] = Cardinality(HeldOn(b)') + Cardinality(ObjectsOn(b)')
    <3>1. /\ IsFiniteSet(HeldOn(b)) /\ Cardinality(HeldOn(b)) \in Nat
          /\ Cardinality(ObjectsOn(b)) \in Nat
          /\ heap.exports[b] = Cardinality(HeldOn(b)) + Cardinality(ObjectsOn(b))
      BY CountsAreFinite DEF HeapInv
    <3>2. CASE b = a
      <4>1. <<c, name>> \notin HeldOn(b)
        BY <2>5, BookMembers
      <4>2. Cardinality(HeldOn(b)') = Cardinality(HeldOn(b)) + 1
        BY <2>5, <3>1, <3>2, <4>1, CountOneMore
      <4> QED BY <2>7, <2>8, <2>10, <3>1, <3>2, <4>2 DEF m
    <3>3. CASE b # a
      BY <2>5, <2>7, <2>8, <2>10, <3>1, <3>3 DEF m
    <3> QED BY <3>2, <3>3
  <2>13. HeapInv'
    BY <2>6, <2>7, <2>8, <2>9, <2>11, <2>12 DEF HeapInv, HeapOK, m
  <2>14. HoldingInv(c)'
    <3>1. Passed(c, "buffer", name)'
      BY <1>1, <2>1, JustPassed DEF Moves
    <3>2. \A do, n : Passed(c, do, n) => Passed(c, do, n)'
      <4>1. callers[c].step \in Nat
        BY DEF CallersInv
      <4> QED BY <2>1, <4>1, PassedStays DEF Moves
    <3>3. callers'[c].step >= 1
      BY <2>1 DEF CallersInv
    <3>4. /\ \A n \in callers[c].buffers : Passed(c, "buffer", n)
          /\ \A n \in callers[c].views : Passed(c, "view", n)
      BY <1>1 DEF HoldingInv
    <3> QED BY <2>1, <3>1, <3>2, <3>3, <3>4 DEF HoldingInv
  <2> QED BY <2>1, <2>13, <2>14, CallersMove
<1>3. CASE ~fits /\ Refuse(c)
  <2>1. Staged(c, "leaving")
    BY <1>3, OutMoves DEF Refuse
  <2>2. SameHoldings /\ HoldingInv(c)'
    BY <2>1, KeepsHoldings, LeavingHolds DEF Staged
  <2> DEFINE e == Export(heap, a)
             m == SafeReleaseBuffer(e, a)
  <2>3. heap' = m
    BY <1>1, <1>3 DEF GetBufferAndValidate
  <2> HIDE DEF a, fits
  <2>4. /\ HeapOK(e) /\ e.objects = heap.objects /\ e.pool = heap.pool /\ e.used = heap.used
        /\ \A b \in ArrayIds \ {a} : e.exports[b] = heap.exports[b]
        /\ a \in ArrayIds => e.exports[a] = heap.exports[a] + 1
    BY ExportCounts DEF HeapInv
  <2>5. /\ HeapOK(m) /\ m.objects = heap.objects /\ m.pool = heap.pool /\ m.used = heap.used
        /\ \A b \in ArrayIds : heap.exports[b] \in Nat => m.exports[b] = heap.exports[b]
    <3> HIDE DEF e
    <3>1. DOMAIN e = HeapFields /\ DOMAIN e.exports = ArrayIds
      BY <2>4 DEF HeapOK
    <3>2. /\ DOMAIN m = HeapFields /\ m.objects = e.objects /\ m.pool = e.pool
          /\ m.used = e.used /\ DOMAIN m.exports = ArrayIds
          /\ \A b \in ArrayIds : m.exports[b] = IF b = a THEN e.exports[b] - 1 ELSE e.exports[b]
      BY <3>1 DEF SafeReleaseBuffer, HeapFields
    <3> HIDE DEF m
    <3> QED BY <2>4, <3>2 DEF HeapOK
  <2> HIDE DEF e, m
  <2>6. \A b \in ArrayIds : heap.exports[b] \in Nat
    BY CountsAreFinite DEF HeapInv
  <2>7. LocksOK(m)
    BY <2>5, SameLocks DEF HeapInv
  <2>8. HeapInv'
    BY <2>2, <2>3, <2>5, <2>6, <2>7, HeldStaysHeld DEF HeapInv, ObjectsOn, HeapOK
  <2> QED BY <2>1, <2>2, <2>8, CallersMove DEF Staged
<1> QED BY <1>2, <1>3 DEF GetBuffer

\* If every object owns its lock, one may go.
LEMMA LocksOfOthers ==
    ASSUME NEW h, LocksOK(h), NEW id \in DOMAIN h.objects
    PROVE  OthersOK(h, id)
BY DEF LocksOK, OthersOK

\* An object that is made and dropped at once, with a lock or without one,
\* leaves nothing behind but, perhaps, another order of the pool.
LEMMA MadeAndDropped ==
    ASSUME NEW h, HeapOK(h), LocksOK(h), NEW id, id \notin DOMAIN h.objects, NEW a,
           NEW memory \in BOOLEAN
    PROVE  LET d == Dealloc(Cinit(h, id, a, memory), id) IN
           /\ HeapOK(d) /\ LocksOK(d) /\ DOMAIN d.objects = DOMAIN h.objects
           /\ \A x \in DOMAIN h.objects : d.objects[x] = h.objects[x]
           /\ \A b \in ArrayIds : h.exports[b] \in Nat => d.exports[b] = h.exports[b]
<1> DEFINE m == Cinit(h, id, a, memory)
           l == LockFor(h, id, memory)
<1>1. Added(h, id, a, memory, m)
  BY CinitAdds
<1>2. OthersOK(m, id)
  <2>1. CASE l = {} => Atomics
    <3>1. LocksOK(m)
      BY <2>1, CinitKeepsLocks
    <3>2. id \in DOMAIN m.objects
      BY <1>1 DEF Added
    <3> HIDE DEF m
    <3> QED BY <3>1, <3>2, LocksOfOthers
  <2>2. CASE l = {} /\ ~Atomics
    <3> HIDE DEF m, l
    <3>1. /\ m.pool = h.pool /\ m.used \in h.used..(h.used + 1) /\ m.objects[id].lock = {}
          /\ DOMAIN m.objects \ {id} = DOMAIN h.objects
          /\ \A x \in DOMAIN h.objects : m.objects[x] = h.objects[x]
      BY <1>1, <2>2 DEF Added, l
    <3>2. \A x \in DOMAIN h.objects : Owns(m, x, m.objects[x].lock)
      BY <2>2, <3>1, PoolElements DEF LocksOK, Owns
    <3> QED BY <2>2, <3>1, <3>2 DEF OthersOK, LocksOK, PoolOK
  <2> QED BY <2>1, <2>2
<1> HIDE DEF m
<1> DEFINE d == Dealloc(m, id)
<1>3. Removed(m, id, d)
  BY <1>1, <1>2, DeallocRemoves DEF Added
<1> HIDE DEF d
<1>4. /\ DOMAIN d.objects = DOMAIN h.objects
      /\ \A x \in DOMAIN h.objects : d.objects[x] = h.objects[x]
  BY <1>1, <1>3 DEF Added, Removed
<1>5. ASSUME NEW b \in ArrayIds, h.exports[b] \in Nat PROVE d.exports[b] = h.exports[b]
  <2>1. m.objects[id].array = a
    BY <1>1 DEF Added
  <2>2. /\ m.exports[b] = IF b = a THEN h.exports[b] + 1 ELSE h.exports[b]
        /\ d.exports[b] = IF b = a THEN m.exports[b] - 1 ELSE m.exports[b]
    BY <1>1, <1>3, <2>1 DEF Added, Removed, HeapOK
  <2> QED BY <1>5, <2>2
<1> QED BY <1>3, <1>4, <1>5 DEF Removed, d, m

\* A heap with the same objects and the same counts.
LEMMA BooksOfSame ==
    ASSUME HeapInv, SameHoldings, HeapOK(heap'), LocksOK(heap'),
           DOMAIN heap'.objects = DOMAIN heap.objects,
           \A x \in DOMAIN heap.objects : heap'.objects[x] = heap.objects[x],
           \A b \in ArrayIds : heap'.exports[b] = heap.exports[b]
    PROVE  HeapInv'
<1>1. \A b : ObjectsOn(b)' = ObjectsOn(b)
  BY DEF ObjectsOn
<1>2. HeapOK(heap)' /\ LocksOK(heap)'
  BY DEF HeapOK, LocksOK, PoolOK, Owns
<1> QED BY <1>1, <1>2, HeldStaysHeld DEF HeapInv

\* A view is on the books exactly if its object passed the validation and got a lock.
LEMMA ToMemoryviewSliceBooks ==
    ASSUME CallersInv, HeapInv, NEW c \in Callers, ToMemoryviewSlice(c)
    PROVE  HeapInv' /\ CallersInv'
<1> PICK name : name = Step(c).of
  OBVIOUS
<1> PICK id : id = <<c, name>>
  OBVIOUS
<1> DEFINE a == IdOf(c, name)
           fits == Validated(TheArray(c, name), Want(callers[c].call.fn, name))
           made == Cinit(heap, id, a, TRUE)
           lockless == Cinit(heap, id, a, FALSE)
<1>1. At(c, "view") /\ HoldingInv(c) /\ callers[c].stage = "running"
  BY DEF ToMemoryviewSlice, CallersInv, At, Is
<1>2. name \notin callers[c].views
  BY <1>1, NotYetHeld
<1>3. id \notin DOMAIN heap.objects /\ id \notin Viewed
  BY <1>2, ViewedMembers DEF HeapInv
<1>4. \A b \in ArrayIds : heap.exports[b] \in Nat
  BY CountsAreFinite DEF HeapInv
<1>5. ASSUME NEW memory \in BOOLEAN, heap' = Dealloc(Cinit(heap, id, a, memory), id),
             Staged(c, "leaving")
      PROVE  HeapInv' /\ CallersInv'
  <2>1. SameHoldings /\ HoldingInv(c)'
    BY <1>5, KeepsHoldings, LeavingHolds DEF Staged
  <2> HIDE DEF a
  <2>2. /\ HeapOK(heap') /\ LocksOK(heap') /\ DOMAIN heap'.objects = DOMAIN heap.objects
        /\ \A x \in DOMAIN heap.objects : heap'.objects[x] = heap.objects[x]
        /\ \A b \in ArrayIds : heap.exports[b] \in Nat => heap'.exports[b] = heap.exports[b]
    BY <1>3, <1>5, MadeAndDropped DEF HeapInv
  <2> QED BY <1>4, <1>5, <2>1, <2>2, BooksOfSame, CallersMove DEF Staged
<1>6. CASE Refuse(c) /\ UNCHANGED heap
  <2>1. Staged(c, "leaving")
    BY <1>6, OutMoves DEF Refuse
  <2>2. SameHoldings /\ HoldingInv(c)'
    BY <2>1, KeepsHoldings, LeavingHolds DEF Staged
  <2> QED BY <1>6, <2>1, <2>2, SameBooks, CallersMove DEF Staged
<1>7. CASE Refuse(c) /\ heap' = Dealloc(made, id)
  <2>1. Staged(c, "leaving")
    BY <1>7, OutMoves DEF Refuse
  <2> QED BY <1>5, <1>7, <2>1
<1>8. CASE Fail(c) /\ heap' = Dealloc(lockless, id)
  <2>1. Staged(c, "leaving")
    BY <1>8, OutMoves DEF Fail
  <2> QED BY <1>5, <1>8, <2>1
<1>9. CASE /\ heap' = InitMemviewslice(made, id)
           /\ callers' = [callers EXCEPT ![c].step = @ + 1, ![c].views = @ \union {name}]
  <2>1. /\ Moves(c) /\ callers'[c].args = callers[c].args
        /\ callers'[c].buffers = callers[c].buffers
        /\ callers'[c].views = callers[c].views \union {name}
        /\ callers'[c].stage = "running" /\ callers'[c].step = callers[c].step + 1
    BY <1>1, <1>9 DEF CallersInv, CallerFields, Moves
  <2>2. Viewed' = Viewed \union {id}
    <3>1. \A d \in Callers \ {c} : callers'[d].views = callers[d].views
      BY <2>1 DEF Moves
    <3> QED BY <2>1, <3>1, OneMoreViewed
  <2>3. Held' = Held /\ \A b : HeldOn(b)' = HeldOn(b)
    <3>1. SameCalls
      BY <2>1 DEF Moves, SameCalls
    <3>2. \A d \in Callers : callers'[d].buffers = callers[d].buffers
      BY <2>1 DEF Moves
    <3>3. Held' = Held
      BY <3>2 DEF Held
    <3> QED BY <3>1, <3>3, ArraysStay DEF HeldOn
  <2> HIDE DEF a, fits
  <2>4. Added(heap, id, a, TRUE, made) /\ LocksOK(made)
    <3>1. LockFor(heap, id, TRUE) = {} => Atomics
      BY DEF LockFor
    <3> QED BY <1>3, <3>1, CinitAdds, CinitKeepsLocks DEF HeapInv
  <2> HIDE DEF made
  <2> DEFINE m == InitMemviewslice(made, id)
  <2>5. /\ HeapOK(m) /\ m.exports = made.exports /\ m.pool = made.pool /\ m.used = made.used
        /\ DOMAIN m.objects = DOMAIN made.objects
        /\ m.objects[id].array = a /\ m.objects[id].acquired = 1
        /\ m.objects[id].lock = made.objects[id].lock
        /\ \A x \in DOMAIN heap.objects : m.objects[x] = heap.objects[x]
    <3>1. /\ HeapOK(made) /\ DOMAIN made.objects = DOMAIN heap.objects \union {id}
          /\ DOMAIN made.objects[id] = ObjectFields /\ made.objects[id].array = a
          /\ made.objects[id].acquired = 0
          /\ \A x \in DOMAIN heap.objects : made.objects[x] = heap.objects[x]
      BY <1>3, <2>4 DEF Added, HeapOK
    <3> DEFINE o == [made.objects[id] EXCEPT !.acquired = @ + 1]
               w == [made.objects EXCEPT ![id] = o]
    <3>2. DOMAIN w = DOMAIN made.objects /\ w[id] = o
          /\ \A x \in DOMAIN heap.objects : w[x] = heap.objects[x]
      BY <1>3, <3>1
    <3>3. m = [made EXCEPT !.objects = w]
      BY DEF InitMemviewslice
    <3>4. /\ DOMAIN o = ObjectFields /\ o.array = a /\ o.acquired = 1
          /\ o.lock = made.objects[id].lock
      BY <3>1 DEF ObjectFields
    <3> HIDE DEF m, w, o
    <3>5. /\ DOMAIN m = HeapFields /\ m.objects = w
          /\ m.exports = made.exports /\ m.pool = made.pool /\ m.used = made.used
      BY <3>1, <3>3 DEF HeapOK, HeapFields
    <3> QED BY <1>3, <3>1, <3>2, <3>4, <3>5 DEF HeapOK
  <2> HIDE DEF m
  <2>6. heap' = m
    BY <1>9 DEF m
  <2>7. LocksOK(m)
    <3>1. /\ DOMAIN made.objects = DOMAIN heap.objects \union {id}
          /\ \A x \in DOMAIN heap.objects : made.objects[x] = heap.objects[x]
      BY <1>3, <2>4 DEF Added
    <3>2. \A x \in DOMAIN m.objects : m.objects[x].lock = made.objects[x].lock
      BY <2>5, <3>1
    <3> QED BY <2>4, <2>5, <3>2 DEF LocksOK, PoolOK, Owns
  <2>8. HeapOK(heap)' /\ LocksOK(heap)'
    BY <2>5, <2>6, <2>7 DEF HeapOK, LocksOK, PoolOK, Owns
  <2>9. /\ DOMAIN heap'.objects = Viewed' /\ IsFiniteSet(Viewed')
        /\ \A x \in DOMAIN heap'.objects : heap'.objects[x].acquired = 1
    BY <1>3, <2>2, <2>4, <2>5, <2>6, CountOneMore DEF Added, HeapInv
  <2>10. \A b : ObjectsOn(b)' = IF b = a THEN ObjectsOn(b) \union {id} ELSE ObjectsOn(b)
    <3>1. /\ DOMAIN heap'.objects = DOMAIN heap.objects \union {id}
          /\ heap'.objects[id].array = a
          /\ \A x \in DOMAIN heap.objects : heap'.objects[x] = heap.objects[x]
      BY <2>4, <2>5, <2>6 DEF Added
    <3>2. ASSUME NEW b PROVE ObjectsOn(b)' = ObjectsOn(b) \union (IF b = a THEN {id} ELSE {})
      <4> DEFINE before == heap.objects
                 after == heap'.objects
      <4>1. { x \in DOMAIN after : after[x].array = b }
              = { x \in DOMAIN before : before[x].array = b } \union (IF b = a THEN {id} ELSE {})
        <5> HIDE DEF before, after
        <5> SUFFICES /\ DOMAIN after = DOMAIN before \union {id} /\ after[id].array = a
                     /\ \A x \in DOMAIN before : after[x] = before[x]
                     /\ id \notin DOMAIN before
          OBVIOUS
        <5> QED BY <1>3, <3>1 DEF before, after
      <4> QED BY <4>1 DEF ObjectsOn
    <3> QED BY <3>2
  <2>11. ASSUME NEW b \in ArrayIds
         PROVE  heap'.exports[b] = Cardinality(HeldOn(b)') + Cardinality(ObjectsOn(b)')
    <3>1. /\ IsFiniteSet(ObjectsOn(b)) /\ Cardinality(HeldOn(b)) \in Nat
          /\ Cardinality(ObjectsOn(b)) \in Nat
          /\ heap.exports[b] = Cardinality(HeldOn(b)) + Cardinality(ObjectsOn(b))
      BY CountsAreFinite DEF HeapInv
    <3>2. heap'.exports[b] = IF b = a THEN heap.exports[b] + 1 ELSE heap.exports[b]
      BY <2>4, <2>5, <2>6 DEF Added, HeapInv, HeapOK
    <3>3. id \notin ObjectsOn(b)
      BY <1>3 DEF ObjectsOn
    <3>4. Cardinality(ObjectsOn(b)') = IF b = a THEN Cardinality(ObjectsOn(b)) + 1
                                       ELSE Cardinality(ObjectsOn(b))
      BY <2>10, <3>1, <3>3, CountOneMore
    <3> QED BY <2>3, <3>1, <3>2, <3>4
  <2>12. HeapInv'
    BY <2>3, <2>8, <2>9, <2>11 DEF HeapInv
  <2>13. HoldingInv(c)'
    <3>1. Passed(c, "view", name)'
      BY <1>1, <2>1, JustPassed DEF Moves
    <3>2. \A do, n : Passed(c, do, n) => Passed(c, do, n)'
      <4>1. callers[c].step \in Nat
        BY DEF CallersInv
      <4> QED BY <2>1, <4>1, PassedStays DEF Moves
    <3>3. callers'[c].step >= 1
      BY <2>1 DEF CallersInv
    <3>4. /\ \A n \in callers[c].buffers : Passed(c, "buffer", n)
          /\ \A n \in callers[c].views : Passed(c, "view", n)
      BY <1>1 DEF HoldingInv
    <3> QED BY <2>1, <3>1, <3>2, <3>3, <3>4 DEF HoldingInv
  <2> QED BY <2>1, <2>12, <2>13, CallersMove
<1> QED BY <1>6, <1>7, <1>8, <1>9 DEF ToMemoryviewSlice

\* The way out takes buffer by buffer and view by view off the books.
LEMMA LeaveBooks ==
    ASSUME CallersInv, HeapInv, NEW c \in Callers, Leave(c)
    PROVE  HeapInv' /\ CallersInv'
<1>1. HoldingInv(c) /\ callers[c].stage = "leaving"
  BY DEF Leave, CallersInv, Is
<1>2. ASSUME NEW name \in callers[c].buffers, GiveBuffer(c, name)
      PROVE  HeapInv' /\ CallersInv'
  <2>1. /\ Moves(c) /\ callers'[c].args = callers[c].args /\ callers'[c].views = callers[c].views
        /\ callers'[c].buffers = callers[c].buffers \ {name}
        /\ callers'[c].stage = "leaving"
    BY <1>1, <1>2 DEF CallersInv, CallerFields, Moves, GiveBuffer
  <2>2. SameCalls
    BY <2>1 DEF Moves, SameCalls
  <2>3. \A d \in Callers \ {c} : callers'[d].buffers = callers[d].buffers
    BY <2>1 DEF Moves
  <2> DEFINE a == IdOf(c, name)
  <2>4. heap' = SafeReleaseBuffer(heap, a)
    BY <1>2 DEF GiveBuffer
  <2> HIDE DEF a
  <2>5. /\ Held' = Held \ {<<c, name>>} /\ <<c, name>> \in HeldOn(a) /\ <<c, name>> \in Held
        /\ \A b : HeldOn(b)' = IF b = a THEN HeldOn(b) \ {<<c, name>>} ELSE HeldOn(b)
    BY <1>2, <2>1, <2>2, <2>3, OneLessHeld DEF a
  <2>6. Viewed' = Viewed
    BY <2>1 DEF Viewed, Moves
  <2> DEFINE m == SafeReleaseBuffer(heap, a)
  <2>7. /\ HeapOK(m) /\ m.objects = heap.objects /\ m.pool = heap.pool /\ m.used = heap.used
        /\ \A b \in ArrayIds \ {a} : m.exports[b] = heap.exports[b]
        /\ a \in ArrayIds => m.exports[a] = heap.exports[a] - 1
    BY ReleaseCounts DEF HeapInv
  <2>8. LocksOK(m)
    BY <2>7, SameLocks DEF HeapInv
  <2> HIDE DEF m
  <2>9. \A b : ObjectsOn(b)' = ObjectsOn(b)
    BY <2>4, <2>7 DEF ObjectsOn, m
  <2>10. IsFiniteSet(Held') /\ IsFiniteSet(Viewed')
    BY <2>5, <2>6, CountOneLess DEF HeapInv
  <2>11. ASSUME NEW b \in ArrayIds
         PROVE  heap'.exports[b] = Cardinality(HeldOn(b)') + Cardinality(ObjectsOn(b)')
    <3>1. /\ IsFiniteSet(HeldOn(b)) /\ Cardinality(HeldOn(b)) \in Nat
          /\ Cardinality(ObjectsOn(b)) \in Nat
          /\ heap.exports[b] = Cardinality(HeldOn(b)) + Cardinality(ObjectsOn(b))
      BY CountsAreFinite DEF HeapInv
    <3>2. CASE b = a
      <4>1. Cardinality(HeldOn(b)') = Cardinality(HeldOn(b)) - 1
        BY <2>5, <3>1, <3>2, CountOneLess
      <4> QED BY <2>4, <2>7, <2>9, <3>1, <3>2, <4>1 DEF m
    <3>3. CASE b # a
      BY <2>4, <2>5, <2>7, <2>9, <3>1, <3>3 DEF m
    <3> QED BY <3>2, <3>3
  <2>12. HeapInv'
    BY <2>4, <2>6, <2>7, <2>8, <2>10, <2>11 DEF HeapInv, HeapOK, m
  <2> QED BY <2>1, <2>12, LeavingHolds, CallersMove
<1>3. ASSUME NEW name \in callers[c].views, GiveView(c, name)
      PROVE  HeapInv' /\ CallersInv'
  <2> PICK id : id = <<c, name>>
    OBVIOUS
  <2>1. /\ Moves(c) /\ callers'[c].args = callers[c].args
        /\ callers'[c].buffers = callers[c].buffers
        /\ callers'[c].views = callers[c].views \ {name}
        /\ callers'[c].stage = "leaving"
    BY <1>1, <1>3 DEF CallersInv, CallerFields, Moves, GiveView
  <2>2. Held' = Held /\ \A b : HeldOn(b)' = HeldOn(b)
    <3>1. SameCalls
      BY <2>1 DEF Moves, SameCalls
    <3>2. \A d \in Callers : callers'[d].buffers = callers[d].buffers
      BY <2>1 DEF Moves
    <3>3. Held' = Held
      BY <3>2 DEF Held
    <3> QED BY <3>1, <3>3, ArraysStay DEF HeldOn
  <2>3. id \in Viewed /\ Viewed' = Viewed \ {id}
    <3>1. \A d \in Callers \ {c} : callers'[d].views = callers[d].views
      BY <2>1 DEF Moves
    <3> QED BY <1>3, <2>1, <3>1, OneLessViewed
  <2>4. Removed(heap, id, heap')
    <3>1. id \in DOMAIN heap.objects /\ heap.objects[id].acquired = 1
      BY <2>3 DEF HeapInv
    <3>2. heap' = Dealloc(heap, id)
      BY <1>3, <3>1 DEF GiveView, XclearMemview
    <3> QED BY <3>1, <3>2, LocksOfOthers, DeallocRemoves DEF HeapInv
  <2> DEFINE a == heap.objects[id].array
  <2>5. ASSUME NEW b PROVE ObjectsOn(b)' = ObjectsOn(b) \ {id} /\ (id \in ObjectsOn(b) <=> a = b)
    BY <2>3, <2>4 DEF Removed, ObjectsOn, HeapInv
  <2>6. HeapOK(heap)' /\ LocksOK(heap)'
    BY <2>4 DEF Removed, HeapOK, LocksOK, PoolOK, Owns
  <2>7. /\ DOMAIN heap'.objects = Viewed' /\ IsFiniteSet(Viewed')
        /\ \A x \in DOMAIN heap'.objects : heap'.objects[x].acquired = 1
    BY <2>3, <2>4, CountOneLess DEF Removed, HeapInv
  <2>8. ASSUME NEW b \in ArrayIds
        PROVE  heap'.exports[b] = Cardinality(HeldOn(b)') + Cardinality(ObjectsOn(b)')
    <3>1. /\ IsFiniteSet(ObjectsOn(b)) /\ Cardinality(HeldOn(b)) \in Nat
          /\ Cardinality(ObjectsOn(b)) \in Nat
          /\ heap.exports[b] = Cardinality(HeldOn(b)) + Cardinality(ObjectsOn(b))
      BY CountsAreFinite DEF HeapInv
    <3>2. heap'.exports[b] = IF b = a THEN heap.exports[b] - 1 ELSE heap.exports[b]
      BY <2>4 DEF Removed, HeapInv, HeapOK
    <3>3. CASE b = a
      <4>1. Cardinality(ObjectsOn(b)') = Cardinality(ObjectsOn(b)) - 1
        BY <2>5, <3>1, <3>3, CountOneLess
      <4> QED BY <2>2, <3>1, <3>2, <3>3, <4>1
    <3>4. CASE b # a
      <4>1. ObjectsOn(b)' = ObjectsOn(b)
        BY <2>5, <3>4
      <4> QED BY <2>2, <3>1, <3>2, <3>4, <4>1
    <3> QED BY <3>3, <3>4
  <2>9. HeapInv'
    BY <2>2, <2>6, <2>7, <2>8 DEF HeapInv
  <2> QED BY <2>1, <2>9, LeavingHolds, CallersMove
<1>4. CASE callers[c].buffers # {}
  <2>1. PICK name \in callers[c].buffers : GiveBuffer(c, name)
    BY <1>4 DEF Leave
  <2> QED BY <1>2, <2>1
<1>5. CASE callers[c].buffers = {} /\ callers[c].views # {}
  <2>1. PICK name \in callers[c].views : GiveView(c, name)
    BY <1>5 DEF Leave
  <2> QED BY <1>3, <2>1
<1>6. CASE callers[c].buffers = {} /\ callers[c].views = {}
  <2>1. To(c, "ended") /\ heap' = heap
    BY <1>6 DEF Leave
  <2>2. Staged(c, "ended")
    BY <2>1, ToMoves DEF Stages
  <2>3. HoldingInv(c)' /\ SameHoldings
    BY <1>6, <2>2, EmptyHolds, KeepsHoldings DEF Staged, Keeps
  <2> QED BY <2>1, <2>2, <2>3, SameBooks, CallersMove DEF Staged
<1> QED BY <1>4, <1>5, <1>6

\* The pool is filled while nobody is in the extension.
LEMMA PoolsAreFresh ==
    ASSUME NEW pool \in Pools
    PROVE  /\ pool \in Seq({{}} \union PoolLocks)
           /\ \A j, k \in 1..Len(pool) : pool[j] # {} /\ pool[j] = pool[k] => j = k
<1>1. \A j, k : {<<"pool", j>>} = {<<"pool", k>>} => j = k
  <2> SUFFICES ASSUME NEW j, NEW k, {<<"pool", j>>} = {<<"pool", k>>} PROVE j = k
    OBVIOUS
  <2>1. <<"pool", j>>[2] = <<"pool", k>>[2]
    <3>1. <<"pool", j>> = <<"pool", k>>
      OBVIOUS
    <3> QED BY <3>1
  <2> QED BY <2>1
<1>2. /\ DOMAIN pool = 1..PoolSize
      /\ \A k \in 1..PoolSize : pool[k] = {} \/ pool[k] = {<<"pool", k>>}
      /\ pool = [k \in 1..PoolSize |-> pool[k]]
  BY DEF Pools, NewPool
<1>3. pool \in Seq({{}} \union PoolLocks) /\ Len(pool) = PoolSize
  <2>1. PoolSize \in Nat
    BY PoolSizeAssumption
  <2>2. \A k \in 1..PoolSize : pool[k] \in {{}} \union PoolLocks
    BY <1>2 DEF PoolLocks
  <2> HIDE DEF PoolLocks
  <2> QED BY <1>2, <2>1, <2>2
<1>4. ASSUME NEW j \in 1..PoolSize, NEW k \in 1..PoolSize, pool[j] # {}, pool[j] = pool[k]
      PROVE  j = k
  BY <1>1, <1>2, <1>4
<1> QED BY <1>3, <1>4
----------------------------------------------------------------------------
(* The import.                                                              *)

\* One more step of the initialisation.
LEMMA StepsInOrder ==
    /\ Len(InitSteps) = 10
    /\ \A n \in 0..10 : Len(SubSeq(InitSteps, 1, n)) = n
    /\ \A n \in 0..9 : Append(SubSeq(InitSteps, 1, n), InitSteps[n + 1]) = SubSeq(InitSteps, 1, n + 1)
    /\ SubSeq(InitSteps, 1, 0) = <<>>
    /\ SubSeq(InitSteps, 1, 10) = InitSteps
<1> DEFINE S == { InitSteps[k] : k \in 1..10 }
<1>1. Len(InitSteps) = 10 /\ InitSteps = [k \in 1..10 |-> InitSteps[k]]
  BY DEF InitSteps
<1>2. InitSteps \in Seq(S)
  BY <1>1
<1>3. \A k \in 1..10 : InitSteps[k] \in S
  OBVIOUS
<1> HIDE DEF S
<1>4. ASSUME NEW n \in 0..10
      PROVE  /\ SubSeq(InitSteps, 1, n) \in Seq(S) /\ Len(SubSeq(InitSteps, 1, n)) = n
             /\ \A k \in 1..n : SubSeq(InitSteps, 1, n)[k] = InitSteps[k]
  BY <1>1, <1>2
<1>5. ASSUME NEW n \in 0..9
      PROVE  Append(SubSeq(InitSteps, 1, n), InitSteps[n + 1]) = SubSeq(InitSteps, 1, n + 1)
  <2> DEFINE s == SubSeq(InitSteps, 1, n)
             t == SubSeq(InitSteps, 1, n + 1)
             a == Append(s, InitSteps[n + 1])
  <2>1. /\ s \in Seq(S) /\ Len(s) = n /\ t \in Seq(S) /\ Len(t) = n + 1
        /\ \A k \in 1..n : s[k] = InitSteps[k]
        /\ \A k \in 1..(n + 1) : t[k] = InitSteps[k]
    BY <1>4
  <2>2. InitSteps[n + 1] \in S
    BY <1>3
  <2> HIDE DEF s, t
  <2>3. a \in Seq(S) /\ Len(a) = n + 1 /\ \A k \in 1..(n + 1) : a[k] = InitSteps[k]
    BY <2>1, <2>2
  <2> HIDE DEF a
  <2>4. a = t
    BY <2>1, <2>3
  <2> QED BY <2>4 DEF a, s, t
<1>6. SubSeq(InitSteps, 1, 0) = <<>>
  BY <1>4
<1>7. SubSeq(InitSteps, 1, 10) = InitSteps
  BY <1>1, <1>2, <1>4
<1> QED BY <1>1, <1>4, <1>5, <1>6, <1>7
----------------------------------------------------------------------------
(* The steps, one by one.                                                   *)

\* The interpreter lock and the faults after any step.
Scalars(c) ==
    /\ gil' \in {{}, {c}, gil}
    /\ faults' \in {faults, faults + 1} /\ (faults' = faults \/ faults < MaxFaults)

\* The lock and the faults stay within their bounds.
LEMMA ScalarsKeep ==
    ASSUME ScalarInv, NEW c \in Callers, Scalars(c)
    PROVE  ScalarInv'
<1>1. faults' \in 0..MaxFaults
  BY MaxFaultsAssumption DEF ScalarInv, Scalars
<1>2. gil' = {} \/ \E d \in Callers : gil' = {d}
  BY DEF ScalarInv, Scalars
<1> QED BY <1>1, <1>2 DEF ScalarInv

\* Whether a caller uses the extension depends on the caller.
LEMMA UsesStays ==
    ASSUME NEW d, callers'[d] = callers[d]
    PROVE  Uses(d)' = Uses(d)
BY DEF Uses

\* A step that leaves the extension alone.
LEMMA WholeStays ==
    ASSUME WholeInv, ModuleInv, NEW c \in Callers, Moves(c), module' = module, Uses(c)' => Whole
    PROVE  WholeInv' /\ ModuleInv'
<1>1. Whole' = Whole /\ ModuleInv'
  BY DEF Whole, ModuleInv
<1>2. ASSUME NEW d \in Callers, Uses(d)' PROVE Whole
  <2>1. CASE d = c
    BY <1>2, <2>1
  <2>2. CASE d # c
    BY <1>2, <2>2, UsesStays DEF Moves, WholeInv
  <2> QED BY <2>1, <2>2
<1> QED BY <1>1, <1>2 DEF WholeInv

\* A step that moves one caller and leaves the extension and the heap alone.
LEMMA CalmStep ==
    ASSUME IInv, NEW c \in Callers, Moves(c), HoldingInv(c)', SameHoldings, Scalars(c),
           module' = module, heap' = heap, Uses(c)' => Whole
    PROVE  IInv'
<1>1. CallersInv'
  BY CallersMove DEF IInv
<1>2. ScalarInv'
  BY ScalarsKeep DEF IInv
<1>3. WholeInv' /\ ModuleInv'
  BY WholeStays DEF IInv
<1>4. HeapInv'
  BY SameBooks DEF IInv
<1> QED BY <1>1, <1>2, <1>3, <1>4 DEF IInv

\* Uses(c) is about five fields.
LEMMA UsesAfter ==
    ASSUME NEW c, Keeps(c), callers'[c].found = callers[c].found,
           callers'[c].stage = callers[c].stage
             \/ callers'[c].stage \notin {"binding", "running", "outside"}
             \/ callers[c].stage \in {"binding", "running", "outside"}
    PROVE  Uses(c)' => Uses(c)
BY DEF Uses, Keeps

\* A step that only moves the lock, or the sums.
LEMMA StillStep ==
    ASSUME IInv, NEW c \in Callers, callers' = callers, module' = module, heap' = heap, Scalars(c)
    PROVE  IInv'
<1>1. CallersInv' /\ SameHoldings
  BY CallersStay DEF IInv
<1>2. ScalarInv'
  BY ScalarsKeep DEF IInv
<1>3. WholeInv' /\ ModuleInv'
  BY DEF IInv, WholeInv, Uses, ModuleInv, Whole
<1>4. HeapInv'
  BY <1>1, SameBooks DEF IInv
<1> QED BY <1>1, <1>2, <1>3, <1>4 DEF IInv

\* A thread gets its turn.
LEMMA TakeGilKeeps ==
    ASSUME IInv, NEW c \in Callers, TakeGil(c)
    PROVE  IInv'
BY StillStep DEF TakeGil, Scalars

\* The workers touch nothing but the sums.
LEMMA SumsKeep ==
    ASSUME IInv, NEW c \in Callers, NEW w, ReadSum(c, w) \/ WriteSum(c, w)
    PROVE  IInv'
BY StillStep DEF ReadSum, WriteSum, Scalars

\* A step of a body that holds on to what it has.
LEMMA BodyStep ==
    ASSUME IInv, NEW c \in Callers, Moves(c), Keeps(c), Scalars(c),
           callers[c].stage \in {"running", "outside"},
           callers'[c].stage \in {"running", "outside"}, callers'[c].step >= callers[c].step,
           callers'[c].found = callers[c].found, module' = module, heap' = heap
    PROVE  IInv'
<1>1. HoldingInv(c)'
  BY RunningHolds DEF IInv, CallersInv, Moves
<1>2. SameHoldings
  BY KeepsHoldings
<1>3. Uses(c)' => Whole
  BY UsesAfter DEF IInv, WholeInv
<1> QED BY <1>1, <1>2, <1>3, CalmStep

\* A caller that leaves.
LEMMA LeavingStep ==
    ASSUME IInv, NEW c \in Callers, Staged(c, "leaving"), Scalars(c), module' = module, heap' = heap
    PROVE  IInv'
<1>1. HoldingInv(c)' /\ SameHoldings
  BY LeavingHolds, KeepsHoldings DEF Staged
<1>2. Uses(c)' => Whole
  BY UsesAfter DEF Staged, IInv, WholeInv
<1> QED BY <1>1, <1>2, CalmStep DEF Staged

\* The team joins.
LEMMA RestoreThreadKeeps ==
    ASSUME IInv, NEW c \in Callers, RestoreThread(c)
    PROVE  IInv'
<1>1. /\ callers[c].stage = "outside" /\ gil' = {c} /\ faults' = faults
      /\ module' = module /\ heap' = heap
      /\ callers' = [callers EXCEPT ![c].stage = "running", ![c].step = @ + 1]
  BY DEF RestoreThread, Is
<1>2. /\ Moves(c) /\ Keeps(c) /\ callers'[c].stage = "running"
      /\ callers'[c].step = callers[c].step + 1 /\ callers'[c].found = callers[c].found
      /\ callers[c].step \in Nat
  BY <1>1 DEF IInv, CallersInv, CallerFields, Moves, Keeps, Stages
<1>3. Scalars(c)
  BY <1>1 DEF Scalars
<1>4. /\ callers[c].stage \in {"running", "outside"} /\ callers'[c].stage \in {"running", "outside"}
      /\ callers'[c].step >= callers[c].step
  BY <1>1, <1>2
<1> QED BY <1>1, <1>2, <1>3, <1>4, BodyStep

\* Python is called, and may raise.
LEMMA CallPythonKeeps ==
    ASSUME IInv, NEW c \in Callers, CallPython(c)
    PROVE  IInv'
<1>1. /\ callers[c].stage = "running" /\ module' = module /\ heap' = heap /\ Scalars(c)
      /\ \/ Advance(c)
         \/ \E kind : Out(c, kind, {})
  BY DEF CallPython, At, Is, DropGil, Fail, Refuse, Scalars
<1>2. CASE Advance(c)
  <2>1. Staged(c, "running") /\ callers'[c].step = callers[c].step + 1 /\ callers[c].step \in Nat
    BY <1>1, <1>2, AdvanceMoves DEF IInv, CallersInv
  <2> QED BY <1>1, <2>1, BodyStep DEF Staged
<1>3. ASSUME NEW kind, Out(c, kind, {}) PROVE IInv'
  <2>1. Staged(c, "leaving")
    BY <1>3, OutMoves DEF IInv
  <2> QED BY <1>1, <2>1, LeavingStep
<1> QED BY <1>1, <1>2, <1>3

\* The team starts.
LEMMA SaveThreadKeeps ==
    ASSUME IInv, NEW c \in Callers, SaveThread(c)
    PROVE  IInv'
<1>1. /\ callers[c].stage = "running" /\ module' = module /\ heap' = heap /\ Scalars(c)
      /\ To(c, "outside")
  BY DEF SaveThread, GoOutside, At, Is, DropGil, Scalars
<1>2. Staged(c, "outside") /\ callers'[c].step = callers[c].step /\ callers[c].step \in Nat
  BY <1>1, ToMoves DEF IInv, CallersInv, Stages
<1> QED BY <1>1, <1>2, BodyStep DEF Staged

\* The histogram is filled.
LEMMA FillArrayKeeps ==
    ASSUME IInv, NEW c \in Callers, FillArray(c)
    PROVE  IInv'
<1>1. /\ callers[c].stage = "running" /\ module' = module /\ heap' = heap /\ Scalars(c)
      /\ Advance(c)
  BY DEF FillArray, KeepGil, At, Is, Scalars
<1>2. Staged(c, "running") /\ callers'[c].step = callers[c].step + 1 /\ callers[c].step \in Nat
  BY <1>1, AdvanceMoves DEF IInv, CallersInv
<1> QED BY <1>1, <1>2, BodyStep DEF Staged

\* The value is ready, and the way out begins.
LEMMA ReturnValueKeeps ==
    ASSUME IInv, NEW c \in Callers, ReturnValue(c)
    PROVE  IInv'
<1>1. module' = module /\ heap' = heap /\ Scalars(c) /\ Out(c, "value", {ResultOf(c)})
  BY DEF ReturnValue, KeepGil, Scalars
<1>2. Staged(c, "leaving")
  BY <1>1, OutMoves DEF IInv
<1> QED BY <1>1, <1>2, LeavingStep

\* A caller outside its body holds nothing.
LEMMA HoldsNothing ==
    ASSUME CallersInv, NEW c \in Callers,
           callers[c].stage \notin {"running", "outside", "leaving"}
    PROVE  callers[c].buffers = {} /\ callers[c].views = {}
BY DEF CallersInv, HoldingInv

\* The arguments change while nothing is held.
LEMMA BindArgumentsKeeps ==
    ASSUME IInv, NEW c \in Callers, BindArguments(c)
    PROVE  IInv'
<1>1. /\ callers[c].stage = "binding" /\ module' = module /\ heap' = heap /\ Scalars(c)
      /\ \/ \E args : callers' = [callers EXCEPT ![c].args = args, ![c].step = 1,
                                                 ![c].stage = "running"]
         \/ Refuse(c)
  BY DEF BindArguments, KeepGil, Is, Scalars
<1>2. CASE Refuse(c)
  <2>1. Staged(c, "leaving")
    BY <1>2, OutMoves DEF Refuse, IInv
  <2> QED BY <1>1, <2>1, LeavingStep
<1>3. ASSUME NEW args, callers' = [callers EXCEPT ![c].args = args, ![c].step = 1,
                                                  ![c].stage = "running"]
      PROVE  IInv'
  <2>1. callers[c].buffers = {} /\ callers[c].views = {}
    BY <1>1, HoldsNothing DEF IInv
  <2>2. /\ Moves(c) /\ callers'[c].step = 1 /\ callers'[c].stage = "running"
        /\ callers'[c].buffers = {} /\ callers'[c].views = {}
        /\ callers'[c].found = callers[c].found
    BY <1>3, <2>1 DEF IInv, CallersInv, CallerFields, Moves, Stages
  <2>3. HoldingInv(c)'
    BY <2>2, EmptyHolds
  <2>4. SameHoldings
    BY <2>1, <2>2 DEF Moves, SameHoldings
  <2>5. Uses(c)' => Whole
    BY <1>1 DEF IInv, WholeInv, Uses
  <2> QED BY <1>1, <2>2, <2>3, <2>4, <2>5, CalmStep
<1> QED BY <1>1, <1>2, <1>3

\* A step before the body: the caller holds nothing, and goes no further than
\* the extension lets it.
LEMMA EarlyStep ==
    ASSUME IInv, NEW c \in Callers, Staged(c, callers'[c].stage), Scalars(c),
           callers[c].stage \in {"idle", "importing", "assigning", "returning"},
           callers'[c].stage \notin {"running", "outside"},
           callers'[c].stage = "binding" => Whole,
           module' = module, heap' = heap
    PROVE  IInv'
<1>1. callers[c].buffers = {} /\ callers[c].views = {}
  BY HoldsNothing DEF IInv
<1>2. HoldingInv(c)'
  BY <1>1, EmptyHolds DEF Staged, Keeps
<1>3. SameHoldings
  BY KeepsHoldings DEF Staged
<1>4. Uses(c)' => Whole
  BY DEF Staged, Keeps, Uses, IInv, WholeInv
<1> QED BY <1>2, <1>3, <1>4, CalmStep DEF Staged

\* The global is read.
LEMMA AskKeeps ==
    ASSUME IInv, NEW c \in Callers, Ask(c)
    PROVE  IInv'
<1>1. PICK stage \in {"returning", "importing"} : To(c, stage)
  BY DEF Ask, To
<1>2. callers[c].stage = "idle" /\ module' = module /\ heap' = heap /\ Scalars(c)
  BY DEF Ask, Is, DropGil, Scalars
<1>3. Staged(c, stage)
  BY <1>1, ToMoves DEF IInv, Stages
<1>4. callers'[c].stage = stage
  BY <1>3 DEF Staged
<1> QED BY <1>2, <1>3, <1>4, EarlyStep

\* The global is read again.
LEMMA ReturnModuleKeeps ==
    ASSUME IInv, NEW c \in Callers, ReturnModule(c)
    PROVE  IInv'
<1>1. callers[c].stage = "returning" /\ module' = module /\ heap' = heap /\ Scalars(c)
  BY DEF ReturnModule, Is, KeepGil, Scalars
<1>2. CASE module.cached /\ To(c, "binding")
  <2>1. Staged(c, "binding") /\ Whole
    BY <1>2, ToMoves DEF IInv, ModuleInv, Stages
  <2>2. callers'[c].stage = "binding"
    BY <2>1 DEF Staged
  <2> QED BY <1>1, <2>1, <2>2, EarlyStep
<1>3. CASE Out(c, "failed", {})
  <2>1. Staged(c, "leaving")
    BY <1>3, OutMoves DEF IInv
  <2> QED BY <1>1, <2>1, LeavingStep
<1> QED BY <1>2, <1>3 DEF ReturnModule

\* The import ends for this caller.
LEMMA ImportedMoves ==
    ASSUME IInv, NEW c \in Callers, callers[c].stage = "importing", NEW found,
           Imported(c, found)
    PROVE  /\ Moves(c) /\ Keeps(c) /\ callers'[c].stage = "assigning"
           /\ callers'[c].found = found
           /\ HoldingInv(c)' /\ SameHoldings
           /\ Uses(c)' => found = TRUE
<1>1. callers[c].buffers = {} /\ callers[c].views = {}
  BY HoldsNothing DEF IInv
<1>2. /\ Moves(c) /\ Keeps(c) /\ callers'[c].stage = "assigning"
      /\ callers'[c].found = found
  BY DEF Imported, IInv, CallersInv, CallerFields, Moves, Keeps, Stages
<1>3. HoldingInv(c)' /\ SameHoldings
  BY <1>1, <1>2, EmptyHolds, KeepsHoldings DEF Keeps
<1> QED BY <1>1, <1>2, <1>3 DEF Uses, Keeps

\* A module that is listed is whole.
LEMMA ImportListedKeeps ==
    ASSUME IInv, NEW c \in Callers, ImportListed(c)
    PROVE  IInv'
<1>1. /\ callers[c].stage = "importing" /\ Imported(c, TRUE) /\ Scalars(c)
      /\ module' = module /\ heap' = heap /\ Whole
  BY DEF ImportListed, Imported, Is, DropGil, Scalars, IInv, ModuleInv
<1> QED BY <1>1, ImportedMoves, CalmStep

\* A buffer is taken.
LEMMA GetBufferKeeps ==
    ASSUME IInv, NEW c \in Callers, GetBuffer(c)
    PROVE  IInv'
<1>1. HeapInv' /\ CallersInv'
  BY GetBufferBooks DEF IInv
<1>2. callers[c].stage = "running" /\ module' = module /\ Scalars(c)
  BY DEF GetBuffer, At, Is, KeepGil, Scalars
<1>3. Moves(c)
  BY OutMoves DEF GetBuffer, Refuse, Staged, IInv, CallersInv, CallerFields, Moves
<1>4. Whole
  BY <1>2 DEF IInv, WholeInv, Uses
<1> QED BY <1>1, <1>2, <1>3, <1>4, ScalarsKeep, WholeStays DEF IInv

\* A view is taken.
LEMMA ToMemoryviewSliceKeeps ==
    ASSUME IInv, NEW c \in Callers, ToMemoryviewSlice(c)
    PROVE  IInv'
<1>1. HeapInv' /\ CallersInv'
  BY ToMemoryviewSliceBooks DEF IInv
<1>2. callers[c].stage = "running" /\ module' = module /\ Scalars(c)
  BY DEF ToMemoryviewSlice, At, Is, KeepGil, Fail, Scalars
<1>3. \/ \E kind : Out(c, kind, {})
      \/ \E name : callers' = [callers EXCEPT ![c].step = @ + 1, ![c].views = @ \union {name}]
  BY DEF ToMemoryviewSlice, Refuse, Fail
<1>4. Moves(c)
  BY <1>3, OutMoves DEF Staged, IInv, CallersInv, CallerFields, Moves
<1>5. Whole
  BY <1>2 DEF IInv, WholeInv, Uses
<1> QED BY <1>1, <1>2, <1>4, <1>5, ScalarsKeep, WholeStays DEF IInv

\* Something is given back.
LEMMA LeaveKeeps ==
    ASSUME IInv, NEW c \in Callers, Leave(c)
    PROVE  IInv'
<1>1. HeapInv' /\ CallersInv'
  BY LeaveBooks DEF IInv
<1>2. /\ callers[c].stage = "leaving" /\ module' = module /\ Scalars(c)
      /\ \/ \E name : callers' = [callers EXCEPT ![c].buffers = @ \ {name}]
         \/ \E name : callers' = [callers EXCEPT ![c].views = @ \ {name}]
         \/ To(c, "ended")
  BY DEF Leave, GiveBuffer, GiveView, Is, KeepGil, DropGil, Scalars
<1>3. /\ Moves(c) /\ callers'[c].found = callers[c].found
      /\ callers'[c].stage \in {"leaving", "ended"}
      /\ callers'[c].buffers \subseteq callers[c].buffers
      /\ callers'[c].views \subseteq callers[c].views
  BY <1>2 DEF IInv, CallersInv, CallerFields, Moves, To, Stages
<1>4. Uses(c)' => Whole
  BY <1>3 DEF IInv, WholeInv, Uses
<1> QED BY <1>1, <1>2, <1>3, <1>4, ScalarsKeep, WholeStays DEF IInv

\* While somebody imports it, or before, nobody uses the extension.
LEMMA NobodyInside ==
    ASSUME IInv, ~Whole
    PROVE  \A c \in Callers : /\ ~Uses(c)
                              /\ callers[c].buffers = {} /\ callers[c].views = {}
BY DEF IInv, WholeInv, Uses

\* The fields of the module after a step of its import.
Becomes(exists, by, done, listed, cached) ==
    /\ DOMAIN module' = ModuleFields
    /\ module'.exists = exists
    /\ module'.by = by
    /\ module'.done = done
    /\ module'.listed = listed
    /\ module'.cached = cached

\* A new module is nobody's yet; one that exists is whole.
LEMMA PymodCreateKeeps ==
    ASSUME IInv, NEW c \in Callers, PymodCreate(c)
    PROVE  IInv'
<1>1. /\ callers[c].stage = "importing" /\ heap' = heap /\ Scalars(c)
      /\ module.by = {} /\ DOMAIN module = ModuleFields
  BY DEF PymodCreate, Imported, Is, KeepGil, DropGil, Scalars, IInv, ModuleInv
<1>2. CASE /\ module.exists
           /\ module' = [module EXCEPT !.listed = TRUE] /\ Imported(c, TRUE)
  <2>1. Moves(c) /\ HoldingInv(c)' /\ SameHoldings
    BY <1>1, <1>2, ImportedMoves
  <2>2. Becomes(module.exists, module.by, module.done, TRUE, module.cached)
    <3>1. module' = [module EXCEPT !.listed = TRUE] /\ DOMAIN module = ModuleFields
      BY <1>1, <1>2
    <3> QED BY <3>1 DEF Becomes, ModuleFields
  <2>3. module.exists
    BY <1>2
  <2>4. Whole
    BY <1>1, <2>3 DEF IInv, ModuleInv
  <2>5. Whole' /\ ModuleInv'
    BY <2>2, <2>4 DEF Becomes, ModuleInv, Whole, IInv
  <2> QED BY <1>1, <2>1, <2>5, CallersMove, SameBooks, ScalarsKeep DEF IInv, WholeInv
<1>3. CASE /\ ~module.exists
           /\ module' = [module EXCEPT !.exists = TRUE, !.by = {c}, !.done = <<>>]
           /\ UNCHANGED callers
  <2>1. ~Whole
    BY <1>3 DEF Whole
  <2>2. Becomes(TRUE, {c}, <<>>, module.listed, module.cached)
    <3>1. /\ module' = [module EXCEPT !.exists = TRUE, !.by = {c}, !.done = <<>>]
          /\ DOMAIN module = ModuleFields
      BY <1>1, <1>3
    <3> QED BY <3>1 DEF Becomes, ModuleFields
  <2>3. ModuleInv'
    <3>1. SubSeq(InitSteps, 1, 0) = <<>> /\ Len(InitSteps) = 10
      BY StepsInOrder
    <3>2. ~module.listed /\ ~module.cached
      BY <2>1 DEF IInv, ModuleInv
    <3> QED BY <2>2, <3>1, <3>2 DEF ModuleInv, Becomes
  <2>4. WholeInv'
    BY <1>3, <2>1, NobodyInside DEF WholeInv, Uses
  <2> QED BY <1>1, <1>3, <2>3, <2>4, CallersStay, SameBooks, ScalarsKeep DEF IInv
<1> QED BY <1>2, <1>3 DEF PymodCreate

\* A module whose initialisation fails is nobody's again.
LEMMA PymodExecFailsKeeps ==
    ASSUME IInv, NEW c \in Callers, PymodExecFails(c)
    PROVE  IInv'
<1>1. /\ callers[c].stage = "importing" /\ module.by = {c} /\ heap' = heap
      /\ Scalars(c) /\ Imported(c, FALSE)
      /\ DOMAIN module = ModuleFields /\ Len(module.done) < Len(InitSteps)
  BY DEF PymodExecFails, Imported, Is, DropGil, Scalars, IInv, ModuleInv
<1>2. ~Whole
  <2>1. Len(InitSteps) = 10
    BY StepsInOrder
  <2>2. module.done # InitSteps
    <3> SUFFICES ASSUME module.done = InitSteps PROVE FALSE
      OBVIOUS
    <3>1. Len(module.done) = 10
      BY <2>1
    <3> QED BY <1>1, <2>1, <3>1
  <2> QED BY <2>2 DEF Whole
<1>3. Moves(c) /\ HoldingInv(c)' /\ SameHoldings /\ ~Uses(c)'
  BY <1>1, ImportedMoves
<1>4. Becomes(FALSE, {}, <<>>, module.listed, module.cached)
  <2>1. /\ module' = [module EXCEPT !.by = {}, !.exists = FALSE, !.done = <<>>]
        /\ DOMAIN module = ModuleFields
    BY <1>1 DEF PymodExecFails, Cleared
  <2> QED BY <2>1 DEF Becomes, ModuleFields
<1>5. ModuleInv'
  <2>1. SubSeq(InitSteps, 1, 0) = <<>> /\ Len(InitSteps) = 10
    BY StepsInOrder
  <2>2. ~module.listed /\ ~module.cached
    BY <1>2 DEF IInv, ModuleInv
  <2> QED BY <1>4, <2>1, <2>2 DEF ModuleInv, Becomes
<1>6. WholeInv'
  <2> SUFFICES ASSUME NEW d \in Callers PROVE ~Uses(d)'
    BY DEF WholeInv
  <2>1. CASE d = c
    BY <1>3, <2>1
  <2>2. CASE d # c
    BY <1>2, <1>3, <2>2, NobodyInside, UsesStays DEF Moves
  <2> QED BY <2>1, <2>2
<1> QED BY <1>1, <1>3, <1>5, <1>6, CallersMove, SameBooks, ScalarsKeep DEF IInv

\* Only a module that was found is cached.
LEMMA AssignKeeps ==
    ASSUME IInv, NEW c \in Callers, Assign(c)
    PROVE  IInv'
<1>1. /\ callers[c].stage = "assigning" /\ heap' = heap /\ Scalars(c)
      /\ To(c, "returning") /\ DOMAIN module = ModuleFields
  BY DEF Assign, Is, DropGil, Scalars, IInv, ModuleInv
<1>2. Staged(c, "returning")
  BY <1>1, ToMoves DEF IInv, Stages
<1>3. callers[c].buffers = {} /\ callers[c].views = {}
  BY <1>1, HoldsNothing DEF IInv
<1>4. HoldingInv(c)' /\ SameHoldings
  BY <1>2, <1>3, EmptyHolds, KeepsHoldings DEF Staged, Keeps
<1>5. Becomes(module.exists, module.by, module.done, module.listed, callers[c].found)
  <2>1. module' = [module EXCEPT !.cached = callers[c].found] /\ DOMAIN module = ModuleFields
    BY <1>1 DEF Assign
  <2> QED BY <2>1 DEF Becomes, ModuleFields
<1>6. Whole' = Whole
  BY <1>5 DEF Whole, Becomes
<1>7. module'.cached => Whole
  BY <1>5 DEF IInv, WholeInv, Uses, Becomes
<1>8. ModuleInv'
  BY <1>5, <1>6, <1>7 DEF IInv, ModuleInv, Becomes
<1>9. WholeInv'
  <2> SUFFICES ASSUME NEW d \in Callers, Uses(d)' PROVE Whole
    BY <1>6 DEF WholeInv
  <2>1. CASE d = c
    BY <1>2, <2>1 DEF Staged, Keeps, Uses, IInv, WholeInv
  <2>2. CASE d # c
    BY <1>2, <2>2, UsesStays DEF Staged, Moves, IInv, WholeInv
  <2> QED BY <2>1, <2>2
<1> QED BY <1>1, <1>2, <1>4, <1>8, <1>9, CallersMove, SameBooks, ScalarsKeep DEF IInv, Staged

\* The pool is filled while there are no objects.
LEMMA ThreadLocksBooks ==
    ASSUME HeapInv, SameHoldings, \A d \in Callers : callers[d].views = {},
           NEW step, NEW pool \in Pools, ThreadLocks(step, pool)
    PROVE  HeapInv'
<1>1. CASE heap' = heap
  BY <1>1, SameBooks
<1>2. CASE heap' = [heap EXCEPT !.pool = pool, !.used = 0]
  <2>1. /\ DOMAIN heap' = HeapFields /\ heap'.exports = heap.exports
        /\ heap'.objects = heap.objects /\ heap'.pool = pool /\ heap'.used = 0
    BY <1>2 DEF HeapInv, HeapOK, HeapFields
  <2>2. DOMAIN heap.objects = {}
    BY DEF HeapInv, Viewed
  <2>3. pool \in Seq({{}} \union PoolLocks) /\ PoolOK(heap')
    BY <2>1, PoolsAreFresh DEF PoolOK
  <2>4. HeapOK(heap')
    <3>1. 0 \in 0..Len(pool)
      BY <2>3
    <3> QED BY <2>1, <2>2, <2>3, <3>1 DEF HeapInv, HeapOK
  <2>5. LocksOK(heap')
    BY <2>1, <2>2, <2>3 DEF LocksOK
  <2> QED BY <2>1, <2>2, <2>4, <2>5, BooksOfSame
<1> QED BY <1>1, <1>2 DEF ThreadLocks

\* The steps of the initialisation, the last of which makes the module whole.
LEMMA PymodExecKeeps ==
    ASSUME IInv, NEW c \in Callers, PymodExec(c)
    PROVE  IInv'
<1> DEFINE n == Len(module.done)
           step == InitSteps[n + 1]
           done == SubSeq(InitSteps, 1, n + 1)
<1>1. /\ callers[c].stage = "importing" /\ module.by = {c}
      /\ DOMAIN module = ModuleFields /\ n < Len(InitSteps)
  BY DEF PymodExec, Is, IInv, ModuleInv
<1>2. PICK m \in 0..10 : module.done = SubSeq(InitSteps, 1, m)
  BY StepsInOrder DEF IInv, ModuleInv
<1>3. n = m /\ n \in 0..9
  BY <1>1, <1>2, StepsInOrder
<1>4. Append(module.done, step) = done
  BY <1>2, <1>3, StepsInOrder
<1>5. /\ Len(done) = n + 1
      /\ done = InitSteps <=> n = 9
  <2>1. Len(InitSteps) = 10 /\ SubSeq(InitSteps, 1, 10) = InitSteps
    BY StepsInOrder
  <2>2. n + 1 \in 0..10 /\ (n = 9 => n + 1 = 10)
    BY <1>3
  <2>3. Len(done) = n + 1
    BY <2>2, StepsInOrder
  <2>4. n = 9 => done = InitSteps
    BY <2>1, <2>2
  <2>5. done = InitSteps => n = 9
    <3> SUFFICES ASSUME done = InitSteps PROVE n = 9
      OBVIOUS
    <3>1. n + 1 = 10
      BY <2>1, <2>3
    <3> QED BY <1>3, <3>1
  <2> QED BY <2>3, <2>4, <2>5
<1>6. ~Whole
  <2>1. Len(InitSteps) = 10
    BY StepsInOrder
  <2>2. module.done # InitSteps
    <3> SUFFICES ASSUME module.done = InitSteps PROVE FALSE
      OBVIOUS
    <3>1. n = 10
      BY <2>1
    <3> QED BY <1>3, <3>1
  <2> QED BY <2>2 DEF Whole
<1>7. InitDone(c, done) /\ \E pool \in Pools : ThreadLocks(step, pool)
  BY <1>4 DEF PymodExec
<1>8. faults' \in {faults, faults + 1} /\ (faults' = faults \/ faults < MaxFaults)
  <2>1. PICK pool \in Pools : /\ faults' = IF step = "locks" /\ pool # NewPool THEN faults + 1 ELSE faults
                              /\ faults' <= MaxFaults
    BY DEF PymodExec
  <2> QED BY <2>1, MaxFaultsAssumption DEF IInv, ScalarInv
<1> HIDE DEF done, step
<1>9. ASSUME SameHoldings PROVE HeapInv'
  BY <1>6, <1>7, <1>9, NobodyInside, ThreadLocksBooks DEF IInv
<1>10. CASE n = 9
  <2>1. /\ done = InitSteps
        /\ module' = [module EXCEPT !.done = done, !.listed = TRUE, !.by = {}]
        /\ Imported(c, TRUE)
    BY <1>5, <1>7, <1>10 DEF InitDone
  <2>2. Becomes(module.exists, {}, InitSteps, TRUE, module.cached)
    BY <1>1, <2>1 DEF Becomes, ModuleFields
  <2>3. module.exists
    BY <1>1 DEF IInv, ModuleInv
  <2>4. Whole'
    BY <2>2, <2>3 DEF Whole, Becomes
  <2>5. ModuleInv'
    <3>1. SubSeq(InitSteps, 1, 10) = InitSteps /\ Len(InitSteps) = 10
      BY StepsInOrder
    <3> QED BY <2>2, <2>4, <3>1 DEF ModuleInv, Becomes
  <2>6. /\ Moves(c) /\ HoldingInv(c)' /\ SameHoldings
    BY <1>1, <2>1, ImportedMoves
  <2>7. Scalars(c)
    BY <1>8, <2>1 DEF Scalars, Imported, DropGil
  <2> QED BY <1>9, <2>4, <2>5, <2>6, <2>7, CallersMove, ScalarsKeep DEF IInv, WholeInv
<1>11. CASE n # 9
  <2>1. /\ module' = [module EXCEPT !.done = done] /\ callers' = callers
        /\ gil' \in {{}, gil}
    BY <1>5, <1>7, <1>11 DEF InitDone
  <2>2. Becomes(module.exists, {c}, done, module.listed, module.cached)
    BY <1>1, <2>1 DEF Becomes, ModuleFields
  <2>3. ModuleInv'
    <3>1. done = SubSeq(InitSteps, 1, n + 1) /\ n + 1 \in 0..Len(InitSteps) /\ n + 1 < Len(InitSteps)
      BY <1>3, <1>11, StepsInOrder DEF done
    <3>2. ~module.listed /\ ~module.cached
      BY <1>6 DEF IInv, ModuleInv
    <3>3. module.exists
      BY <1>1 DEF IInv, ModuleInv
    <3> HIDE DEF n
    <3> QED BY <1>5, <2>2, <3>1, <3>2, <3>3 DEF ModuleInv, Becomes
  <2>4. WholeInv'
    BY <1>6, <2>1, NobodyInside DEF WholeInv, Uses
  <2>5. Scalars(c)
    BY <1>8, <2>1 DEF Scalars
  <2> QED BY <1>9, <2>1, <2>3, <2>4, <2>5, CallersStay, ScalarsKeep DEF IInv
<1> QED BY <1>10, <1>11
----------------------------------------------------------------------------
(* The invariance, and what follows from it.                                *)

\* Before the first call nothing is held.
LEMMA InitIInv ==
    ASSUME Init
    PROVE  IInv
<1>1. PICK plan \in Plans : callers = [c \in Callers |-> Idle(plan[c])]
  BY DEF Init
<1>2. \A c \in Callers :
          /\ DOMAIN callers[c] = CallerFields /\ callers[c].stage = "idle"
          /\ callers[c].call = plan[c] /\ callers[c].step = 0 /\ callers[c].found = FALSE
          /\ callers[c].buffers = {} /\ callers[c].views = {}
  BY <1>1 DEF Idle, CallerFields
<1>3. ScalarInv
  BY MaxFaultsAssumption DEF Init, ScalarInv
<1>4. ModuleInv
  <2>1. /\ DOMAIN module = ModuleFields /\ module.exists = FALSE /\ module.done = <<>>
        /\ module.listed = FALSE /\ module.by = {} /\ module.cached = FALSE
    BY DEF Init, ModuleFields
  <2>2. SubSeq(InitSteps, 1, 0) = <<>> /\ Len(InitSteps) = 10
    BY StepsInOrder
  <2> QED BY <2>1, <2>2 DEF ModuleInv
<1>5. CallersInv
  <2>1. \A c \in Callers : plan[c].fn \in DOMAIN Signature
    BY PlansAssumption
  <2> QED BY <1>1, <1>2, <2>1 DEF CallersInv, HoldingInv, Stages
<1>6. WholeInv
  BY <1>2 DEF WholeInv, Uses
<1>7. HeapInv
  <2>1. /\ DOMAIN heap = HeapFields /\ heap.exports = [a \in ArrayIds |-> 0]
        /\ heap.objects = NoObject /\ heap.pool = <<>> /\ heap.used = 0
    BY DEF Init, NewHeap, HeapFields
  <2>2. DOMAIN heap.objects = {}
    BY <2>1 DEF NoObject
  <2>3. HeapOK(heap) /\ LocksOK(heap)
    BY <2>1, <2>2 DEF HeapOK, LocksOK, PoolOK
  <2>4. Held = {} /\ Viewed = {}
    BY <1>2 DEF Held, Viewed
  <2>5. \A a \in ArrayIds : HeldOn(a) = {} /\ ObjectsOn(a) = {} /\ heap.exports[a] = 0
    BY <2>1, <2>2, <2>4 DEF HeldOn, ObjectsOn
  <2> QED BY <2>2, <2>3, <2>4, <2>5, FS_EmptySet DEF HeapInv
<1> QED BY <1>3, <1>4, <1>5, <1>6, <1>7 DEF IInv

\* Every step keeps the invariant.
LEMMA NextKeeps ==
    ASSUME IInv, [Next]_vars
    PROVE  IInv'
<1>1. CASE UNCHANGED vars
  <2>1. callers' = callers /\ module' = module /\ heap' = heap /\ gil' = gil /\ faults' = faults
    BY <1>1 DEF vars
  <2>2. CallersInv' /\ SameHoldings
    BY <2>1, CallersStay DEF IInv
  <2> QED BY <2>1, <2>2, SameBooks
          DEF IInv, ScalarInv, WholeInv, Uses, ModuleInv, Whole
<1>2. ASSUME NEW c \in Callers, TakeGil(c) \/ RestoreThread(c) \/ Ask(c) PROVE IInv'
  BY <1>2, TakeGilKeeps, RestoreThreadKeeps, AskKeeps
<1>3. ASSUME NEW c \in Callers, Import(c) PROVE IInv'
  BY <1>3, ImportListedKeeps, PymodCreateKeeps, PymodExecKeeps, PymodExecFailsKeeps,
     AssignKeeps, ReturnModuleKeeps DEF Import
<1>4. ASSUME NEW c \in Callers, Serve(c) PROVE IInv'
  BY <1>4, BindArgumentsKeeps, GetBufferKeeps, CallPythonKeeps, ToMemoryviewSliceKeeps,
     SaveThreadKeeps, FillArrayKeeps, ReturnValueKeeps, LeaveKeeps DEF Serve
<1>5. ASSUME NEW c \in Callers, NEW w, ReadSum(c, w) \/ WriteSum(c, w) PROVE IInv'
  BY <1>5, SumsKeep
<1> QED BY <1>1, <1>2, <1>3, <1>4, <1>5 DEF Next

\* The inductive invariant holds for every plan of calls, any number of
\* threads and every pool of locks, with and without atomics.
THEOREM Invariance == Spec => []IInv
<1>1. Init => IInv
  BY InitIInv
<1>2. IInv /\ [Next]_vars => IInv'
  BY NextKeeps
<1> QED BY <1>1, <1>2, PTL DEF Spec

\* At most one thread has the interpreter lock, the extension is initialised
\* in order, no count goes below zero, and every object has the one slice of
\* the call that made it.
THEOREM TypeCorrect == Spec => []TypeOK
<1>1. ASSUME IInv PROVE TypeOK
  <2>1. Cardinality(gil) <= 1
    <3>1. CASE gil = {}
      BY <3>1, FS_EmptySet
    <3>2. ASSUME NEW c, gil = {c} PROVE Cardinality(gil) <= 1
      BY <3>2, FS_Singleton
    <3> QED BY <1>1, <3>1, <3>2 DEF IInv, ScalarInv
  <2>2. faults \in 0..MaxFaults
    BY <1>1 DEF IInv, ScalarInv
  <2>3. module.done = SubSeq(InitSteps, 1, Len(module.done))
    <3>1. PICK n \in 0..10 : module.done = SubSeq(InitSteps, 1, n)
      BY <1>1, StepsInOrder DEF IInv, ModuleInv
    <3>2. Len(module.done) = n
      BY <3>1, StepsInOrder
    <3> QED BY <3>1, <3>2
  <2>4. \A a \in ArrayIds : heap.exports[a] \in Nat
    BY <1>1, CountsAreFinite DEF IInv, HeapInv
  <2>5. heap.used \in 0..Len(heap.pool)
    BY <1>1 DEF IInv, HeapInv, HeapOK
  <2>6. \A id \in DOMAIN heap.objects : heap.objects[id].acquired = 1
    BY <1>1 DEF IInv, HeapInv
  <2>7. \A c \in Callers : callers[c].stage \in Stages
    BY <1>1 DEF IInv, CallersInv
  <2> QED BY <2>1, <2>2, <2>3, <2>4, <2>5, <2>6, <2>7 DEF TypeOK
<1>2. IInv => TypeOK
  BY <1>1
<1> QED BY <1>2, Invariance, PTL

\* An array has exported as many buffers as calls and objects hold on it, an
\* object lives as long as a call has a view of it, no two objects share a
\* lock, none uses a lock the pool would hand out next, and no call runs in a
\* module that is not whole.
THEOREM BooksAreBalanced == Spec => []BooksBalance
<1>1. ASSUME IInv PROVE BooksBalance
  <2>1. /\ HeapOK(heap) /\ LocksOK(heap) /\ DOMAIN heap.objects = Viewed
        /\ \A a \in ArrayIds :
              heap.exports[a] = Cardinality(HeldOn(a)) + Cardinality(ObjectsOn(a))
    BY <1>1 DEF IInv, HeapInv
  <2>2. ASSUME NEW id \in DOMAIN heap.objects
        PROVE  heap.objects[id].lock = {} <=> Atomics
    <3>1. CASE Atomics
      BY <2>1, <3>1 DEF LocksOK
    <3>2. CASE ~Atomics
      <4>1. Owns(heap, id, heap.objects[id].lock)
        BY <2>1, <3>2 DEF LocksOK
      <4> QED BY <3>2, <4>1 DEF Owns
    <3> QED BY <3>1, <3>2
  <2>3. ASSUME NEW id \in DOMAIN heap.objects, NEW k \in (heap.used + 1)..Len(heap.pool),
               heap.pool[k] # {}
        PROVE  heap.objects[id].lock # heap.pool[k]
    <3>1. CASE Atomics
      BY <2>1, <2>3, <3>1 DEF LocksOK
    <3>2. CASE ~Atomics
      <4>1. k \in 1..Len(heap.pool) /\ heap.pool[k] \in {{}} \union PoolLocks
        BY <2>1, PoolElements
      <4>2. CASE heap.objects[id].lock = {<<"own", id>>}
        BY <4>1, <4>2, PoolLockIsNotOwn
      <4>3. ASSUME NEW j \in 1..heap.used, heap.objects[id].lock = heap.pool[j], heap.pool[j] # {}
            PROVE  heap.objects[id].lock # heap.pool[k]
        <5>1. j \in 1..Len(heap.pool) /\ j # k
          BY <2>1, PoolElements
        <5> QED BY <2>1, <4>1, <4>3, <5>1 DEF LocksOK, PoolOK
      <4> QED BY <2>1, <3>2, <4>2, <4>3 DEF LocksOK, Owns
    <3> QED BY <3>1, <3>2
  <2>4. \A id, jd \in DOMAIN heap.objects :
            heap.objects[id].lock = heap.objects[jd].lock => Atomics \/ id = jd
    BY <2>1 DEF LocksOK
  <2>5. \A c \in Callers : callers[c].stage \in {"binding", "running", "outside"} => Whole
    BY <1>1 DEF IInv, WholeInv, Uses
  <2> QED BY <2>1, <2>2, <2>3, <2>4, <2>5 DEF BooksBalance, Viewed, HeldOn, ObjectsOn
<1>2. IInv => BooksBalance
  BY <1>1
<1> QED BY <1>2, Invariance, PTL
----------------------------------------------------------------------------
(* The parallel region: how the columns are dealt out.                      *)

\* Products of naturals grow with their factors.
LEMMA ProductGrows ==
    ASSUME NEW a \in Nat, NEW b \in Nat, a <= b, NEW n \in Nat
    PROVE  a * n <= b * n /\ a * n \in Nat /\ b * n \in Nat
OBVIOUS

\* Quotient and remainder.
LEMMA Division ==
    ASSUME NEW n \in Nat \ {0}, NEW k \in Nat
    PROVE  /\ k \div n \in Nat /\ k % n \in 0..(n - 1)
           /\ k = n * (k \div n) + (k % n)
OBVIOUS

\* What the quotient and the remainder of a place are.
LEMMA Quotient ==
    ASSUME NEW n \in Nat \ {0}, NEW q \in Nat, NEW r \in 0..(n - 1)
    PROVE  (q * n + r) \div n = q /\ (q * n + r) % n = r
<1> DEFINE k == q * n + r
           d == k \div n
           m == k % n
<1>1. k \in Nat
  BY ProductGrows
<1>2. d \in Nat /\ m \in 0..(n - 1) /\ k = n * d + m
  BY <1>1, Division
<1> HIDE DEF d, m
<1>3. n * d + m = q * n + r
  BY <1>2
<1>4. ~(d >= q + 1)
  <2> SUFFICES ASSUME d >= q + 1 PROVE FALSE
    OBVIOUS
  <2>1. (q + 1) * n <= d * n
    BY <1>2, ProductGrows
  <2>2. (q + 1) * n = q * n + n
    OBVIOUS
  <2> QED BY <1>2, <1>3, <2>1, <2>2
<1>5. ~(q >= d + 1)
  <2> SUFFICES ASSUME q >= d + 1 PROVE FALSE
    OBVIOUS
  <2>1. (d + 1) * n <= q * n
    BY <1>2, ProductGrows
  <2>2. (d + 1) * n = d * n + n
    BY <1>2
  <2> QED BY <1>2, <1>3, <2>1, <2>2
<1>6. d = q
  BY <1>2, <1>4, <1>5
<1> QED BY <1>2, <1>3, <1>6 DEF d, m

\* The least of two.
LEMMA Smaller ==
    ASSUME NEW a \in Int, NEW b \in Int
    PROVE  Min({a, b}) = IF a <= b THEN a ELSE b
<1> DEFINE x == IF a <= b THEN a ELSE b
<1>1. x \in {a, b} /\ \A y \in {a, b} : x <= y
  OBVIOUS
<1>2. \A z \in {a, b} : (\A y \in {a, b} : z <= y) => z = x
  OBVIOUS
<1> QED BY <1>1, <1>2 DEF Min

\* The blocks of a team: each begins where the one before ends.
LEMMA Blocks ==
    ASSUME NEW n \in Nat, NEW t \in Nat \ {0}, NEW w \in 1..t
    PROVE  LET q == n \div t
               m == n % t
           IN  /\ BlockStart(n, t, w) = (w - 1) * q + (IF w - 1 <= m THEN w - 1 ELSE m)
               /\ BlockStart(n, t, w) \in Nat
               /\ BlockLength(n, t, w) \in Nat
               /\ BlockStart(n, t, w) + BlockLength(n, t, w) = w * q + (IF w <= m THEN w ELSE m)
<1> DEFINE q == n \div t
           m == n % t
<1>1. q \in Nat /\ m \in Nat
  BY Division
<1>2. Min({w - 1, m}) = IF w - 1 <= m THEN w - 1 ELSE m
  BY <1>1, Smaller
<1>3. (w - 1) * q \in Nat /\ w * q = (w - 1) * q + q
  BY <1>1
<1>4. BlockStart(n, t, w) = (w - 1) * q + (IF w - 1 <= m THEN w - 1 ELSE m)
  BY <1>2 DEF BlockStart
<1>5. BlockLength(n, t, w) = q + (IF w <= m THEN 1 ELSE 0)
  BY DEF BlockLength
<1> HIDE DEF q, m
<1>6. BlockStart(n, t, w) \in Nat /\ BlockLength(n, t, w) \in Nat
  BY <1>1, <1>3, <1>4, <1>5
<1>7. BlockStart(n, t, w) + BlockLength(n, t, w) = w * q + (IF w <= m THEN w ELSE m)
  BY <1>1, <1>3, <1>4, <1>5
<1> QED BY <1>4, <1>6, <1>7 DEF q, m

\* Blocks of different workers are apart, ...
LEMMA BlocksApart ==
    ASSUME NEW n \in Nat, NEW t \in Nat \ {0}, NEW v \in 1..t, NEW w \in 1..t, v < w
    PROVE  BlockStart(n, t, v) + BlockLength(n, t, v) <= BlockStart(n, t, w)
<1> DEFINE q == n \div t
           m == n % t
<1>1. q \in Nat /\ m \in Nat
  BY Division
<1>2. /\ BlockStart(n, t, v) + BlockLength(n, t, v) = v * q + (IF v <= m THEN v ELSE m)
      /\ BlockStart(n, t, w) = (w - 1) * q + (IF w - 1 <= m THEN w - 1 ELSE m)
  BY Blocks
<1> HIDE DEF q, m
<1>3. v * q <= (w - 1) * q /\ v * q \in Nat /\ (w - 1) * q \in Nat
  BY <1>1, ProductGrows
<1> QED BY <1>1, <1>2, <1>3

\* ... within the iterations, ...
LEMMA BlocksFit ==
    ASSUME NEW n \in Nat, NEW t \in Nat \ {0}, NEW w \in 1..t
    PROVE  BlockStart(n, t, w) + BlockLength(n, t, w) <= n
<1> DEFINE q == n \div t
           m == n % t
<1>1. q \in Nat /\ m \in Nat /\ n = t * q + m
  BY Division
<1>2. BlockStart(n, t, w) + BlockLength(n, t, w) = w * q + (IF w <= m THEN w ELSE m)
  BY Blocks
<1> HIDE DEF q, m
<1>3. w * q <= t * q /\ w * q \in Nat /\ t * q \in Nat
  BY <1>1, ProductGrows
<1> QED BY <1>1, <1>2, <1>3

\* ... and leave out none.
LEMMA BlocksCover ==
    ASSUME NEW n \in Nat, NEW t \in Nat \ {0}, NEW j \in 1..n
    PROVE  \E w \in 1..t : /\ BlockStart(n, t, w) < j
                           /\ j <= BlockStart(n, t, w) + BlockLength(n, t, w)
<1> DEFINE q == n \div t
           m == n % t
           b == q + 1
<1>1. q \in Nat /\ m \in Nat /\ m < t /\ n = t * q + m
  BY Division
<1>2. \A w \in 1..t :
          /\ BlockStart(n, t, w) = (w - 1) * q + (IF w - 1 <= m THEN w - 1 ELSE m)
          /\ BlockStart(n, t, w) + BlockLength(n, t, w) = w * q + (IF w <= m THEN w ELSE m)
  BY Blocks
<1> HIDE DEF q, m
<1>3. m * b = m * q + m /\ m * b \in Nat /\ m * q \in Nat
  BY <1>1
<1>4. CASE j <= m * b
  <2> DEFINE d == (j - 1) \div b
             s == (j - 1) % b
  <2>0. b \in Nat \ {0} /\ b = q + 1 /\ j - 1 \in Nat
    BY <1>1
  <2> HIDE DEF b
  <2>1. d \in Nat /\ s \in 0..(b - 1) /\ j - 1 = b * d + s
    BY <2>0, Division
  <2> HIDE DEF d, s
  <2>2. d < m
    <3> SUFFICES ASSUME m <= d PROVE FALSE
      BY <1>1, <2>0, <2>1
    <3>1. m * b <= d * b
      BY <1>1, <2>0, <2>1, ProductGrows
    <3>2. d * b = b * d /\ b * d \in Nat
      BY <1>1, <2>0, <2>1
    <3> QED BY <1>3, <1>4, <2>0, <2>1, <3>1, <3>2
  <2>3. b * d = d * q + d /\ (d + 1) * q = d * q + q /\ d * q \in Nat
    BY <1>1, <2>0, <2>1
  <2>4. d + 1 \in 1..t /\ (d + 1) - 1 = d
    BY <1>1, <2>0, <2>1, <2>2
  <2>5. /\ BlockStart(n, t, d + 1) = d * q + d
        /\ BlockStart(n, t, d + 1) + BlockLength(n, t, d + 1) = (d + 1) * q + (d + 1)
    BY <1>1, <1>2, <2>1, <2>2, <2>4
  <2> QED BY <1>1, <2>0, <2>1, <2>3, <2>4, <2>5
<1>5. CASE j > m * b
  <2>1. q > 0
    <3> SUFFICES ASSUME q = 0 PROVE FALSE
      BY <1>1
    <3>1. t * q = 0 /\ m * q = 0
      BY <1>1
    <3> QED BY <1>1, <1>3, <1>5, <3>1
  <2> DEFINE x == j - 1 - m * b
             d == x \div q
             s == x % q
  <2>2. x \in Nat
    BY <1>3, <1>5
  <2>3. d \in Nat /\ s \in 0..(q - 1) /\ x = q * d + s
    BY <1>1, <2>1, <2>2, Division
  <2> HIDE DEF d, s
  <2>4. m + d < t
    <3> SUFFICES ASSUME t <= m + d PROVE FALSE
      BY <1>1, <2>3
    <3>1. t * q <= (m + d) * q
      BY <1>1, <2>3, ProductGrows
    <3>2. (m + d) * q = m * q + q * d /\ q * d \in Nat /\ t * q \in Nat
      BY <1>1, <2>3
    <3> QED BY <1>1, <1>3, <2>3, <3>1, <3>2
  <2>5. m + d + 1 \in 1..t
    BY <1>1, <2>3, <2>4
  <2>6. /\ (m + d) * q = m * q + q * d /\ (m + d + 1) * q = m * q + q * d + q
        /\ q * d \in Nat
    BY <1>1, <2>3
  <2>7. /\ BlockStart(n, t, m + d + 1) = (m + d) * q + m
        /\ BlockStart(n, t, m + d + 1) + BlockLength(n, t, m + d + 1) = (m + d + 1) * q + m
    <3>1. (m + d + 1) - 1 = m + d
      BY <1>1, <2>3
    <3>2. m + d <= m => d = 0
      BY <1>1, <2>3
    <3> QED BY <1>1, <1>2, <2>3, <2>5, <3>1, <3>2
  <2> QED BY <1>1, <1>3, <2>3, <2>5, <2>6, <2>7
<1>6. j <= m * b \/ j > m * b
  BY <1>3
<1> QED BY <1>4, <1>5, <1>6

(* What a team has left to do.                                              *)

Elements(s) == { s[k] : k \in 1..Len(s) }
Growing(s) == \A j, k \in 1..Len(s) : j < k => s[j] < s[k]

\* Whoever is in a column goes through all its later rows in order.
InOrder(rows, left) ==
    /\ \A j, k \in 1..Len(left) : j < k /\ left[j][2] = left[k][2] => left[j][1] < left[k][1]
    /\ \A k \in 1..Len(left) : \A r \in 1..rows :
          r > left[k][1] => <<r, left[k][2]>> \in Elements(left)

\* No two workers have a column in common.
TeamOK(rows, cols, team) ==
    /\ \A w \in DOMAIN team :
          /\ DOMAIN team[w] = {"left", "read"}
          /\ team[w].left \in Seq((1..rows) \X (1..cols))
          /\ InOrder(rows, team[w].left)
    /\ \A v, w \in DOMAIN team : v # w =>
          \A a \in Elements(team[v].left), b \in Elements(team[w].left) : a[2] # b[2]

Pending(team) == UNION { Elements(team[w].left) : w \in DOMAIN team }

\* The iterations of a worker whose block of columns starts after b and has
\* length l.
Dealt(rows, cols, b, l, s) ==
    /\ s \in Seq((1..rows) \X (1..cols))
    /\ \A k \in 1..Len(s) : \E q \in 0..(l - 1) : \E m \in 1..rows :
          k = q * rows + m /\ s[k] = <<m, b + q + 1>>
    /\ \A q \in 0..(l - 1) : \A m \in 1..rows :
          q * rows + m \in 1..Len(s) /\ s[q * rows + m] = <<m, b + q + 1>>

\* The place of an iteration in its worker's list, and back.
LEMMA IterationPlace ==
    ASSUME NEW rows \in Nat, NEW cols \in Nat, NEW t \in Nat \ {0}, NEW w \in 1..t
    PROVE  Dealt(rows, cols, BlockStart(cols, t, w), BlockLength(cols, t, w),
                 Iterations(rows, cols, t, w))
<1> DEFINE s == Iterations(rows, cols, t, w)
           b == BlockStart(cols, t, w)
           l == BlockLength(cols, t, w)
           n == rows * l
<1>1. b \in Nat /\ l \in Nat /\ b + l <= cols
  BY Blocks, BlocksFit
<1>2. n \in Nat
  BY <1>1, ProductGrows
<1>3. /\ DOMAIN s = 1..n
      /\ \A k \in 1..n : s[k] = <<((k - 1) % rows) + 1, b + ((k - 1) \div rows) + 1>>
  BY DEF Iterations
<1> HIDE DEF s, b, l
<1>4. ASSUME NEW k \in 1..n
      PROVE  \E q \in 0..(l - 1) : \E m \in 1..rows :
                k = q * rows + m /\ s[k] = <<m, b + q + 1>>
  <2>1. rows \in Nat \ {0}
    <3> SUFFICES ASSUME rows = 0 PROVE FALSE
      OBVIOUS
    <3>1. n = 0
      BY <1>1
    <3> QED BY <3>1
  <2> DEFINE q == (k - 1) \div rows
             m == (k - 1) % rows
  <2>2. k - 1 \in Nat
    BY <1>2
  <2>3. q \in Nat /\ m \in 0..(rows - 1) /\ k - 1 = rows * q + m
    BY <2>1, <2>2, Division
  <2>4. s[k] = <<m + 1, b + q + 1>>
    BY <1>3
  <2> HIDE DEF q, m
  <2>5. q < l
    <3> SUFFICES ASSUME l <= q PROVE FALSE
      BY <1>1, <2>3
    <3>1. l * rows <= q * rows
      BY <1>1, <2>3, ProductGrows
    <3>2. l * rows = rows * l /\ q * rows = rows * q
      BY <1>1, <2>3
    <3>3. k <= rows * l /\ rows * l \in Nat /\ rows * q \in Nat
      BY <1>1, <1>2, <2>3
    <3> QED BY <2>2, <2>3, <3>1, <3>2, <3>3
  <2>6. k = q * rows + (m + 1)
    <3>1. rows * q = q * rows /\ q * rows \in Nat
      BY <2>3
    <3> QED BY <2>2, <2>3, <3>1
  <2>7. q \in 0..(l - 1) /\ m + 1 \in 1..rows
    BY <1>1, <2>3, <2>5
  <2> QED BY <2>4, <2>6, <2>7
<1>5. ASSUME NEW q \in 0..(l - 1), NEW m \in 1..rows
      PROVE  q * rows + m \in 1..n /\ s[q * rows + m] = <<m, b + q + 1>>
  <2>1. q \in Nat /\ q + 1 <= l /\ rows \in Nat \ {0} /\ m - 1 \in 0..(rows - 1)
    BY <1>1
  <2>2. q * rows \in Nat /\ (q + 1) * rows = q * rows + rows /\ l * rows = n
    BY <1>1, <2>1
  <2>3. (q + 1) * rows <= l * rows
    BY <1>1, <2>1, ProductGrows
  <2>4. q * rows + m \in 1..n
    BY <1>2, <2>2, <2>3
  <2>5. (q * rows + (m - 1)) \div rows = q /\ (q * rows + (m - 1)) % rows = m - 1
    BY <2>1, Quotient
  <2>6. (q * rows + m) - 1 = q * rows + (m - 1)
    BY <2>2
  <2> QED BY <1>3, <2>1, <2>4, <2>5, <2>6
<1> HIDE DEF n
<1>6. Len(s) = n /\ s \in Seq((1..rows) \X (1..cols))
  <2>1. \A k \in 1..n : s[k] \in (1..rows) \X (1..cols)
    <3> TAKE k \in 1..n
    <3>1. PICK q \in 0..(l - 1), m \in 1..rows : s[k] = <<m, b + q + 1>>
      BY <1>4
    <3>2. b + q + 1 \in 1..cols
      BY <1>1
    <3> QED BY <3>1, <3>2
  <2>2. s = [k \in 1..n |-> s[k]]
    BY <1>3 DEF s, Iterations, n
  <2>3. s \in [1..n -> (1..rows) \X (1..cols)]
    BY <2>1, <2>2
  <2> QED BY <1>2, <2>3
<1>7. Dealt(rows, cols, b, l, s)
  BY <1>4, <1>5, <1>6 DEF Dealt
<1> QED BY <1>7 DEF s, b, l

\* The iterations of one worker.
LEMMA IterationsInOrder ==
    ASSUME NEW rows \in Nat, NEW cols \in Nat, NEW t \in Nat \ {0}, NEW w \in 1..t
    PROVE  InOrder(rows, Iterations(rows, cols, t, w))
<1> DEFINE s == Iterations(rows, cols, t, w)
           b == BlockStart(cols, t, w)
           l == BlockLength(cols, t, w)
<1>1. b \in Nat /\ l \in Nat
  BY Blocks
<1>2. /\ \A k \in 1..Len(s) : \E q \in 0..(l - 1) : \E m \in 1..rows :
            k = q * rows + m /\ s[k] = <<m, b + q + 1>>
      /\ \A q \in 0..(l - 1), m \in 1..rows :
            q * rows + m \in 1..Len(s) /\ s[q * rows + m] = <<m, b + q + 1>>
  <2>1. Dealt(rows, cols, b, l, s)
    BY IterationPlace
  <2> HIDE DEF s, b, l
  <2> QED BY <2>1 DEF Dealt
<1> HIDE DEF s, b, l
<1>3. ASSUME NEW j \in 1..Len(s), NEW k \in 1..Len(s), j < k, s[j][2] = s[k][2]
      PROVE  s[j][1] < s[k][1]
  <2>1. PICK p \in 0..(l - 1), i \in 1..rows : j = p * rows + i /\ s[j] = <<i, b + p + 1>>
    BY <1>2
  <2>2. PICK q \in 0..(l - 1), m \in 1..rows : k = q * rows + m /\ s[k] = <<m, b + q + 1>>
    BY <1>2
  <2>3. p = q
    BY <1>1, <1>3, <2>1, <2>2
  <2>4. q * rows \in Nat
    BY <1>1, ProductGrows
  <2> QED BY <1>3, <2>1, <2>2, <2>3, <2>4
<1>4. ASSUME NEW k \in 1..Len(s), NEW r \in 1..rows, r > s[k][1]
      PROVE  <<r, s[k][2]>> \in Elements(s)
  <2>1. PICK q \in 0..(l - 1), m \in 1..rows : s[k] = <<m, b + q + 1>>
    BY <1>2
  <2>2. q * rows + r \in 1..Len(s) /\ s[q * rows + r] = <<r, b + q + 1>>
    BY <1>2
  <2> QED BY <2>1, <2>2 DEF Elements
<1> QED BY <1>3, <1>4 DEF InOrder, s

\* At the start of the region every pair of a row and a column is to be done,
\* each column by one worker.
LEMMA TeamStarts ==
    ASSUME NEW rows \in Nat, NEW cols \in Nat, NEW t \in Nat \ {0}
    PROVE  LET team == [w \in 1..t |-> [left |-> Iterations(rows, cols, t, w), read |-> {}]]
           IN  TeamOK(rows, cols, team) /\ Pending(team) = (1..rows) \X (1..cols)
<1> DEFINE team == [w \in 1..t |-> [left |-> Iterations(rows, cols, t, w), read |-> {}]]
<1>1. /\ DOMAIN team = 1..t
      /\ \A w \in 1..t : /\ DOMAIN team[w] = {"left", "read"}
                         /\ team[w].left = Iterations(rows, cols, t, w)
  OBVIOUS
<1> HIDE DEF team
<1>0. \A w \in 1..t :
          Dealt(rows, cols, BlockStart(cols, t, w), BlockLength(cols, t, w), team[w].left)
  BY <1>1, IterationPlace
<1>2. \A w \in 1..t : /\ team[w].left \in Seq((1..rows) \X (1..cols))
                      /\ InOrder(rows, team[w].left)
  BY <1>0, <1>1, IterationsInOrder DEF Dealt
<1>3. ASSUME NEW w \in 1..t, NEW a \in Elements(team[w].left)
      PROVE  /\ BlockStart(cols, t, w) < a[2]
             /\ a[2] <= BlockStart(cols, t, w) + BlockLength(cols, t, w)
             /\ a \in (1..rows) \X (1..cols)
  <2>1. PICK k \in 1..Len(team[w].left) : a = team[w].left[k]
    BY DEF Elements
  <2>2. BlockStart(cols, t, w) \in Nat /\ BlockLength(cols, t, w) \in Nat
    BY Blocks
  <2> DEFINE b == BlockStart(cols, t, w)
             l == BlockLength(cols, t, w)
  <2>3. PICK q \in 0..(l - 1), m \in 1..rows : a = <<m, b + q + 1>>
    <3>1. Dealt(rows, cols, b, l, team[w].left)
      BY <1>0
    <3> HIDE DEF b, l
    <3> QED BY <2>1, <3>1 DEF Dealt
  <2>4. a[2] = b + q + 1
    BY <2>3
  <2>5. a \in (1..rows) \X (1..cols)
    BY <1>2, <2>1
  <2> QED BY <2>2, <2>4, <2>5
<1>4. ASSUME NEW v \in 1..t, NEW w \in 1..t, v < w,
             NEW a \in Elements(team[v].left), NEW b \in Elements(team[w].left)
      PROVE  a[2] # b[2]
  <2>1. BlockStart(cols, t, v) + BlockLength(cols, t, v) <= BlockStart(cols, t, w)
    BY <1>4, BlocksApart
  <2>2. /\ BlockStart(cols, t, v) \in Nat /\ BlockLength(cols, t, v) \in Nat
        /\ BlockStart(cols, t, w) \in Nat
    BY Blocks
  <2>3. a[2] \in Nat /\ b[2] \in Nat
    BY <1>3
  <2>4. a[2] <= BlockStart(cols, t, v) + BlockLength(cols, t, v) /\ BlockStart(cols, t, w) < b[2]
    BY <1>3
  <2> QED BY <2>1, <2>2, <2>3, <2>4
<1>5. ASSUME NEW v \in 1..t, NEW w \in 1..t, v # w,
             NEW a \in Elements(team[v].left), NEW b \in Elements(team[w].left)
      PROVE  a[2] # b[2]
  <2>1. v < w \/ w < v
    BY <1>5
  <2> QED BY <1>4, <2>1
<1>6. ASSUME NEW r \in 1..rows, NEW col \in 1..cols
      PROVE  \E w \in 1..t : <<r, col>> \in Elements(team[w].left)
  <2>1. PICK w \in 1..t : /\ BlockStart(cols, t, w) < col
                          /\ col <= BlockStart(cols, t, w) + BlockLength(cols, t, w)
    BY BlocksCover
  <2>2. BlockStart(cols, t, w) \in Nat /\ BlockLength(cols, t, w) \in Nat
    BY Blocks
  <2> DEFINE q == col - BlockStart(cols, t, w) - 1
  <2>3. q \in 0..(BlockLength(cols, t, w) - 1) /\ BlockStart(cols, t, w) + q + 1 = col
    BY <2>1, <2>2
  <2> HIDE DEF q
  <2>4. /\ q * rows + r \in 1..Len(team[w].left)
        /\ team[w].left[q * rows + r] = <<r, col>>
    BY <1>0, <2>3 DEF Dealt
  <2> QED BY <2>4 DEF Elements
<1>7. Pending(team) = (1..rows) \X (1..cols)
  <2>1. \A a \in Pending(team) : a \in (1..rows) \X (1..cols)
    BY <1>1, <1>3 DEF Pending
  <2>2. \A r \in 1..rows, col \in 1..cols : <<r, col>> \in Pending(team)
    BY <1>1, <1>6 DEF Pending
  <2> QED BY <2>1, <2>2
<1> QED BY <1>1, <1>2, <1>5, <1>7 DEF TeamOK, team

\* A worker goes on to its next iteration.
Takes(team, next, w) ==
    /\ DOMAIN next = DOMAIN team
    /\ DOMAIN next[w] = {"left", "read"}
    /\ next[w].left = Tail(team[w].left)
    /\ next[w].read = {}
    /\ \A v \in DOMAIN team \ {w} : next[v] = team[v]

\* What is left to do is what was, without the first iteration.
LEMMA TailLeaves ==
    ASSUME NEW rows \in Nat, NEW cols \in Nat,
           NEW left \in Seq((1..rows) \X (1..cols)), InOrder(rows, left), left # <<>>
    PROVE  /\ Head(left) \in (1..rows) \X (1..cols)
           /\ Head(left) \in Elements(left)
           /\ Tail(left) \in Seq((1..rows) \X (1..cols))
           /\ InOrder(rows, Tail(left))
           /\ Elements(Tail(left)) = Elements(left) \ {Head(left)}
<1> DEFINE rest == Tail(left)
           first == Head(left)
<1>0. /\ first \in (1..rows) \X (1..cols)
      /\ rest \in Seq((1..rows) \X (1..cols))
  OBVIOUS
<1>1. /\ Len(left) \in Nat /\ Len(left) >= 1 /\ first = left[1]
      /\ Len(rest) = Len(left) - 1
      /\ \A k \in 1..Len(rest) : rest[k] = left[k + 1]
  OBVIOUS
<1>2. \A k \in 1..Len(left) : left[k][1] \in Nat
  <2>1. \A k \in 1..Len(left) : left[k] \in (1..rows) \X (1..cols)
    OBVIOUS
  <2> QED BY <2>1
<1> HIDE DEF rest, first
<1>3. ASSUME NEW k \in 2..Len(left) PROVE left[k] # first
  <2>1. 1 \in 1..Len(left) /\ k \in 1..Len(left) /\ 1 < k
    BY <1>1
  <2>2. left[1][2] = left[k][2] => left[1][1] < left[k][1]
    BY <2>1 DEF InOrder
  <2>3. left[1][1] \in Nat
    BY <1>2, <2>1
  <2>4. left[1] # left[k]
    BY <2>2, <2>3
  <2> QED BY <1>1, <2>4
<1>4. Elements(rest) = Elements(left) \ {first}
  <2>1. ASSUME NEW a \in Elements(rest) PROVE a \in Elements(left) \ {first}
    <3>1. PICK k \in 1..Len(rest) : a = rest[k]
      BY DEF Elements
    <3>2. k + 1 \in 2..Len(left) /\ k + 1 \in 1..Len(left) /\ a = left[k + 1]
      BY <1>1, <3>1
    <3> QED BY <1>3, <3>2 DEF Elements
  <2>2. ASSUME NEW a \in Elements(left), a # first PROVE a \in Elements(rest)
    <3>1. PICK k \in 1..Len(left) : a = left[k]
      BY DEF Elements
    <3>2. k # 1
      BY <1>1, <2>2, <3>1
    <3>3. k - 1 \in 1..Len(rest) /\ rest[k - 1] = a
      <4>1. k - 1 \in 1..Len(rest) /\ (k - 1) + 1 = k
        BY <1>1, <3>2
      <4> QED BY <1>1, <3>1, <4>1
    <3> QED BY <3>3 DEF Elements
  <2> QED BY <2>1, <2>2
<1>5. InOrder(rows, rest)
  <2>1. ASSUME NEW j \in 1..Len(rest), NEW k \in 1..Len(rest), j < k, rest[j][2] = rest[k][2]
        PROVE  rest[j][1] < rest[k][1]
    <3>1. j + 1 \in 1..Len(left) /\ k + 1 \in 1..Len(left) /\ j + 1 < k + 1
      BY <1>1, <2>1
    <3>2. left[j + 1][2] = left[k + 1][2] => left[j + 1][1] < left[k + 1][1]
      BY <3>1 DEF InOrder
    <3> QED BY <1>1, <2>1, <3>2
  <2>2. ASSUME NEW k \in 1..Len(rest), NEW r \in 1..rows, r > rest[k][1]
        PROVE  <<r, rest[k][2]>> \in Elements(rest)
    <3>1. k + 1 \in 1..Len(left) /\ 1 \in 1..Len(left) /\ 1 < k + 1 /\ rest[k] = left[k + 1]
      BY <1>1
    <3>2. <<r, rest[k][2]>> \in Elements(left)
      BY <2>2, <3>1 DEF InOrder
    <3>3. <<r, rest[k][2]>> # first
      <4> SUFFICES ASSUME <<r, rest[k][2]>> = first PROVE FALSE
        OBVIOUS
      <4> DEFINE pair == <<r, left[k + 1][2]>>
      <4>0. pair[1] = r /\ pair[2] = left[k + 1][2] /\ pair = left[1]
        BY <1>1, <3>1
      <4> HIDE DEF pair
      <4>1. left[1][1] = r /\ left[1][2] = left[k + 1][2]
        BY <4>0
      <4>2. left[1][1] < left[k + 1][1]
        BY <3>1, <4>1 DEF InOrder
      <4>3. left[k + 1][1] \in Nat
        BY <1>2, <3>1
      <4>4. r > left[k + 1][1]
        BY <2>2, <3>1
      <4>5. r < left[k + 1][1]
        BY <4>1, <4>2
      <4> QED BY <4>3, <4>4, <4>5
    <3> QED BY <1>4, <3>2, <3>3
  <2> QED BY <2>1, <2>2 DEF InOrder
<1>6. first \in Elements(left)
  <2>1. 1 \in 1..Len(left)
    BY <1>1
  <2> QED BY <1>1, <2>1 DEF Elements
<1> QED BY <1>0, <1>4, <1>5, <1>6 DEF rest, first

\* One iteration less is pending, the first its column had left; the columns
\* of the other workers are other columns.
LEMMA TeamTakes ==
    ASSUME NEW rows \in Nat, NEW cols \in Nat, NEW team, TeamOK(rows, cols, team),
           NEW w \in DOMAIN team, team[w].left # <<>>, NEW next, Takes(team, next, w)
    PROVE  LET first == Head(team[w].left) IN
           /\ TeamOK(rows, cols, next)
           /\ Pending(next) = Pending(team) \ {first}
           /\ first \in Pending(team) /\ first \in (1..rows) \X (1..cols)
           /\ \A r \in 1..rows : r > first[1] => <<r, first[2]>> \in Pending(team)
           /\ \A v \in DOMAIN team \ {w} : team[v].left # <<>> =>
                 Head(team[v].left)[2] # first[2]
<1> DEFINE first == Head(team[w].left)
           left(v) == team[v].left
<1>1. \A v \in DOMAIN team : left(v) \in Seq((1..rows) \X (1..cols)) /\ InOrder(rows, left(v))
  BY DEF TeamOK
<1>2. /\ first \in (1..rows) \X (1..cols) /\ first \in Elements(left(w))
      /\ next[w].left \in Seq((1..rows) \X (1..cols)) /\ InOrder(rows, next[w].left)
      /\ Elements(next[w].left) = Elements(left(w)) \ {first}
      /\ DOMAIN next[w] = {"left", "read"}
  <2>1. next[w].left = Tail(left(w)) /\ DOMAIN next[w] = {"left", "read"}
    BY DEF Takes
  <2>2. left(w) \in Seq((1..rows) \X (1..cols)) /\ InOrder(rows, left(w)) /\ left(w) # <<>>
    BY <1>1
  <2> HIDE DEF left
  <2>3. /\ Head(left(w)) \in (1..rows) \X (1..cols) /\ Head(left(w)) \in Elements(left(w))
        /\ Tail(left(w)) \in Seq((1..rows) \X (1..cols)) /\ InOrder(rows, Tail(left(w)))
        /\ Elements(Tail(left(w))) = Elements(left(w)) \ {Head(left(w))}
    BY <2>2, TailLeaves
  <2> QED BY <2>1, <2>3 DEF left
<1>3. \A v \in DOMAIN team : Elements(next[v].left) \subseteq Elements(left(v))
  BY <1>2 DEF Takes
<1>4. \A v \in DOMAIN team \ {w} : first \notin Elements(left(v))
  BY <1>2 DEF TeamOK
<1> HIDE DEF first
<1>5. TeamOK(rows, cols, next)
  <2>1. \A v \in DOMAIN next : /\ DOMAIN next[v] = {"left", "read"}
                               /\ next[v].left \in Seq((1..rows) \X (1..cols))
                               /\ InOrder(rows, next[v].left)
    BY <1>2 DEF TeamOK, Takes
  <2>2. ASSUME NEW u \in DOMAIN next, NEW v \in DOMAIN next, u # v,
               NEW a \in Elements(next[u].left), NEW b \in Elements(next[v].left)
        PROVE  a[2] # b[2]
    <3>1. u \in DOMAIN team /\ v \in DOMAIN team
      BY DEF Takes
    <3>2. a \in Elements(team[u].left) /\ b \in Elements(team[v].left)
      BY <1>3, <3>1
    <3> QED BY <2>2, <3>1, <3>2 DEF TeamOK
  <2> QED BY <2>1, <2>2 DEF TeamOK
<1>6. Pending(next) = Pending(team) \ {first}
  <2>1. ASSUME NEW a \in Pending(next) PROVE a \in Pending(team) /\ a # first
    <3>1. PICK v \in DOMAIN team : a \in Elements(next[v].left)
      BY DEF Pending, Takes
    <3>2. a \in Elements(left(v))
      BY <1>3, <3>1
    <3> QED BY <1>2, <1>4, <3>1, <3>2 DEF Pending
  <2>2. ASSUME NEW a \in Pending(team), a # first PROVE a \in Pending(next)
    <3>1. PICK v \in DOMAIN team : a \in Elements(left(v))
      BY DEF Pending
    <3>2. a \in Elements(next[v].left)
      BY <1>2, <2>2, <3>1 DEF Takes
    <3> QED BY <3>1, <3>2 DEF Pending, Takes
  <2> QED BY <2>1, <2>2
<1>7. ASSUME NEW r \in 1..rows, r > first[1] PROVE <<r, first[2]>> \in Pending(team)
  <2>1. PICK k \in 1..Len(left(w)) : first = left(w)[k]
    BY <1>2 DEF Elements
  <2>2. <<r, first[2]>> \in Elements(left(w))
    BY <1>1, <1>7, <2>1 DEF InOrder
  <2> QED BY <2>2 DEF Pending
<1>8. ASSUME NEW v \in DOMAIN team \ {w}, left(v) # <<>>
      PROVE  Head(left(v))[2] # first[2]
  <2>1. Head(left(v)) \in Elements(left(v))
    BY <1>1, <1>8, TailLeaves
  <2> QED BY <1>2, <2>1 DEF TeamOK
<1>9. first \in Pending(team)
  BY <1>2 DEF Pending
<1> QED BY <1>2, <1>5, <1>6, <1>7, <1>8, <1>9 DEF first

(* The sums.                                                                *)

\* A sum has the rows of its cell that its column is through with, in order.
SumsOK(rows, cols, size, index, sums, team) ==
    /\ DOMAIN sums = (0..(size - 1)) \X (1..cols)
    /\ \A at \in DOMAIN sums :
          /\ sums[at] \in Seq(1..rows) /\ Growing(sums[at])
          /\ Elements(sums[at]) = { r \in 1..rows : index[r] = at[1]
                                                    /\ <<r, at[2]>> \notin Pending(team) }

\* What a worker has read of its sum is what the sum still is.
CellAt(index, at) == <<index[at[1]], at[2]>>
ReadOK(index, sums, team) ==
    \A w \in DOMAIN team : team[w].read # {} =>
        /\ team[w].left # <<>>
        /\ team[w].read = {sums[CellAt(index, Head(team[w].left))]}

\* A sequence with one more element.
LEMMA OneMore ==
    ASSUME NEW rows \in Nat, NEW s \in Seq(1..rows), Growing(s), NEW r \in 1..rows,
           \A x \in Elements(s) : x < r
    PROVE  /\ Append(s, r) \in Seq(1..rows) /\ Growing(Append(s, r))
           /\ Elements(Append(s, r)) = Elements(s) \union {r}
<1> DEFINE n == Len(s)
           a == Append(s, r)
<1>1. /\ n \in Nat /\ a \in Seq(1..rows) /\ Len(a) = n + 1 /\ a[n + 1] = r
      /\ \A k \in 1..n : a[k] = s[k]
  OBVIOUS
<1> HIDE DEF a
<1>2. \A k \in 1..n : s[k] < r
  BY DEF Elements
<1>3. ASSUME NEW j \in 1..(n + 1), NEW k \in 1..(n + 1), j < k PROVE a[j] < a[k]
  <2>1. j \in 1..n
    BY <1>1, <1>3
  <2>2. CASE k = n + 1
    BY <1>1, <1>2, <2>1, <2>2
  <2>3. CASE k # n + 1
    <3>1. k \in 1..n
      BY <1>1, <2>3
    <3> QED BY <1>1, <1>3, <2>1, <3>1 DEF Growing
  <2> QED BY <2>2, <2>3
<1>4. Elements(a) = Elements(s) \union {r}
  <2>1. ASSUME NEW x \in Elements(a) PROVE x \in Elements(s) \union {r}
    <3>1. PICK k \in 1..(n + 1) : x = a[k]
      BY <1>1 DEF Elements
    <3>2. CASE k = n + 1
      BY <1>1, <3>1, <3>2
    <3>3. CASE k # n + 1
      <4>1. k \in 1..n
        BY <1>1, <3>3
      <4> QED BY <1>1, <3>1, <4>1 DEF Elements
    <3> QED BY <3>2, <3>3
  <2>2. ASSUME NEW x \in Elements(s) PROVE x \in Elements(a)
    <3>1. PICK k \in 1..n : x = s[k]
      BY DEF Elements
    <3>2. k \in 1..Len(a) /\ x = a[k]
      BY <1>1, <3>1
    <3> QED BY <3>2 DEF Elements
  <2>3. r \in Elements(a)
    <3>1. n + 1 \in 1..Len(a)
      BY <1>1
    <3> QED BY <1>1, <3>1 DEF Elements
  <2> QED BY <2>1, <2>2, <2>3
<1>5. Growing(a)
  BY <1>1, <1>3 DEF Growing
<1> QED BY <1>1, <1>4, <1>5 DEF a

\* The region begins with empty sums.
LEMMA SumsStart ==
    ASSUME NEW rows \in Nat, NEW cols \in Nat, NEW size, NEW index, NEW team,
           Pending(team) = (1..rows) \X (1..cols)
    PROVE  SumsOK(rows, cols, size, index,
                  [at \in (0..(size - 1)) \X (1..cols) |-> <<>>], team)
<1> DEFINE sums == [at \in (0..(size - 1)) \X (1..cols) |-> <<>>]
<1>1. <<>> \in Seq(1..rows) /\ Growing(<<>>) /\ Elements(<<>>) = {}
  BY DEF Growing, Elements
<1>2. ASSUME NEW at \in DOMAIN sums
      PROVE  /\ sums[at] = <<>>
             /\ \A r \in 1..rows : <<r, at[2]>> \in Pending(team)
  OBVIOUS
<1>3. DOMAIN sums = (0..(size - 1)) \X (1..cols)
  OBVIOUS
<1> HIDE DEF sums
<1> QED BY <1>1, <1>2, <1>3 DEF SumsOK, sums

\* A row that is not of any cell changes no sum.
LEMMA SumsSkip ==
    ASSUME NEW rows \in Nat, NEW cols \in Nat, NEW size, NEW index, NEW sums, NEW team,
           SumsOK(rows, cols, size, index, sums, team), NEW next, NEW first,
           Pending(next) = Pending(team) \ {first},
           \A at \in DOMAIN sums : index[first[1]] # at[1] \/ first[2] # at[2]
    PROVE  SumsOK(rows, cols, size, index, sums, next)
<1>1. ASSUME NEW at \in DOMAIN sums, NEW r \in 1..rows, index[r] = at[1]
      PROVE  <<r, at[2]>> \in Pending(next) <=> <<r, at[2]>> \in Pending(team)
  <2>1. <<r, at[2]>> # first
    <3> DEFINE pair == <<r, at[2]>>
    <3>1. pair[1] = r /\ pair[2] = at[2]
      OBVIOUS
    <3> HIDE DEF pair
    <3>2. pair # first
      BY <1>1, <3>1
    <3> QED BY <3>2 DEF pair
  <2> QED BY <2>1
<1>2. ASSUME NEW at \in DOMAIN sums
      PROVE  { r \in 1..rows : index[r] = at[1] /\ <<r, at[2]>> \notin Pending(next) }
             = { r \in 1..rows : index[r] = at[1] /\ <<r, at[2]>> \notin Pending(team) }
  BY <1>1
<1> QED BY <1>2 DEF SumsOK

\* A row goes to the end of its sum, and to no other.
LEMMA SumsTake ==
    ASSUME NEW rows \in Nat, NEW cols \in Nat, NEW size, NEW index, NEW sums, NEW team,
           SumsOK(rows, cols, size, index, sums, team), NEW next,
           NEW first \in (1..rows) \X (1..cols), first \in Pending(team),
           Pending(next) = Pending(team) \ {first},
           \A r \in 1..rows : r > first[1] => <<r, first[2]>> \in Pending(team),
           NEW cell, cell = CellAt(index, first)
    PROVE  SumsOK(rows, cols, size, index,
                  [sums EXCEPT ![cell] = Append(sums[cell], first[1])], next)
<1> DEFINE now == [sums EXCEPT ![cell] = Append(sums[cell], first[1])]
           done(t, at) == { r \in 1..rows : index[r] = at[1] /\ <<r, at[2]>> \notin Pending(t) }
<1>1. first = <<first[1], first[2]>> /\ first[1] \in 1..rows /\ first[2] \in 1..cols
  OBVIOUS
<1>2. cell[1] = index[first[1]] /\ cell[2] = first[2]
  BY DEF CellAt
<1>3. /\ DOMAIN now = DOMAIN sums
      /\ \A at \in DOMAIN sums \ {cell} : now[at] = sums[at]
      /\ cell \in DOMAIN sums => now[cell] = Append(sums[cell], first[1])
  OBVIOUS
<1> HIDE DEF now
<1>4. \A at \in DOMAIN sums : at = <<at[1], at[2]>>
  BY DEF SumsOK
<1>5. ASSUME NEW at \in DOMAIN sums, at # cell PROVE done(next, at) = done(team, at)
  <2>1. ASSUME NEW r \in 1..rows, index[r] = at[1] PROVE <<r, at[2]>> # first
    <3> SUFFICES ASSUME <<r, at[2]>> = first PROVE FALSE
      OBVIOUS
    <3> DEFINE pair == <<r, at[2]>>
    <3>1. pair[1] = r /\ pair[2] = at[2] /\ pair = first
      OBVIOUS
    <3> HIDE DEF pair
    <3>2. at[1] = index[first[1]] /\ at[2] = first[2]
      BY <2>1, <3>1
    <3>3. at = CellAt(index, first)
      BY <1>4, <3>2 DEF CellAt
    <3> QED BY <1>5, <3>3
  <2> QED BY <2>1
<1>6. ASSUME cell \in DOMAIN sums
      PROVE  /\ done(next, cell) = done(team, cell) \union {first[1]}
             /\ \A r \in done(team, cell) : r < first[1]
  <2>1. ASSUME NEW r \in 1..rows
        PROVE  <<r, cell[2]>> \in Pending(next)
                 <=> <<r, cell[2]>> \in Pending(team) /\ r # first[1]
    BY <1>1, <1>2
  <2>2. ASSUME NEW r \in done(team, cell) PROVE r < first[1]
    <3>1. r \in 1..rows /\ <<r, first[2]>> \notin Pending(team)
      BY <1>2
    <3>2. ~(r > first[1]) /\ r # first[1]
      BY <1>1, <3>1
    <3> QED BY <1>1, <3>1, <3>2
  <2> QED BY <1>1, <1>2, <2>1, <2>2
<1> HIDE DEF done
<1>7. ASSUME NEW at \in DOMAIN sums
      PROVE  sums[at] \in Seq(1..rows) /\ Growing(sums[at]) /\ Elements(sums[at]) = done(team, at)
  BY DEF SumsOK, done
<1>8. ASSUME NEW at \in DOMAIN sums
      PROVE  now[at] \in Seq(1..rows) /\ Growing(now[at]) /\ Elements(now[at]) = done(next, at)
  <2>1. CASE at # cell
    BY <1>3, <1>5, <1>7, <2>1
  <2>2. CASE at = cell
    <3>1. \A x \in Elements(sums[cell]) : x < first[1]
      BY <1>6, <1>7, <2>2
    <3>2. sums[cell] \in Seq(1..rows) /\ Growing(sums[cell])
      BY <1>7, <2>2
    <3>3. /\ Append(sums[cell], first[1]) \in Seq(1..rows)
          /\ Growing(Append(sums[cell], first[1]))
          /\ Elements(Append(sums[cell], first[1])) = Elements(sums[cell]) \union {first[1]}
      BY <1>1, <3>1, <3>2, OneMore
    <3> QED BY <1>3, <1>6, <1>7, <2>2, <3>3
  <2> QED BY <2>1, <2>2
<1>9. DOMAIN now = (0..(size - 1)) \X (1..cols)
  BY <1>3 DEF SumsOK
<1> QED BY <1>3, <1>8, <1>9 DEF SumsOK, now, done
----------------------------------------------------------------------------
(* The grid in terms of the arguments of its call.                          *)

GridCall(call) == call.fn = "accumulate_weighted_grid"
ArrayAt(args, k) == Arrays[(CHOOSE v \in args[k] : TRUE).array]
IntAt(args, k) == IF args[k] = {} THEN 0 ELSE (CHOOSE v \in args[k] : TRUE).int
Shape(args) == ArrayAt(args, 1).shape
Indices(args) == ArrayAt(args, 2).data
SizeIn(args) == Wrap(IntAt(args, 3) * IntAt(args, 4))

\* The places of the parameters.
LEMMA GridPlaces ==
    /\ Len(AccumulateParams) = 5
    /\ (CHOOSE k \in 1..5 : AccumulateParams[k].name = "ph_weight") = 1
    /\ (CHOOSE k \in 1..5 : AccumulateParams[k].name = "grid_lin") = 2
    /\ (CHOOSE k \in 1..5 : AccumulateParams[k].name = "n_i") = 3
    /\ (CHOOSE k \in 1..5 : AccumulateParams[k].name = "n_j") = 4
<1>1. /\ Len(AccumulateParams) = 5
      /\ AccumulateParams[1].name = "ph_weight" /\ AccumulateParams[2].name = "grid_lin"
      /\ AccumulateParams[3].name = "n_i" /\ AccumulateParams[4].name = "n_j"
      /\ AccumulateParams[5].name = "threads"
  BY DEF AccumulateParams, Number, Optional, Param
<1>2. \A k \in 1..5 : k \in {1, 2, 3, 4, 5}
  OBVIOUS
<1> HIDE DEF AccumulateParams
<1> QED BY <1>1, <1>2

\* What the grid reads, before and after a step.
LEMMA GridReads ==
    /\ \A c : GridCall(callers[c].call) =>
          /\ TheArray(c, "ph_weight") = ArrayAt(callers[c].args, 1)
          /\ Rows(c) = Shape(callers[c].args)[1]
          /\ Columns(c) = Shape(callers[c].args)[2]
          /\ GridSize(c) = SizeIn(callers[c].args)
          /\ \A r : Index(c, r) = Indices(callers[c].args)[r]
    /\ \A c : GridCall(callers'[c].call) =>
          /\ Rows(c)' = Shape(callers'[c].args)[1]
          /\ Columns(c)' = Shape(callers'[c].args)[2]
          /\ GridSize(c)' = SizeIn(callers'[c].args)
          /\ \A r : Index(c, r)' = Indices(callers'[c].args)[r]
<1>1. Signature["accumulate_weighted_grid"] = AccumulateParams
  BY DEF Signature
<1>2. ASSUME NEW c, GridCall(callers[c].call)
      PROVE  /\ ArgOf(c, "ph_weight") = callers[c].args[1]
             /\ ArgOf(c, "grid_lin") = callers[c].args[2]
             /\ ArgOf(c, "n_i") = callers[c].args[3]
             /\ ArgOf(c, "n_j") = callers[c].args[4]
  BY <1>1, <1>2, GridPlaces DEF ArgOf, GridCall
<1>3. ASSUME NEW c, GridCall(callers'[c].call)
      PROVE  /\ ArgOf(c, "ph_weight")' = callers'[c].args[1]
             /\ ArgOf(c, "grid_lin")' = callers'[c].args[2]
             /\ ArgOf(c, "n_i")' = callers'[c].args[3]
             /\ ArgOf(c, "n_j")' = callers'[c].args[4]
  BY <1>1, <1>3, GridPlaces DEF ArgOf, GridCall
<1>4. ASSUME NEW c, GridCall(callers[c].call)
      PROVE  /\ TheArray(c, "ph_weight") = ArrayAt(callers[c].args, 1)
             /\ TheArray(c, "grid_lin") = ArrayAt(callers[c].args, 2)
             /\ GridSize(c) = SizeIn(callers[c].args)
  <2>1. /\ IntOf(c, "n_i", 0) = IntAt(callers[c].args, 3)
        /\ IntOf(c, "n_j", 0) = IntAt(callers[c].args, 4)
    <3>1. ArgOf(c, "n_i") = callers[c].args[3] /\ ArgOf(c, "n_j") = callers[c].args[4]
      BY <1>2, <1>4
    <3>2. IntOf(c, "n_i", 0) = IF ArgOf(c, "n_i") = {} THEN 0
                                 ELSE (CHOOSE v \in ArgOf(c, "n_i") : TRUE).int
      BY DEF IntOf
    <3>3. IntOf(c, "n_j", 0) = IF ArgOf(c, "n_j") = {} THEN 0
                                 ELSE (CHOOSE v \in ArgOf(c, "n_j") : TRUE).int
      BY DEF IntOf
    <3> QED BY <3>1, <3>2, <3>3 DEF IntAt
  <2>2. /\ GivenArray(c, "ph_weight") = (CHOOSE v \in callers[c].args[1] : TRUE).array
        /\ GivenArray(c, "grid_lin") = (CHOOSE v \in callers[c].args[2] : TRUE).array
    BY <1>2, <1>4 DEF GivenArray
  <2>3. /\ TheArray(c, "ph_weight") = ArrayAt(callers[c].args, 1)
        /\ TheArray(c, "grid_lin") = ArrayAt(callers[c].args, 2)
    BY <2>2 DEF TheArray, ArrayAt
  <2>4. GridSize(c) = SizeIn(callers[c].args)
    BY <2>1 DEF GridSize, SizeIn
  <2> QED BY <2>3, <2>4
<1>5. ASSUME NEW c, GridCall(callers'[c].call)
      PROVE  /\ TheArray(c, "ph_weight")' = ArrayAt(callers'[c].args, 1)
             /\ TheArray(c, "grid_lin")' = ArrayAt(callers'[c].args, 2)
             /\ GridSize(c)' = SizeIn(callers'[c].args)
  <2>1. /\ IntOf(c, "n_i", 0)' = IntAt(callers'[c].args, 3)
        /\ IntOf(c, "n_j", 0)' = IntAt(callers'[c].args, 4)
    <3>1. ArgOf(c, "n_i")' = callers'[c].args[3] /\ ArgOf(c, "n_j")' = callers'[c].args[4]
      BY <1>3, <1>5
    <3>2. IntOf(c, "n_i", 0)' = IF ArgOf(c, "n_i")' = {} THEN 0
                                 ELSE (CHOOSE v \in ArgOf(c, "n_i")' : TRUE).int
      BY DEF IntOf
    <3>3. IntOf(c, "n_j", 0)' = IF ArgOf(c, "n_j")' = {} THEN 0
                                 ELSE (CHOOSE v \in ArgOf(c, "n_j")' : TRUE).int
      BY DEF IntOf
    <3> QED BY <3>1, <3>2, <3>3 DEF IntAt
  <2>2. /\ GivenArray(c, "ph_weight")' = (CHOOSE v \in callers'[c].args[1] : TRUE).array
        /\ GivenArray(c, "grid_lin")' = (CHOOSE v \in callers'[c].args[2] : TRUE).array
    BY <1>3, <1>5 DEF GivenArray
  <2>3. /\ TheArray(c, "ph_weight")' = ArrayAt(callers'[c].args, 1)
        /\ TheArray(c, "grid_lin")' = ArrayAt(callers'[c].args, 2)
    BY <2>2 DEF TheArray, ArrayAt
  <2>4. GridSize(c)' = SizeIn(callers'[c].args)
    BY <2>1 DEF GridSize, SizeIn
  <2> QED BY <2>3, <2>4
<1> QED BY <1>4, <1>5 DEF Rows, Columns, Index, Shape, Indices

\* Arrays there are, and ints.
GridArgs(args) ==
    /\ Shape(args) \in Seq(Nat)
    /\ SizeIn(args) \in Int

GoodValue(value) == value.kind = "array" => value.array \in DOMAIN Arrays
GoodCall(call) ==
    /\ \A j \in 1..Len(call.pos) : GoodValue(call.pos[j])
    /\ \A j \in 1..Len(call.kw) : GoodValue(call.kw[j].value)

\* What the wrapper lets through.
LEMMA BoundArgs ==
    ASSUME NEW call, GridCall(call), GoodCall(call), NEW args \in Bind(call)
    PROVE  GridArgs(args)
<1> DEFINE params == AccumulateParams
<1>1. Signature[call.fn] = params
  BY DEF Signature, GridCall
<1>2. /\ Len(params) = 5
      /\ params[1].takes = "array" /\ params[1].needed = TRUE
      /\ params[3].takes = "int" /\ params[4].takes = "int"
  BY DEF AccumulateParams, Number, Optional, Param
<1> HIDE DEF params
<1>3. /\ args \in Values(params, call)
      /\ \A k \in 1..5 : /\ params[k].needed => args[k] # {}
                         /\ \A value \in args[k] : Converts(params[k], value)
  BY <1>1, <1>2 DEF Bind
<1>4. PICK named \in ParseKeywords(params, Len(call.pos), call.kw) :
          args = [k \in 1..5 |-> Positional(call, k) \union named[k]]
  BY <1>2, <1>3 DEF Values
<1>5. \A k \in 1..5 : \A value \in named[k] :
          \E j \in 1..Len(call.kw) : value = call.kw[j].value
  BY <1>2, <1>4 DEF ParseKeywords
<1>6. \A k \in 1..5 : \A value \in args[k] : GoodValue(value)
  <2> TAKE k \in 1..5
  <2> TAKE value \in args[k]
  <2>1. CASE value \in Positional(call, k)
    BY <2>1 DEF Positional, GoodCall
  <2>2. CASE value \in named[k]
    BY <1>5, <2>2 DEF GoodCall
  <2> QED BY <1>4, <2>1, <2>2
<1>7. Shape(args) \in Seq(Nat)
  <2> DEFINE v == CHOOSE v \in args[1] : TRUE
  <2>1. v \in args[1]
    BY <1>2, <1>3
  <2>2. Converts(params[1], v) /\ GoodValue(v)
    BY <1>3, <1>6, <2>1
  <2>3. v.array \in DOMAIN Arrays
    BY <1>2, <2>2 DEF Converts, ArgTypeTest, GoodValue
  <2> QED BY <2>3, ArraysAssumption DEF Shape, ArrayAt
<1>8. ASSUME NEW k \in {3, 4} PROVE IntAt(args, k) \in Int
  <2>1. CASE args[k] = {}
    BY <2>1 DEF IntAt
  <2>2. CASE args[k] # {}
    <3> DEFINE v == CHOOSE v \in args[k] : TRUE
    <3>1. v \in args[k]
      BY <2>2
    <3>2. Converts(params[k], v) /\ params[k].takes = "int"
      BY <1>2, <1>3, <3>1
    <3>3. v.int \in Int
      BY <3>2, IntLimitAssumption DEF Converts, AsInt
    <3> QED BY <2>2, <3>3 DEF IntAt
  <2> QED BY <2>1, <2>2
<1>9. SizeIn(args) \in Int
  <2> DEFINE x == IntAt(args, 3) * IntAt(args, 4)
  <2>1. x \in Int
    <3>1. IntAt(args, 3) \in Int /\ IntAt(args, 4) \in Int
      BY <1>8
    <3> HIDE DEF IntAt
    <3> QED BY <3>1
  <2> HIDE DEF x
  <2>2. x + IntLimit \in Int /\ 2 * IntLimit \in Nat \ {0}
    BY <2>1, IntLimitAssumption
  <2>3. (x + IntLimit) % (2 * IntLimit) \in Int
    BY <2>2
  <2>4. Wrap(x) \in Int
    BY <2>3, IntLimitAssumption DEF Wrap
  <2> QED BY <2>4 DEF SizeIn, x
<1> QED BY <1>7, <1>9 DEF GridArgs
----------------------------------------------------------------------------
(* The region of a caller.                                                  *)

WorkFields == {"sums", "team", "mids", "counts"}

InRegion(args, job) ==
    /\ TeamOK(Shape(args)[1], Shape(args)[2], job.team)
    /\ SumsOK(Shape(args)[1], Shape(args)[2], SizeIn(args), Indices(args), job.sums, job.team)
    /\ ReadOK(Indices(args), job.sums, job.team)

\* The sums of one thread that goes through the rows.
Sequential(args, sums) ==
    /\ DOMAIN sums = (0..(SizeIn(args) - 1)) \X (1..Shape(args)[2])
    /\ \A at \in DOMAIN sums :
          /\ sums[at] \in Seq(1..Shape(args)[1]) /\ Growing(sums[at])
          /\ Elements(sums[at]) = { r \in 1..Shape(args)[1] : Indices(args)[r] = at[1] }

\* The region is step 8 of the one body that has it.
GridInv(me, job) ==
    /\ me.stage \in {"running", "outside"} => GridArgs(me.args)
    /\ me.stage \in {"running", "outside"} /\ me.step > 1 => Len(Shape(me.args)) = 2
    /\ me.stage = "outside" => me.step = 8 /\ InRegion(me.args, job)
    /\ me.stage = "running" /\ me.step > 8 => Sequential(me.args, job.sums)
    /\ \A o \in me.outcome : o.kind = "value" =>
          \E sums : o.value = {[sums |-> sums]} /\ Sequential(me.args, sums)

CallerInv(me, job) ==
    /\ GoodCall(me.call)
    /\ DOMAIN job = WorkFields
    /\ me.outcome # {} => me.stage \in {"leaving", "ended"}
    /\ IF GridCall(me.call) THEN GridInv(me, job) ELSE me.stage # "outside"

RegionInv ==
    /\ DOMAIN work = Callers
    /\ \A c \in Callers : CallerInv(callers[c], work[c])

(* Where the steps of the bodies are.                                       *)

\* The first step of the grid is the buffer of the weights, the eighth its
\* region, and no other body has a region.
LEMMA RegionIsEighth ==
    ASSUME NEW c, callers[c].call.fn \in DOMAIN Signature
    PROVE  /\ GridCall(callers[c].call) =>
                 /\ Len(Body(c)) = 9
                 /\ Body(c)[1] = Buf("ph_weight")
                 /\ Body(c)[8] = Region
           /\ \A k \in 1..Len(Body(c)) :
                 Body(c)[k].do = "region" => GridCall(callers[c].call) /\ k = 8
           /\ \A k \in 1..Len(Body(c)) :
                 Body(c)[k].do = "fill" => Body(c)[k].of \in {"single", "midpoints", "counts"}
<1> USE DEF Buf, Python, View, Region, Fill
<1> DEFINE Other(body) ==
        \A k \in 1..Len(body) :
            /\ body[k].do # "region"
            /\ body[k].do = "fill" => body[k].of \in {"single", "midpoints", "counts"}
<1>1. /\ Len(AccumulateBody) = 9 /\ AccumulateBody[1] = Buf("ph_weight")
      /\ AccumulateBody[8] = Region
      /\ \A k \in 1..9 : /\ AccumulateBody[k].do = "region" => k = 8
                         /\ AccumulateBody[k].do # "fill"
  BY DEF AccumulateBody
<1>2. Other(GenericBody)
  BY DEF GenericBody
<1>3. Other(RowInvariantBody) /\ Other(CoherenceBody)
  BY DEF RowInvariantBody, CoherenceBody
<1>4. ASSUME NEW bins PROVE Other(HistogramBody(bins))
  BY DEF HistogramBody, HistogramStart
<1> HIDE DEF Other
<1>5. callers[c].call.fn \in {"accumulate_weighted_grid", "ps_topofit_batch_generic",
          "ps_topofit_batch_row_invariant", "ps_topofit_coh_row_invariant", "histogram_with_centers"}
  BY DEF Signature
<1>6. IF GridCall(callers[c].call) THEN Body(c) = AccumulateBody ELSE Other(Body(c))
  BY <1>2, <1>3, <1>4, <1>5 DEF Body, GridCall
<1>7. CASE GridCall(callers[c].call)
  BY <1>1, <1>6, <1>7
<1>8. CASE ~GridCall(callers[c].call)
  BY <1>6, <1>8 DEF Other
<1> QED BY <1>7, <1>8
----------------------------------------------------------------------------
(* What the steps do to a region.                                           *)

\* A step of one caller leaves the regions of the others alone.
LEMMA OthersKeep ==
    ASSUME RegionInv, NEW c \in Callers, Moves(c), DOMAIN work' = Callers,
           \A d \in Callers \ {c} : work'[d] = work[d],
           CallerInv(callers'[c], work'[c])
    PROVE  RegionInv'
<1>1. ASSUME NEW d \in Callers PROVE CallerInv(callers'[d], work'[d])
  <2>1. CASE d = c
    BY <2>1
  <2>2. CASE d # c
    BY <2>2 DEF RegionInv, Moves
  <2> QED BY <2>1, <2>2
<1> QED BY <1>1 DEF RegionInv

\* A caller that is not in its body has no region to speak of.
Away(c) ==
    /\ callers'[c].args = callers[c].args
    /\ callers'[c].outcome = callers[c].outcome
    /\ callers'[c].stage \notin {"running", "outside"}

\* A step on the way to the body, or out of it.
LEMMA AwayKeeps ==
    ASSUME RegionInv, NEW c \in Callers, Moves(c), Away(c), work' = work,
           callers[c].stage \in {"leaving", "ended"} => callers'[c].stage \in {"leaving", "ended"}
    PROVE  RegionInv'
<1>1. CallerInv(callers[c], work[c])
  BY DEF RegionInv
<1>2. CallerInv(callers'[c], work'[c])
  BY <1>1 DEF CallerInv, GridInv, Moves, Away
<1> QED BY <1>2, OthersKeep DEF RegionInv

\* A refused or failed call has no value.
LEMMA NoValueKeeps ==
    ASSUME CallersInv, RegionInv, NEW c \in Callers, NEW kind \in {"refused", "failed"},
           Out(c, kind, {}), work' = work
    PROVE  RegionInv'
<1>1. Moves(c)
  BY OutMoves DEF Staged
<1>2. /\ callers'[c].stage = "leaving"
      /\ callers'[c].outcome = {[kind |-> kind, value |-> {}]}
  BY DEF Out, CallersInv, CallerFields
<1>3. \A o \in callers'[c].outcome : o.kind # "value"
  BY <1>2
<1>4. CallerInv(callers[c], work[c])
  BY DEF RegionInv
<1>5. CallerInv(callers'[c], work'[c])
  BY <1>1, <1>2, <1>3, <1>4 DEF CallerInv, GridInv, Moves
<1> QED BY <1>1, <1>5, OthersKeep DEF RegionInv

\* The place of a running caller in its body.
LEMMA RunsAt ==
    ASSUME CallersInv, NEW c \in Callers, NEW do, At(c, do)
    PROVE  /\ callers[c].stage = "running" /\ callers[c].step \in 1..Len(Body(c))
           /\ callers[c].step \in Nat /\ callers[c].step >= 1
           /\ Body(c)[callers[c].step] = Step(c) /\ Step(c).do = do
           /\ callers[c].call.fn \in DOMAIN Signature
<1>1. HoldingInv(c) /\ callers[c].stage = "running" /\ Distinct(Body(c))
  BY StepsAreDistinct DEF CallersInv, At, Is
<1> QED BY <1>1 DEF Distinct, HoldingInv, CallersInv, At, Step

\* A step of a body inside the interpreter lock.
Onward(c) ==
    /\ callers'[c].args = callers[c].args
    /\ callers'[c].outcome = callers[c].outcome
    /\ callers'[c].stage = "running"
    /\ callers'[c].step = callers[c].step + 1

\* None of these steps is the region.
LEMMA OnwardKeeps ==
    ASSUME CallersInv, RegionInv, NEW c \in Callers, Moves(c), Onward(c),
           NEW do \in {"buffer", "python", "view", "fill"}, At(c, do),
           GridCall(callers[c].call) /\ callers[c].step = 1 => Len(Shape(callers[c].args)) = 2,
           DOMAIN work' = Callers, \A d \in Callers \ {c} : work'[d] = work[d],
           DOMAIN work'[c] = WorkFields, work'[c].sums = work[c].sums
    PROVE  RegionInv'
<1>1. CallerInv(callers[c], work[c])
  BY DEF RegionInv
<1>2. /\ callers[c].stage = "running" /\ callers[c].step \in 1..Len(Body(c))
      /\ callers[c].step \in Nat /\ callers[c].step >= 1
      /\ Body(c)[callers[c].step].do = do /\ callers[c].call.fn \in DOMAIN Signature
  BY RunsAt
<1>3. CASE ~GridCall(callers[c].call)
  <2>1. CallerInv(callers'[c], work'[c])
    BY <1>1, <1>2, <1>3 DEF CallerInv, Moves, Onward
  <2> QED BY <2>1, OthersKeep
<1>4. CASE GridCall(callers[c].call)
  <2>1. callers[c].step # 8
    <3> SUFFICES ASSUME callers[c].step = 8 PROVE FALSE
      OBVIOUS
    <3>1. Body(c)[8] = Region
      BY <1>2, <1>4, RegionIsEighth
    <3> QED BY <1>2, <3>1 DEF Region
  <2>2. GridInv(callers[c], work[c]) /\ callers[c].outcome = {}
    BY <1>1, <1>2, <1>4 DEF CallerInv
  <2>3. callers[c].step > 1 \/ callers[c].step = 1
    BY <1>2
  <2>4. callers'[c].step > 8 => callers[c].step > 8
    BY <1>2, <2>1 DEF Onward
  <2>5. GridInv(callers'[c], work'[c])
    BY <1>2, <1>4, <2>2, <2>3, <2>4 DEF GridInv, Onward
  <2>6. CallerInv(callers'[c], work'[c])
    BY <1>1, <1>4, <2>2, <2>5 DEF CallerInv, Moves, Onward
  <2> QED BY <2>6, OthersKeep
<1> QED BY <1>3, <1>4

\* Every step but those of the region.
LEMMA ImportRegion ==
    ASSUME CallersInv, RegionInv, NEW c \in Callers, Ask(c) \/ Import(c)
    PROVE  RegionInv'
<1>1. work' = work
  BY DEF Ask, Import, ImportListed, PymodCreate, PymodExec, PymodExecFails, Assign, ReturnModule
<1>2. CASE callers' = callers
  BY <1>1, <1>2 DEF RegionInv
<1>3. CASE Out(c, "failed", {})
  BY <1>1, <1>3, NoValueKeeps
<1>4. ASSUME NEW stage \in {"importing", "assigning", "returning", "binding"},
             callers[c].stage \in {"idle", "importing", "assigning", "returning"},
             \/ To(c, stage)
             \/ \E found : callers' = [callers EXCEPT ![c].found = found, ![c].stage = stage]
      PROVE  RegionInv'
  <2>1. \/ callers' = [callers EXCEPT ![c].stage = stage]
        \/ \E found : callers' = [callers EXCEPT ![c].found = found, ![c].stage = stage]
    BY <1>4 DEF To
  <2>2. /\ DOMAIN callers' = Callers /\ DOMAIN callers'[c] = CallerFields
        /\ callers'[c].stage = stage /\ callers'[c].call = callers[c].call
        /\ callers'[c].step = callers[c].step /\ callers'[c].args = callers[c].args
        /\ callers'[c].outcome = callers[c].outcome
        /\ \A d \in Callers \ {c} : callers'[d] = callers[d]
    <3>1. CASE callers' = [callers EXCEPT ![c].stage = stage]
      BY <3>1 DEF CallersInv, CallerFields
    <3>2. ASSUME NEW found, callers' = [callers EXCEPT ![c].found = found, ![c].stage = stage]
          PROVE  /\ DOMAIN callers' = Callers /\ DOMAIN callers'[c] = CallerFields
                 /\ callers'[c].stage = stage /\ callers'[c].call = callers[c].call
                 /\ callers'[c].step = callers[c].step /\ callers'[c].args = callers[c].args
                 /\ callers'[c].outcome = callers[c].outcome
                 /\ \A d \in Callers \ {c} : callers'[d] = callers[d]
      BY <3>2 DEF CallersInv, CallerFields
    <3> QED BY <2>1, <3>1, <3>2
  <2>3. Moves(c) /\ Away(c)
    BY <2>2 DEF CallersInv, Moves, Away, Stages
  <2> QED BY <1>1, <1>4, <2>2, <2>3, AwayKeeps
<1>5. \/ callers' = callers
      \/ Out(c, "failed", {})
      \/ /\ callers[c].stage \in {"idle", "importing", "assigning", "returning"}
         /\ \E stage \in {"importing", "assigning", "returning", "binding"} :
               \/ To(c, stage)
               \/ \E found : callers' = [callers EXCEPT ![c].found = found, ![c].stage = stage]
  <2>1. CASE Ask(c)
    BY <2>1 DEF Ask, To, Is
  <2>2. CASE Assign(c)
    BY <2>2 DEF Assign, Is
  <2>3. CASE ReturnModule(c)
    BY <2>3 DEF ReturnModule, Is
  <2>4. CASE ImportListed(c) \/ PymodExecFails(c)
    BY <2>4 DEF ImportListed, PymodExecFails, Imported, Is
  <2>5. CASE PymodCreate(c)
    BY <2>5 DEF PymodCreate, Imported, Is
  <2>6. CASE PymodExec(c)
    BY <2>6 DEF PymodExec, InitDone, Imported, Is
  <2> QED BY <2>1, <2>2, <2>3, <2>4, <2>5, <2>6 DEF Import
<1> QED BY <1>2, <1>3, <1>4, <1>5

\* The wrapper lets through arrays there are, and starts the body.
LEMMA BindRegion ==
    ASSUME CallersInv, RegionInv, NEW c \in Callers, BindArguments(c)
    PROVE  RegionInv'
<1>1. work' = work /\ callers[c].stage = "binding"
  BY DEF BindArguments, Is
<1>2. CASE Refuse(c)
  BY <1>1, <1>2, NoValueKeeps DEF Refuse
<1>3. ASSUME NEW args \in Bind(callers[c].call),
             callers' = [callers EXCEPT ![c].args = args, ![c].step = 1, ![c].stage = "running"]
      PROVE  RegionInv'
  <2>1. /\ Moves(c) /\ callers'[c].args = args /\ callers'[c].step = 1
        /\ callers'[c].stage = "running" /\ callers'[c].outcome = callers[c].outcome
    BY <1>3 DEF CallersInv, CallerFields, Moves, Stages
  <2>2. CallerInv(callers[c], work[c])
    BY DEF RegionInv
  <2>3. callers[c].outcome = {}
    BY <1>1, <2>2 DEF CallerInv
  <2>4. GridCall(callers[c].call) => GridArgs(args)
    BY <1>3, <2>2, BoundArgs DEF CallerInv
  <2>5. CallerInv(callers'[c], work'[c])
    BY <1>1, <2>1, <2>2, <2>3, <2>4 DEF CallerInv, GridInv, Moves
  <2> QED BY <1>1, <2>1, <2>5, OthersKeep DEF RegionInv
<1> QED BY <1>2, <1>3 DEF BindArguments

\* The next step of a body, in terms of the caller's fields.
LEMMA AdvanceOnward ==
    ASSUME CallersInv, NEW c \in Callers, NEW do, At(c, do), Advance(c)
    PROVE  Moves(c) /\ Onward(c)
BY RunsAt DEF Advance, CallersInv, CallerFields, Moves, Onward, Stages

\* Nothing but a buffer is the first step of the grid.
LEMMA FirstIsBuffer ==
    ASSUME CallersInv, NEW c \in Callers, NEW do, do # "buffer", At(c, do),
           GridCall(callers[c].call)
    PROVE  callers[c].step # 1
<1> SUFFICES ASSUME callers[c].step = 1 PROVE FALSE
  OBVIOUS
<1>1. Body(c)[1].do = do
  BY RunsAt
<1>2. Body(c)[1] = Buf("ph_weight")
  BY RunsAt, RegionIsEighth
<1> QED BY <1>1, <1>2 DEF Buf

\* Python is called.
LEMMA PythonRegion ==
    ASSUME CallersInv, RegionInv, NEW c \in Callers, CallPython(c)
    PROVE  RegionInv'
<1>1. work' = work /\ At(c, "python")
  BY DEF CallPython
<1>2. CASE Advance(c)
  <2>1. Moves(c) /\ Onward(c)
    BY <1>1, <1>2, AdvanceOnward
  <2>2. ~(GridCall(callers[c].call) /\ callers[c].step = 1)
    BY <1>1, FirstIsBuffer
  <2>3. DOMAIN work[c] = WorkFields /\ DOMAIN work = Callers
    BY DEF RegionInv, CallerInv
  <2> QED BY <1>1, <2>1, <2>2, <2>3, OnwardKeeps
<1>3. CASE Refuse(c) \/ Fail(c)
  BY <1>1, <1>3, NoValueKeeps DEF Refuse, Fail
<1> QED BY <1>2, <1>3 DEF CallPython

\* Filling a histogram is no step of the grid.
LEMMA FillRegion ==
    ASSUME CallersInv, RegionInv, NEW c \in Callers, FillArray(c)
    PROVE  RegionInv'
<1>1. At(c, "fill") /\ Advance(c)
  BY DEF FillArray
<1>2. Moves(c) /\ Onward(c)
  BY <1>1, AdvanceOnward
<1>3. ~(GridCall(callers[c].call) /\ callers[c].step = 1)
  BY <1>1, FirstIsBuffer
<1>4. DOMAIN work[c] = WorkFields /\ DOMAIN work = Callers
  BY DEF RegionInv, CallerInv
<1>5. Step(c).of \in {"single", "midpoints", "counts"}
  BY <1>1, RunsAt, RegionIsEighth
<1>6. \/ \E x : work' = [work EXCEPT ![c].counts = x]
      \/ \E x : work' = [work EXCEPT ![c].mids = x]
  BY <1>5 DEF FillArray
<1>7. /\ DOMAIN work' = Callers /\ \A d \in Callers \ {c} : work'[d] = work[d]
      /\ DOMAIN work'[c] = WorkFields /\ work'[c].sums = work[c].sums
  BY <1>4, <1>6 DEF WorkFields
<1> QED BY <1>1, <1>2, <1>3, <1>7, OnwardKeeps

\* A view is taken.
LEMMA ViewRegion ==
    ASSUME CallersInv, RegionInv, NEW c \in Callers, ToMemoryviewSlice(c)
    PROVE  RegionInv'
<1>1. work' = work /\ At(c, "view")
  BY DEF ToMemoryviewSlice
<1>2. CASE Refuse(c) \/ Fail(c)
  BY <1>1, <1>2, NoValueKeeps DEF Refuse, Fail
<1>3. ASSUME NEW name,
             callers' = [callers EXCEPT ![c].step = @ + 1, ![c].views = @ \union {name}]
      PROVE  RegionInv'
  <2>1. Moves(c) /\ Onward(c)
    BY <1>1, <1>3, RunsAt DEF CallersInv, CallerFields, Moves, Onward, Stages
  <2>2. ~(GridCall(callers[c].call) /\ callers[c].step = 1)
    BY <1>1, FirstIsBuffer
  <2>3. DOMAIN work[c] = WorkFields /\ DOMAIN work = Callers
    BY DEF RegionInv, CallerInv
  <2> QED BY <1>1, <2>1, <2>2, <2>3, OnwardKeeps
<1> QED BY <1>2, <1>3 DEF ToMemoryviewSlice

\* The first buffer shows that the weights have rows and columns.
LEMMA BufferRegion ==
    ASSUME CallersInv, RegionInv, NEW c \in Callers, GetBuffer(c)
    PROVE  RegionInv'
<1>1. work' = work /\ At(c, "buffer")
  BY DEF GetBuffer
<1>2. CASE Refuse(c)
  BY <1>1, <1>2, NoValueKeeps DEF Refuse
<1>3. ASSUME NEW name, name = Step(c).of,
             Validated(TheArray(c, name), Want(callers[c].call.fn, name)),
             callers' = [callers EXCEPT ![c].step = @ + 1, ![c].buffers = @ \union {name}]
      PROVE  RegionInv'
  <2>1. Moves(c) /\ Onward(c)
    BY <1>1, <1>3, RunsAt DEF CallersInv, CallerFields, Moves, Onward, Stages
  <2>2. ASSUME GridCall(callers[c].call), callers[c].step = 1
        PROVE  Len(Shape(callers[c].args)) = 2
    <3>1. name = "ph_weight"
      <4>1. Body(c)[1] = Buf("ph_weight") /\ Body(c)[1] = Step(c)
        BY <1>1, <2>2, RunsAt, RegionIsEighth
      <4> QED BY <1>3, <4>1 DEF Buf
    <3>2. Want("accumulate_weighted_grid", "ph_weight").ndim = 2
      <4> DEFINE given == { p \in ToSet(AccumulateParams) : p.name = "ph_weight" }
      <4>1. /\ \A p \in ToSet(AccumulateParams) :
                  p.name = "ph_weight" => p.ndim = 2
            /\ AccumulateParams[1] \in ToSet(AccumulateParams)
            /\ AccumulateParams[1].name = "ph_weight"
        <5>1. DOMAIN AccumulateParams = 1..5
          BY DEF AccumulateParams
        <5>2. /\ AccumulateParams[1].name = "ph_weight" /\ AccumulateParams[1].ndim = 2
              /\ AccumulateParams[2].name = "grid_lin" /\ AccumulateParams[3].name = "n_i"
              /\ AccumulateParams[4].name = "n_j" /\ AccumulateParams[5].name = "threads"
          BY DEF AccumulateParams, Param, Number, Optional
        <5>3. \A k \in 1..5 : k \in {1, 2, 3, 4, 5}
          OBVIOUS
        <5> HIDE DEF AccumulateParams
        <5> QED BY <5>1, <5>2, <5>3 DEF ToSet
      <4>2. given # {} /\ \A p \in given : p.ndim = 2
        BY <4>1
      <4>3. Signature["accumulate_weighted_grid"] = AccumulateParams
        BY DEF Signature
      <4> HIDE DEF given
      <4>4. Want("accumulate_weighted_grid", "ph_weight") = CHOOSE p \in given : TRUE
        BY <4>2, <4>3 DEF Want, given
      <4> QED BY <4>2, <4>4
    <3>3. TheArray(c, "ph_weight") = ArrayAt(callers[c].args, 1)
      BY <2>2, GridReads
    <3> QED BY <1>3, <2>2, <3>1, <3>2, <3>3 DEF Validated, Shape, GridCall
  <2>3. DOMAIN work[c] = WorkFields /\ DOMAIN work = Callers
    BY DEF RegionInv, CallerInv
  <2> QED BY <1>1, <2>1, <2>2, <2>3, OnwardKeeps
<1> QED BY <1>2, <1>3 DEF GetBuffer
\* The team starts with everything to do.
LEMMA SaveRegion ==
    ASSUME CallersInv, RegionInv, NEW c \in Callers, SaveThread(c)
    PROVE  RegionInv'
<1> DEFINE args == callers[c].args
           rows == Shape(args)[1]
           cols == Shape(args)[2]
<1>1. At(c, "region") /\ To(c, "outside")
  BY DEF SaveThread, GoOutside
<1>2. GridCall(callers[c].call) /\ callers[c].step = 8 /\ callers[c].stage = "running"
  BY <1>1, RunsAt, RegionIsEighth
<1>3. CallerInv(callers[c], work[c]) /\ DOMAIN work = Callers
  BY DEF RegionInv
<1>4. GridArgs(args) /\ Len(Shape(args)) = 2 /\ callers[c].outcome = {}
  BY <1>2, <1>3 DEF CallerInv, GridInv
<1>5. rows \in Nat /\ cols \in Nat
  BY <1>4 DEF GridArgs
<1>6. /\ Moves(c) /\ callers'[c].args = args /\ callers'[c].step = 8
      /\ callers'[c].stage = "outside" /\ callers'[c].outcome = {}
  BY <1>1, <1>2, <1>4 DEF To, CallersInv, CallerFields, Moves, Stages
<1>7. Rows(c) = rows /\ Columns(c) = cols /\ GridSize(c) = SizeIn(args)
  BY <1>2, GridReads
<1> HIDE DEF rows, cols, args
<1>8. PICK t \in 1..ThreadCount(c) :
          work' = [work EXCEPT
              ![c].sums = [at \in (0..(SizeIn(args) - 1)) \X (1..cols) |-> <<>>],
              ![c].team = [w \in 1..t |-> [left |-> Iterations(rows, cols, t, w), read |-> {}]]]
  BY <1>7 DEF SaveThread
<1> DEFINE team == [w \in 1..t |-> [left |-> Iterations(rows, cols, t, w), read |-> {}]]
           sums == [at \in (0..(SizeIn(args) - 1)) \X (1..cols) |-> <<>>]
<1>9. /\ DOMAIN work' = Callers /\ \A d \in Callers \ {c} : work'[d] = work[d]
      /\ DOMAIN work'[c] = WorkFields /\ work'[c].sums = sums /\ work'[c].team = team
  BY <1>3, <1>8 DEF CallerInv, WorkFields
<1>10. TeamOK(rows, cols, team) /\ Pending(team) = (1..rows) \X (1..cols)
  <2>1. t \in Nat \ {0}
    OBVIOUS
  <2> QED BY <1>5, <2>1, TeamStarts
<1>11. \A w \in DOMAIN team : team[w].read = {}
  OBVIOUS
<1> HIDE DEF team
<1>12. SumsOK(rows, cols, SizeIn(args), Indices(args), sums, team)
  BY <1>5, <1>10, SumsStart
<1>13. InRegion(args, work'[c])
  BY <1>9, <1>10, <1>11, <1>12 DEF InRegion, ReadOK, rows, cols
<1>14. CallerInv(callers'[c], work'[c])
  BY <1>2, <1>3, <1>4, <1>6, <1>9, <1>13 DEF CallerInv, GridInv, Moves
<1> QED BY <1>6, <1>9, <1>14, OthersKeep

\* A region that goes on.
LEMMA RegionGoesOn ==
    ASSUME CallersInv, RegionInv, NEW c \in Callers, callers[c].stage = "outside",
           callers' = callers, DOMAIN work' = Callers,
           \A d \in Callers \ {c} : work'[d] = work[d],
           DOMAIN work'[c] = WorkFields,
           InRegion(callers[c].args, work'[c])
    PROVE  RegionInv'
<1>1. CallerInv(callers[c], work[c])
  BY DEF RegionInv
<1>2. CallerInv(callers'[c], work'[c])
  BY <1>1 DEF CallerInv, GridInv
<1>3. Moves(c)
  BY DEF CallersInv, Moves
<1> QED BY <1>2, <1>3, OthersKeep

\* The region of a caller outside the interpreter lock.
LEMMA OutsideInRegion ==
    ASSUME RegionInv, NEW c \in Callers, callers[c].stage = "outside"
    PROVE  /\ GridCall(callers[c].call) /\ InRegion(callers[c].args, work[c])
           /\ Shape(callers[c].args)[1] \in Nat /\ Shape(callers[c].args)[2] \in Nat
           /\ callers[c].step = 8 /\ GridArgs(callers[c].args)
           /\ DOMAIN work = Callers /\ DOMAIN work[c] = WorkFields
<1>1. CallerInv(callers[c], work[c])
  BY DEF RegionInv
<1>2. GridCall(callers[c].call) /\ GridInv(callers[c], work[c])
  BY <1>1 DEF CallerInv
<1>3. GridArgs(callers[c].args) /\ Len(Shape(callers[c].args)) = 2
  BY <1>2 DEF GridInv
<1>4. Shape(callers[c].args)[1] \in Nat /\ Shape(callers[c].args)[2] \in Nat
  BY <1>3 DEF GridArgs
<1> QED BY <1>1, <1>2, <1>3, <1>4 DEF GridInv, CallerInv, RegionInv

\* A worker reads the sum of its next iteration, or leaves it out.
LEMMA ReadRegion ==
    ASSUME CallersInv, RegionInv, NEW c \in Callers, NEW w \in DOMAIN work[c].team, ReadSum(c, w)
    PROVE  RegionInv'
<1> DEFINE args == callers[c].args
           rows == Shape(args)[1]
           cols == Shape(args)[2]
           index == Indices(args)
           sums == work[c].sums
           team == work[c].team
           first == Head(team[w].left)
<1>1. callers[c].stage = "outside" /\ callers' = callers
  BY DEF ReadSum, Is
<1>2. /\ GridCall(callers[c].call) /\ rows \in Nat /\ cols \in Nat /\ GridArgs(args)
      /\ TeamOK(rows, cols, team) /\ SumsOK(rows, cols, SizeIn(args), index, sums, team)
      /\ ReadOK(index, sums, team)
      /\ DOMAIN work = Callers /\ DOMAIN work[c] = WorkFields
  BY <1>1, OutsideInRegion DEF InRegion
<1>3. /\ GridSize(c) = SizeIn(args) /\ \A r : Index(c, r) = index[r]
  BY <1>2, GridReads
<1>4. team[w].left # <<>> /\ team[w].read = {}
  BY DEF ReadSum, Worker
<1>5. DOMAIN team[w] = {"left", "read"}
  BY <1>2 DEF TeamOK
<1>6. CASE InGrid(c, first[1])
  <2> DEFINE next == [team EXCEPT ![w].read = {sums[CellAt(index, first)]}]
  <2>1. work' = [work EXCEPT ![c].team[w].read = {sums[CellAt(index, first)]}]
    BY <1>3, <1>6, Zenon DEF ReadSum, Next1, Worker, CellOf, CellAt
  <2>2. /\ DOMAIN work' = Callers /\ \A d \in Callers \ {c} : work'[d] = work[d]
        /\ DOMAIN work'[c] = WorkFields /\ work'[c].sums = sums /\ work'[c].team = next
    BY <1>2, <2>1 DEF WorkFields
  <2>3. /\ DOMAIN next = DOMAIN team
        /\ \A v \in DOMAIN team : DOMAIN next[v] = DOMAIN team[v] /\ next[v].left = team[v].left
        /\ \A v \in DOMAIN team \ {w} : next[v] = team[v]
        /\ next[w].read = {sums[CellAt(index, first)]}
    BY <1>5
  <2> HIDE DEF next, rows, cols, index, sums
  <2>4. TeamOK(rows, cols, next) /\ Pending(next) = Pending(team)
    BY <1>2, <2>3 DEF TeamOK, Pending
  <2>5. SumsOK(rows, cols, SizeIn(args), index, sums, next)
    BY <1>2, <2>4 DEF SumsOK
  <2>6. ReadOK(index, sums, next)
    BY <1>2, <1>4, <2>3 DEF ReadOK
  <2>7. InRegion(args, work'[c])
    BY <2>2, <2>4, <2>5, <2>6 DEF InRegion, rows, cols, index, sums
  <2> QED BY <1>1, <2>2, <2>7, RegionGoesOn
<1>7. CASE ~InGrid(c, first[1])
  <2> DEFINE next == [team EXCEPT ![w].left = Tail(@)]
  <2>1. work' = [work EXCEPT ![c].team[w].left = Tail(@)]
    BY <1>7 DEF ReadSum, Next1, Worker
  <2>2. /\ DOMAIN work' = Callers /\ \A d \in Callers \ {c} : work'[d] = work[d]
        /\ DOMAIN work'[c] = WorkFields /\ work'[c].sums = sums /\ work'[c].team = next
    BY <1>2, <2>1 DEF WorkFields
  <2>3. Takes(team, next, w)
    <3>1. /\ DOMAIN next = DOMAIN team /\ \A v \in DOMAIN team \ {w} : next[v] = team[v]
          /\ DOMAIN next[w] = DOMAIN team[w]
          /\ next[w].left = Tail(team[w].left) /\ next[w].read = team[w].read
      BY <1>5
    <3> QED BY <1>4, <1>5, <3>1 DEF Takes
  <2>4. \A at \in DOMAIN sums : index[first[1]] # at[1]
    <3> SUFFICES ASSUME NEW at \in DOMAIN sums, index[first[1]] = at[1] PROVE FALSE
      OBVIOUS
    <3>1. at[1] \in 0..(SizeIn(args) - 1) /\ SizeIn(args) \in Int
      BY <1>2 DEF SumsOK, GridArgs
    <3>2. 0 <= at[1] /\ at[1] < SizeIn(args)
      BY <3>1
    <3> QED BY <1>3, <1>7, <3>2 DEF InGrid
  <2> HIDE DEF next, rows, cols, index, sums, team
  <2>5. TeamOK(rows, cols, next) /\ Pending(next) = Pending(team) \ {first}
    BY <1>2, <1>4, <2>3, TeamTakes DEF team
  <2>6. SumsOK(rows, cols, SizeIn(args), index, sums, next)
    BY <1>2, <2>4, <2>5, SumsSkip
  <2>7. ReadOK(index, sums, next)
    BY <1>2, <2>3 DEF ReadOK, Takes
  <2>8. InRegion(args, work'[c])
    BY <2>2, <2>5, <2>6, <2>7 DEF InRegion, rows, cols, index, sums
  <2> QED BY <1>1, <2>2, <2>8, RegionGoesOn
<1> QED BY <1>6, <1>7

\* A worker adds to the sum it has read, and the columns of the others stay.
LEMMA WriteRegion ==
    ASSUME CallersInv, RegionInv, NEW c \in Callers, NEW w \in DOMAIN work[c].team, WriteSum(c, w)
    PROVE  RegionInv'
<1> DEFINE args == callers[c].args
           rows == Shape(args)[1]
           cols == Shape(args)[2]
           index == Indices(args)
           sums == work[c].sums
           team == work[c].team
           first == Head(team[w].left)
           cell == CellAt(index, first)
           now == [sums EXCEPT ![cell] = Append(sums[cell], first[1])]
           next == [team EXCEPT ![w] = [left |-> Tail(@.left), read |-> {}]]
<1>1. callers[c].stage = "outside" /\ callers' = callers /\ team[w].read # {}
  BY DEF WriteSum, Is, Worker
<1>2. /\ GridCall(callers[c].call) /\ rows \in Nat /\ cols \in Nat
      /\ TeamOK(rows, cols, team) /\ SumsOK(rows, cols, SizeIn(args), index, sums, team)
      /\ ReadOK(index, sums, team)
      /\ DOMAIN work = Callers /\ DOMAIN work[c] = WorkFields
  BY <1>1, OutsideInRegion DEF InRegion
<1> HIDE DEF next, now, rows, cols
<1>3. \A at : CellOf(c, at) = CellAt(index, at)
  BY <1>2, GridReads DEF CellOf, CellAt
<1>4. team[w].left # <<>> /\ team[w].read = {sums[cell]}
  BY <1>1, <1>2 DEF ReadOK
<1>5. PICK sum \in team[w].read :
          work' = [work EXCEPT ![c].sums[CellOf(c, first)] = Append(sum, first[1]),
                               ![c].team[w] = [left |-> Tail(@.left), read |-> {}]]
  BY Zenon DEF WriteSum, Worker, Next1
<1> HIDE DEF index, sums, first, cell
<1>6. work' = [work EXCEPT ![c].sums[cell] = Append(sums[cell], first[1]),
                           ![c].team[w] = [left |-> Tail(@.left), read |-> {}]]
  BY <1>3, <1>4, <1>5, Zenon DEF cell
<1>7. /\ DOMAIN work' = Callers /\ \A d \in Callers \ {c} : work'[d] = work[d]
      /\ DOMAIN work'[c] = WorkFields /\ work'[c].sums = now /\ work'[c].team = next
  BY <1>2, <1>6, Zenon DEF WorkFields, now, next, sums
<1>8. Takes(team, next, w) /\ w \in DOMAIN team
  BY DEF Takes, next
<1>9. \A at : at # cell => now[at] = sums[at]
  BY DEF now
<1> HIDE DEF team
<1>10. /\ TeamOK(rows, cols, next) /\ Pending(next) = Pending(team) \ {first}
       /\ first \in Pending(team) /\ first \in (1..rows) \X (1..cols)
       /\ \A r \in 1..rows : r > first[1] => <<r, first[2]>> \in Pending(team)
       /\ \A v \in DOMAIN team \ {w} : team[v].left # <<>> => Head(team[v].left)[2] # first[2]
  BY <1>2, <1>4, <1>8, TeamTakes DEF first
<1>11. SumsOK(rows, cols, SizeIn(args), index, now, next)
  BY <1>2, <1>10, SumsTake DEF now, cell
<1>12. ReadOK(index, now, next)
  <2> SUFFICES ASSUME NEW v \in DOMAIN next, next[v].read # {}
               PROVE  /\ next[v].left # <<>>
                      /\ next[v].read = {now[CellAt(index, Head(next[v].left))]}
    BY DEF ReadOK
  <2>1. v \in DOMAIN team \ {w} /\ next[v] = team[v]
    BY <1>8 DEF Takes
  <2>2. team[v].left # <<>> /\ team[v].read = {sums[CellAt(index, Head(team[v].left))]}
    BY <1>2, <2>1 DEF ReadOK
  <2>3. CellAt(index, Head(team[v].left))[2] # cell[2]
    BY <1>10, <2>1, <2>2 DEF CellAt, cell
  <2>4. CellAt(index, Head(team[v].left)) # cell
    BY <2>3
  <2> QED BY <1>9, <2>1, <2>2, <2>4
<1>13. InRegion(args, work'[c])
  BY <1>7, <1>10, <1>11, <1>12 DEF InRegion, rows, cols, index
<1> QED BY <1>1, <1>7, <1>13, RegionGoesOn DEF args

\* When the team joins nothing is left to do, and the sums are complete.
LEMMA RestoreRegion ==
    ASSUME CallersInv, RegionInv, NEW c \in Callers, RestoreThread(c)
    PROVE  RegionInv'
<1> DEFINE args == callers[c].args
           job == work[c]
<1>1. /\ callers[c].stage = "outside" /\ work' = work
      /\ callers' = [callers EXCEPT ![c].stage = "running", ![c].step = @ + 1]
      /\ \A w \in DOMAIN job.team : job.team[w].left = <<>>
  BY DEF RestoreThread, Is, Worker
<1>2. /\ GridCall(callers[c].call) /\ InRegion(args, job) /\ callers[c].step = 8
      /\ GridArgs(args)
  BY <1>1, OutsideInRegion
<1>3. /\ Moves(c) /\ callers'[c].args = args /\ callers'[c].step = 9
      /\ callers'[c].stage = "running" /\ callers'[c].outcome = callers[c].outcome
  BY <1>1, <1>2 DEF CallersInv, CallerFields, Moves, Stages
<1>4. Pending(job.team) = {}
  BY <1>1 DEF Pending, Elements
<1>5. Sequential(args, job.sums)
  BY <1>2, <1>4 DEF InRegion, SumsOK, Sequential
<1>6. CallerInv(callers[c], job)
  BY DEF RegionInv
<1>7. Len(Shape(args)) = 2 /\ callers[c].outcome = {}
  BY <1>1, <1>2, <1>6 DEF CallerInv, GridInv
<1>8. CallerInv(callers'[c], work'[c])
  BY <1>1, <1>2, <1>3, <1>5, <1>6, <1>7 DEF CallerInv, GridInv, Moves
<1> QED BY <1>1, <1>3, <1>8, OthersKeep DEF RegionInv

\* The value is made of the sums.
LEMMA ReturnRegion ==
    ASSUME CallersInv, RegionInv, NEW c \in Callers, ReturnValue(c)
    PROVE  RegionInv'
<1>1. /\ callers[c].stage = "running" /\ callers[c].step > Len(Body(c)) /\ work' = work
      /\ Out(c, "value", {ResultOf(c)})
  BY DEF ReturnValue, Is
<1>2. Moves(c)
  BY <1>1, OutMoves DEF Staged
<1>3. /\ callers'[c].stage = "leaving" /\ callers'[c].args = callers[c].args
      /\ callers'[c].outcome = {[kind |-> "value", value |-> {ResultOf(c)}]}
  BY <1>1 DEF Out, CallersInv, CallerFields
<1>4. CallerInv(callers[c], work[c])
  BY DEF RegionInv
<1>5. CASE ~GridCall(callers[c].call)
  <2>1. CallerInv(callers'[c], work'[c])
    BY <1>1, <1>2, <1>3, <1>4, <1>5 DEF CallerInv, Moves
  <2> QED BY <1>1, <1>2, <2>1, OthersKeep DEF RegionInv
<1>6. CASE GridCall(callers[c].call)
  <2>1. Len(Body(c)) = 9 /\ callers[c].step \in Nat
    BY <1>6, RegionIsEighth DEF CallersInv
  <2>2. Sequential(callers[c].args, work[c].sums)
    BY <1>1, <1>4, <1>6, <2>1 DEF CallerInv, GridInv
  <2>3. ResultOf(c) = [sums |-> work[c].sums]
    BY <1>6 DEF ResultOf, GridCall
  <2>4. \A o \in callers'[c].outcome : o.value = {[sums |-> work[c].sums]}
    BY <1>3, <2>3
  <2>5. GridInv(callers'[c], work'[c])
    BY <1>3, <2>2, <2>4 DEF GridInv
  <2>6. CallerInv(callers'[c], work'[c])
    BY <1>1, <1>2, <1>3, <1>4, <1>6, <2>5 DEF CallerInv, Moves
  <2> QED BY <1>1, <1>2, <2>6, OthersKeep DEF RegionInv
<1> QED BY <1>5, <1>6

\* The way out changes no value.
LEMMA LeaveRegion ==
    ASSUME CallersInv, RegionInv, NEW c \in Callers, Leave(c)
    PROVE  RegionInv'
<1>1. /\ callers[c].stage = "leaving" /\ work' = work
      /\ \/ \E name : callers' = [callers EXCEPT ![c].buffers = @ \ {name}]
         \/ \E name : callers' = [callers EXCEPT ![c].views = @ \ {name}]
         \/ To(c, "ended")
  BY DEF Leave, GiveBuffer, GiveView, Is
<1>2. /\ Moves(c) /\ callers'[c].stage \in {"leaving", "ended"}
      /\ callers'[c].args = callers[c].args /\ callers'[c].outcome = callers[c].outcome
  BY <1>1 DEF To, CallersInv, CallerFields, Moves, Stages
<1> QED BY <1>1, <1>2, AwayKeeps DEF Away

\* Before the first call there is no region.
LEMMA InitRegion ==
    ASSUME Init
    PROVE  RegionInv
<1>1. PICK plan \in Plans : callers = [c \in Callers |-> Idle(plan[c])]
  BY DEF Init
<1>2. ASSUME NEW c \in Callers PROVE CallerInv(callers[c], work[c])
  <2>1. /\ callers[c].call = plan[c] /\ callers[c].stage = "idle" /\ callers[c].outcome = {}
    BY <1>1 DEF Idle
  <2>2. DOMAIN work[c] = WorkFields
    BY DEF Init, NoWork, WorkFields
  <2>3. GoodCall(plan[c])
    BY ArraysAssumption DEF GoodCall, GoodValue, Given
  <2> QED BY <2>1, <2>2, <2>3 DEF CallerInv, GridInv
<1> QED BY <1>2 DEF Init, RegionInv

\* Every step keeps the regions in order.
LEMMA NextKeepsRegions ==
    ASSUME CallersInv, RegionInv, [Next]_vars
    PROVE  RegionInv'
<1>1. CASE UNCHANGED vars
  BY <1>1 DEF vars, RegionInv
<1>2. ASSUME NEW c \in Callers, TakeGil(c) PROVE RegionInv'
  BY <1>2 DEF TakeGil, RegionInv
<1>3. ASSUME NEW c \in Callers, RestoreThread(c) \/ Ask(c) \/ Import(c) PROVE RegionInv'
  BY <1>3, RestoreRegion, ImportRegion
<1>4. ASSUME NEW c \in Callers, Serve(c) PROVE RegionInv'
  BY <1>4, BindRegion, BufferRegion, PythonRegion, ViewRegion, SaveRegion, FillRegion,
     ReturnRegion, LeaveRegion DEF Serve
<1>5. ASSUME NEW c \in Callers, NEW w \in DOMAIN work[c].team, ReadSum(c, w) \/ WriteSum(c, w)
      PROVE  RegionInv'
  BY <1>5, ReadRegion, WriteRegion
<1> QED BY <1>1, <1>2, <1>3, <1>4, <1>5 DEF Next

\* Regions are in order in every state.
LEMMA RegionInvariance == Spec => [](IInv /\ RegionInv)
<1>1. Init => IInv /\ RegionInv
  BY InitIInv, InitRegion
<1>2. IInv /\ RegionInv /\ [Next]_vars => IInv' /\ RegionInv'
  BY NextKeeps, NextKeepsRegions DEF IInv
<1> QED BY <1>1, <1>2, PTL DEF Spec

\* What a worker has read of a sum is what the sum still is when it writes:
\* the workers of a team are in different columns.
NoLostAddition ==
    \A c \in Callers : Is(c, "outside") =>
        \A w \in DOMAIN work[c].team : Worker(c, w).read # {} =>
            Worker(c, w).read = {work[c].sums[CellOf(c, Next1(c, w))]}

\* No addition is lost between a read and a write, for any number of rows,
\* columns and workers.
THEOREM AdditionsAreKept == Spec => []NoLostAddition
<1>1. ASSUME RegionInv, NEW c \in Callers, Is(c, "outside"), NEW w \in DOMAIN work[c].team,
             Worker(c, w).read # {}
      PROVE  Worker(c, w).read = {work[c].sums[CellOf(c, Next1(c, w))]}
  <2>1. GridCall(callers[c].call) /\ InRegion(callers[c].args, work[c])
    BY <1>1, OutsideInRegion DEF Is
  <2>2. \A at : CellOf(c, at) = CellAt(Indices(callers[c].args), at)
    BY <2>1, GridReads DEF CellOf, CellAt
  <2> QED BY <1>1, <2>1, <2>2 DEF InRegion, ReadOK, Worker, Next1
<1>2. RegionInv => NoLostAddition
  BY <1>1 DEF NoLostAddition
<1> QED BY <1>2, RegionInvariance, PTL

\* The value of accumulate_weighted_grid has in every sum the rows of its
\* cell, each once and in the order of the rows: whatever the team, the sums
\* are those of one thread.
SequentialGrids ==
    \A c \in Callers : callers[c].call.fn = "accumulate_weighted_grid" =>
        \A o \in callers[c].outcome : o.kind = "value" =>
            \E sums : /\ o.value = {[sums |-> sums]}
                      /\ DOMAIN sums = (0..(GridSize(c) - 1)) \X (1..Columns(c))
                      /\ \A at \in DOMAIN sums :
                            /\ sums[at] \in Seq(1..Rows(c)) /\ Growing(sums[at])
                            /\ Elements(sums[at]) = { r \in 1..Rows(c) : Index(c, r) = at[1] }

\* The grid does not depend on the team that adds it up, nor on the threads
\* beside it.
THEOREM GridsAreSequential == Spec => []SequentialGrids
<1>1. ASSUME RegionInv, NEW c \in Callers, callers[c].call.fn = "accumulate_weighted_grid",
             NEW o \in callers[c].outcome, o.kind = "value"
      PROVE  \E sums : /\ o.value = {[sums |-> sums]}
                       /\ DOMAIN sums = (0..(GridSize(c) - 1)) \X (1..Columns(c))
                       /\ \A at \in DOMAIN sums :
                             /\ sums[at] \in Seq(1..Rows(c)) /\ Growing(sums[at])
                             /\ Elements(sums[at]) = { r \in 1..Rows(c) : Index(c, r) = at[1] }
  <2>1. GridCall(callers[c].call) /\ CallerInv(callers[c], work[c])
    BY <1>1 DEF GridCall, RegionInv
  <2>2. PICK sums : o.value = {[sums |-> sums]} /\ Sequential(callers[c].args, sums)
    BY <1>1, <2>1 DEF CallerInv, GridInv
  <2>3. /\ Rows(c) = Shape(callers[c].args)[1] /\ Columns(c) = Shape(callers[c].args)[2]
        /\ GridSize(c) = SizeIn(callers[c].args)
        /\ \A r : Index(c, r) = Indices(callers[c].args)[r]
    BY <2>1, GridReads
  <2> QED BY <2>2, <2>3 DEF Sequential
<1>2. RegionInv => SequentialGrids
  BY <1>1 DEF SequentialGrids
<1> QED BY <1>2, RegionInvariance, PTL

----------------------------------------------------------------------------
(* Calls of the extension are what PureCalls promises.                      *)
(*                                                                          *)
(* First, without the state: a call binds exactly if the promise finds it   *)
(* well; the steps of its body pass exactly if it may return; and what it   *)
(* makes of its arrays then is a result of the promise.  Then the invariant *)
(* of the callers, PromiseInv, beside the one above: which steps have       *)
(* passed, what has been filled in, and why a call that ends without a      *)
(* value may do so.  In the end every step is a step of the promise, or     *)
(* none.                                                                    *)

------------------------------------------------------------
(* The promise: what a call is refused for.                                 *)

\* What is assumed of a planned call, and of the parameters of a function.
CallOK(call) ==
    /\ call.fn \in DOMAIN Signature
    /\ Len(call.pos) \in Nat /\ Len(call.kw) \in Nat
    /\ \A j, k \in 1..Len(call.kw) : call.kw[j].name = call.kw[k].name => j = k
    /\ \A value \in Given(call) : value.kind = "int" => value.int \in Int
    /\ \A value \in Given(call) : value.kind = "array" => value.array \in DOMAIN Arrays

ItemsOK(param) ==
    \/ param.dtype = "complex64" /\ param.item = Complex64
    \/ param.dtype = "complex128" /\ param.item = Complex128
    \/ param.dtype = "float64" /\ param.item = Float64
    \/ param.dtype = "int64" /\ param.item = Int64

ParamOK(param) ==
    /\ param.takes \in {"int", "double", "array"}
    /\ param.needed \in BOOLEAN /\ param.viewed \in BOOLEAN
    /\ param.name \notin {"out", "mids"}
    /\ param.takes = "array" => param.needed /\ ItemsOK(param)

ParamsOK(params) ==
    /\ Len(params) \in Nat
    /\ \A k \in 1..Len(params) : ParamOK(params[k])
    /\ \A j, k \in 1..Len(params) : params[j].name = params[k].name => j = k

\* The parameters of the exported functions have names of their own and known
\* types.
LEMMA ParamsAreKnown ==
    ASSUME NEW fn \in DOMAIN Signature
    PROVE  ParamsOK(Signature[fn])
<1> USE DEF Param, Number, Optional
<1>1. ParamsOK(AccumulateParams)
  <2>1. /\ Len(AccumulateParams) = 5
        /\ AccumulateParams[1].name = "ph_weight" /\ AccumulateParams[2].name = "grid_lin"
        /\ AccumulateParams[3].name = "n_i" /\ AccumulateParams[4].name = "n_j"
        /\ AccumulateParams[5].name = "threads"
    BY DEF AccumulateParams
  <2>2. ParamOK(AccumulateParams[1]) /\ ParamOK(AccumulateParams[2])
    BY DEF AccumulateParams, ParamOK, ItemsOK
  <2>3. /\ ParamOK(AccumulateParams[3]) /\ ParamOK(AccumulateParams[4])
        /\ ParamOK(AccumulateParams[5])
    BY DEF AccumulateParams, ParamOK
  <2>4. \A k \in 1..5 : k \in {1, 2, 3, 4, 5}
    OBVIOUS
  <2> QED BY <2>1, <2>2, <2>3, <2>4 DEF ParamsOK
<1>2. ASSUME NEW bperp \in {"bperp", "bperp_vec"}, NEW ndim
      PROVE  ParamsOK(TopofitParams(bperp, ndim))
  <2> DEFINE params == TopofitParams(bperp, ndim)
  <2>1. /\ Len(params) = 4
        /\ params[1].name = "cpxphase" /\ params[2].name = bperp
        /\ params[3].name = "n_trial_wraps" /\ params[4].name = "threads"
    BY DEF TopofitParams
  <2>2. ParamOK(params[1]) /\ ParamOK(params[2])
    BY DEF TopofitParams, ParamOK, ItemsOK
  <2>3. ParamOK(params[3]) /\ ParamOK(params[4])
    BY DEF TopofitParams, ParamOK
  <2> HIDE DEF params
  <2>4. \A k \in 1..4 : k \in {1, 2, 3, 4}
    OBVIOUS
  <2>5. ParamsOK(params)
    BY <2>1, <2>2, <2>3, <2>4 DEF ParamsOK
  <2> QED BY <2>5 DEF params
<1>3. ParamsOK(HistogramParams)
  <2>1. /\ Len(HistogramParams) = 2
        /\ HistogramParams[1].name = "values" /\ HistogramParams[2].name = "centers"
    BY DEF HistogramParams
  <2>2. ParamOK(HistogramParams[1]) /\ ParamOK(HistogramParams[2])
    BY DEF HistogramParams, ParamOK, ItemsOK
  <2> QED BY <2>1, <2>2 DEF ParamsOK
<1>4. fn \in {"accumulate_weighted_grid", "ps_topofit_batch_generic",
          "ps_topofit_batch_row_invariant", "ps_topofit_coh_row_invariant",
          "histogram_with_centers"}
  BY DEF Signature
<1> QED BY <1>1, <1>2, <1>3, <1>4 DEF Signature, GenericParams, RowInvariantParams, CoherenceParams

\* A format that suits an item for the code holds it for the promise.
LEMMA FormatsAgree ==
    ASSUME NEW format, format.order \in {"@", "=", "<", ">"},
           format.code \in DOMAIN TypeCharToGroup,
           NEW param, ItemsOK(param)
    PROVE  CheckString(format, param.item)
             <=> <<format.order, format.code>> \in Promised!FormatsOf(param.dtype)
<1> DEFINE code == format.code
           order == format.order
<1>1. code \in {"i", "l", "q", "L", "f", "d", "Zf", "Zd"}
  BY DEF TypeCharToGroup
<1>2. ASSUME NEW dtype
      PROVE  /\ dtype = "complex64" => Promised!FormatsOf(dtype) = {"@", "=", "<"} \X {"Zf"}
             /\ dtype = "complex128" => Promised!FormatsOf(dtype) = {"@", "=", "<"} \X {"Zd"}
             /\ dtype = "float64" => Promised!FormatsOf(dtype) = {"@", "=", "<"} \X {"d"}
             /\ dtype = "int64" => Promised!FormatsOf(dtype)
                                     = {<<"@", "l">>} \union ({"@", "=", "<"} \X {"q"})
  BY DEF Promised!FormatsOf
<1>3. ASSUME NEW group, NEW size
      PROVE  CheckString(format, [group |-> group, size |-> size])
               <=> /\ order # ">" /\ TypeCharToGroup[code] = group
                   /\ size = (IF order = "@" THEN TypeCharToNativeSize
                              ELSE TypeCharToStandardSize)[code]
  BY DEF CheckString
<1>4. /\ code = "i" => /\ TypeCharToGroup[code] = "I" /\ TypeCharToNativeSize[code] = 4
                       /\ TypeCharToStandardSize[code] = 4
      /\ code = "l" => /\ TypeCharToGroup[code] = "I" /\ TypeCharToNativeSize[code] = 8
                       /\ TypeCharToStandardSize[code] = 4
      /\ code = "q" => /\ TypeCharToGroup[code] = "I" /\ TypeCharToNativeSize[code] = 8
                       /\ TypeCharToStandardSize[code] = 8
      /\ code = "L" => TypeCharToGroup[code] = "U"
      /\ code = "f" => /\ TypeCharToGroup[code] = "R" /\ TypeCharToNativeSize[code] = 4
                       /\ TypeCharToStandardSize[code] = 4
      /\ code = "d" => /\ TypeCharToGroup[code] = "R" /\ TypeCharToNativeSize[code] = 8
                       /\ TypeCharToStandardSize[code] = 8
      /\ code = "Zf" => /\ TypeCharToGroup[code] = "C" /\ TypeCharToNativeSize[code] = 8
                        /\ TypeCharToStandardSize[code] = 8
      /\ code = "Zd" => /\ TypeCharToGroup[code] = "C" /\ TypeCharToNativeSize[code] = 16
                        /\ TypeCharToStandardSize[code] = 16
  <2> HIDE DEF code
  <2>1. \A x \in {"i", "l", "q", "L", "f", "d", "Zf", "Zd"} :
            TypeCharToStandardSize[x] = IF x \in {"l", "L"} THEN 4 ELSE TypeCharToNativeSize[x]
    BY DEF TypeCharToNativeSize, TypeCharToStandardSize
  <2>2. /\ TypeCharToNativeSize["i"] = 4 /\ TypeCharToNativeSize["l"] = 8
        /\ TypeCharToNativeSize["q"] = 8 /\ TypeCharToNativeSize["f"] = 4
        /\ TypeCharToNativeSize["d"] = 8 /\ TypeCharToNativeSize["Zf"] = 8
        /\ TypeCharToNativeSize["Zd"] = 16
    BY DEF TypeCharToNativeSize
  <2>3. /\ TypeCharToGroup["i"] = "I" /\ TypeCharToGroup["l"] = "I"
        /\ TypeCharToGroup["q"] = "I" /\ TypeCharToGroup["L"] = "U"
        /\ TypeCharToGroup["f"] = "R" /\ TypeCharToGroup["d"] = "R"
        /\ TypeCharToGroup["Zf"] = "C" /\ TypeCharToGroup["Zd"] = "C"
    BY DEF TypeCharToGroup
  <2> QED BY <2>1, <2>2, <2>3
<1> HIDE DEF code, order
<1>5. CASE param.dtype = "complex64" /\ param.item = Complex64
  BY <1>1, <1>2, <1>3, <1>4, <1>5 DEF Complex64, code, order
<1>6. CASE param.dtype = "complex128" /\ param.item = Complex128
  BY <1>1, <1>2, <1>3, <1>4, <1>6 DEF Complex128, code, order
<1>7. CASE param.dtype = "float64" /\ param.item = Float64
  BY <1>1, <1>2, <1>3, <1>4, <1>7 DEF Float64, code, order
<1>8. CASE param.dtype = "int64" /\ param.item = Int64
  BY <1>1, <1>2, <1>3, <1>4, <1>8 DEF Int64, code, order
<1> QED BY <1>5, <1>6, <1>7, <1>8 DEF ItemsOK

\* The promise counts as the code does.
LEMMA CountsAgree == \A S : Promised!Cardinality(S) = Cardinality(S)
BY DEF Promised!Cardinality, Cardinality, Promised!IsFiniteSet, IsFiniteSet

\* The keywords of one name.
KeywordsOf(call, name) == { j \in 1..Len(call.kw) : call.kw[j].name = name }

\* There is one keyword of a name at most.
LEMMA OneKeyword ==
    ASSUME NEW call, CallOK(call), NEW name
    PROVE  /\ IsFiniteSet(KeywordsOf(call, name))
           /\ KeywordsOf(call, name) = {} => Cardinality(KeywordsOf(call, name)) = 0
           /\ KeywordsOf(call, name) # {} => Cardinality(KeywordsOf(call, name)) = 1
           /\ \A i, j \in KeywordsOf(call, name) : i = j
<1>1. \A i, j \in KeywordsOf(call, name) : i = j
  BY DEF CallOK, KeywordsOf
<1>2. CASE KeywordsOf(call, name) = {}
  BY <1>1, <1>2, FS_EmptySet
<1>3. ASSUME NEW j \in KeywordsOf(call, name)
      PROVE  KeywordsOf(call, name) = {j}
  BY <1>1, <1>3
<1>4. CASE KeywordsOf(call, name) # {}
  <2>1. PICK j : KeywordsOf(call, name) = {j}
    BY <1>3, <1>4
  <2> QED BY <1>1, <2>1, FS_Singleton
<1> QED BY <1>2, <1>4

\* A parameter has as many givers as positional values and keywords name it.
LEMMA GiversAre ==
    ASSUME NEW call, CallOK(call), NEW k \in 1..Len(Signature[call.fn])
    PROVE  LET named == KeywordsOf(call, Signature[call.fn][k].name) IN
           Promised!Givers(call, k)
             = (IF k <= Len(call.pos) THEN 1 ELSE 0) + (IF named = {} THEN 0 ELSE 1)
<1> DEFINE named == KeywordsOf(call, Signature[call.fn][k].name)
           placed == { j \in {k} : j <= Len(call.pos) }
<1>1. placed = (IF k <= Len(call.pos) THEN {k} ELSE {})
  OBVIOUS
<1>2. Cardinality(placed) = (IF k <= Len(call.pos) THEN 1 ELSE 0)
  BY <1>1, FS_EmptySet, FS_Singleton
<1>3. Cardinality(named) = (IF named = {} THEN 0 ELSE 1)
  BY OneKeyword
<1>4. Promised!Givers(call, k) = Cardinality(placed) + Cardinality(named)
  BY CountsAgree DEF Promised!Givers, KeywordsOf
<1> HIDE DEF named, placed
<1> QED BY <1>2, <1>3, <1>4 DEF named

\* What the parser of keywords makes of those of a call.
LEMMA Parsed ==
    ASSUME NEW call, CallOK(call), NEW params, ParamsOK(params),
           \A j \in 1..Len(call.kw) :
              MatchKeywordArg(params, Len(call.pos), call.kw[j].name) # {},
           NEW k \in 1..Len(params)
    PROVE  { call.kw[j].value : j \in { j \in 1..Len(call.kw) :
                 k \in MatchKeywordArg(params, Len(call.pos), call.kw[j].name) } }
             = { call.kw[j].value : j \in KeywordsOf(call, params[k].name) }
<1>1. ASSUME NEW j \in 1..Len(call.kw)
      PROVE  k \in MatchKeywordArg(params, Len(call.pos), call.kw[j].name)
               <=> call.kw[j].name = params[k].name
  <2>1. CASE k \in MatchKeywordArg(params, Len(call.pos), call.kw[j].name)
    BY <2>1 DEF MatchKeywordArg
  <2>2. ASSUME call.kw[j].name = params[k].name
        PROVE  k \in MatchKeywordArg(params, Len(call.pos), call.kw[j].name)
    <3>1. PICK l : l \in MatchKeywordArg(params, Len(call.pos), call.kw[j].name)
      OBVIOUS
    <3>2. l \in (Len(call.pos) + 1)..Len(params) /\ params[l].name = call.kw[j].name
      BY <3>1 DEF MatchKeywordArg
    <3>3. l = k
      BY <2>2, <3>2 DEF ParamsOK, CallOK
    <3> QED BY <3>1, <3>3
  <2> QED BY <2>1, <2>2
<1> QED BY <1>1 DEF KeywordsOf

\* The wrapper matches values to parameters as the promise says.
LEMMA ArgumentsMatch ==
    ASSUME NEW call, CallOK(call), NEW args \in Bind(call)
    PROVE  /\ Promised!Bindable(call)
           /\ \A k \in 1..Len(Signature[call.fn]) :
                 /\ Promised!Sources(call, k) = args[k]
                 /\ args[k] \subseteq Given(call)
                 /\ \A x, y \in args[k] : x = y
                 /\ Signature[call.fn][k].needed => args[k] # {}
                 /\ \A value \in args[k] : Converts(Signature[call.fn][k], value)
<1> DEFINE params == Signature[call.fn]
           npos == Len(call.pos)
<1>1. ParamsOK(params) /\ Len(params) \in Nat /\ npos \in Nat /\ Len(call.kw) \in Nat
  BY ParamsAreKnown DEF CallOK, ParamsOK
<1> HIDE DEF params
<1>2. /\ args \in Values(params, call)
      /\ \A k \in 1..Len(params) : /\ params[k].needed => args[k] # {}
                                   /\ \A value \in args[k] : Converts(params[k], value)
  BY DEF Bind, params
<1>3. npos <= Len(params)
  BY <1>1, <1>2 DEF Values
<1>4. PICK named \in ParseKeywords(params, npos, call.kw) :
          args = [k \in 1..Len(params) |-> Positional(call, k) \union named[k]]
  BY <1>1, <1>2, <1>3 DEF Values
<1>5. \A j \in 1..Len(call.kw) : MatchKeywordArg(params, npos, call.kw[j].name) # {}
  BY <1>4 DEF ParseKeywords
<1>6. \A k \in 1..Len(params) :
          named[k] = { call.kw[j].value : j \in { j \in 1..Len(call.kw) :
                          k \in MatchKeywordArg(params, npos, call.kw[j].name) } }
  BY <1>4, <1>5 DEF ParseKeywords
<1>7. \A k \in 1..Len(params) :
          named[k] = { call.kw[j].value : j \in KeywordsOf(call, params[k].name) }
  <2> TAKE k \in 1..Len(params)
  <2>1. { call.kw[j].value : j \in { j \in 1..Len(call.kw) :
              k \in MatchKeywordArg(params, npos, call.kw[j].name) } }
          = { call.kw[j].value : j \in KeywordsOf(call, params[k].name) }
    BY <1>1, <1>5, Parsed
  <2> QED BY <1>6, <2>1
<1>8. \A k \in 1..Len(params) : k <= npos => KeywordsOf(call, params[k].name) = {}
  <2> SUFFICES ASSUME NEW k \in 1..Len(params), k <= npos,
                      NEW j \in KeywordsOf(call, params[k].name)
               PROVE  FALSE
    OBVIOUS
  <2>1. PICK l \in MatchKeywordArg(params, npos, call.kw[j].name) : TRUE
    BY <1>5 DEF KeywordsOf
  <2>2. l \in (npos + 1)..Len(params) /\ params[l].name = params[k].name
    BY <2>1 DEF MatchKeywordArg, KeywordsOf
  <2> QED BY <1>1, <2>2 DEF ParamsOK
<1>9. ASSUME NEW k \in 1..Len(params)
      PROVE  /\ Promised!Sources(call, k) = args[k]
             /\ args[k] \subseteq Given(call)
             /\ \A x, y \in args[k] : x = y
             /\ args[k] = {} <=> k > npos /\ KeywordsOf(call, params[k].name) = {}
  <2> DEFINE keyed == { call.kw[j].value : j \in KeywordsOf(call, params[k].name) }
             placed == Positional(call, k)
  <2>1. args[k] = placed \union keyed
    BY <1>4, <1>7
  <2>2. placed = IF k <= npos THEN {call.pos[k]} ELSE {}
    BY <1>1 DEF Positional
  <2>3. placed = { call.pos[j] : j \in { j \in {k} : j <= Len(call.pos) } }
    BY <2>2
  <2>4. Promised!Sources(call, k) = args[k]
    BY <2>1, <2>3 DEF Promised!Sources, KeywordsOf, params
  <2>5. args[k] \subseteq Given(call)
    <3>1. placed \subseteq Given(call)
      BY <1>1, <2>2 DEF Given
    <3>2. keyed \subseteq Given(call)
      BY DEF Given, KeywordsOf
    <3> QED BY <2>1, <3>1, <3>2
  <2>6. \A x, y \in keyed : x = y
    BY OneKeyword
  <2>7. k <= npos => keyed = {}
    BY <1>8
  <2>8. \A x, y \in args[k] : x = y
    BY <2>1, <2>2, <2>6, <2>7
  <2>9. args[k] = {} <=> k > npos /\ KeywordsOf(call, params[k].name) = {}
    <3>1. keyed = {} <=> KeywordsOf(call, params[k].name) = {}
      OBVIOUS
    <3> HIDE DEF placed, keyed
    <3>2. k \in Nat /\ npos \in Nat
      BY <1>1
    <3> HIDE DEF npos
    <3>3. CASE k <= npos
      BY <2>1, <2>2, <3>1, <3>2, <3>3
    <3>4. CASE k > npos
      BY <2>1, <2>2, <3>1, <3>2, <3>4
    <3> QED BY <3>2, <3>3, <3>4
  <2> QED BY <2>4, <2>5, <2>8, <2>9
<1>10. Promised!Bindable(call)
  <2>1. \A j \in 1..Len(call.kw) : \E k \in 1..Len(params) : call.kw[j].name = params[k].name
    <3> TAKE j \in 1..Len(call.kw)
    <3>1. PICK l \in MatchKeywordArg(params, npos, call.kw[j].name) : TRUE
      BY <1>5
    <3>2. l \in 1..Len(params) /\ params[l].name = call.kw[j].name
      BY <1>1, <3>1 DEF MatchKeywordArg
    <3> QED BY <3>2
  <2>2. ASSUME NEW k \in 1..Len(params)
        PROVE  Promised!Givers(call, k) \in (IF params[k].needed THEN {1} ELSE {0, 1})
    <3>1. Promised!Givers(call, k)
            = (IF k <= npos THEN 1 ELSE 0)
                + (IF KeywordsOf(call, params[k].name) = {} THEN 0 ELSE 1)
      BY GiversAre DEF params
    <3>2. args[k] = {} <=> k > npos /\ KeywordsOf(call, params[k].name) = {}
      BY <1>9
    <3>3. k <= npos => KeywordsOf(call, params[k].name) = {}
      BY <1>8
    <3>4. params[k].needed => args[k] # {}
      BY <1>2
    <3> QED BY <1>1, <3>1, <3>2, <3>3, <3>4
  <2> QED BY <1>3, <2>1, <2>2 DEF Promised!Bindable, params
<1> QED BY <1>2, <1>9, <1>10 DEF params

\* An array suits a parameter for the promise if the code's checks let it pass.
LEMMA ArraysSuit ==
    ASSUME NEW param, ParamOK(param), param.takes = "array",
           NEW value, value.kind = "array", value.array \in DOMAIN Arrays
    PROVE  Promised!Suits(value, param)
             <=> /\ Validated(Arrays[value.array], param)
                 /\ param.viewed => Arrays[value.array].writable
<1> DEFINE array == Arrays[value.array]
<1>1. ItemsOK(param) /\ array.format.order \in {"@", "=", "<", ">"}
      /\ array.format.code \in DOMAIN TypeCharToGroup
  BY ArraysAssumption DEF ParamOK
<1>2. CheckString(array.format, param.item)
        <=> <<array.format.order, array.format.code>> \in Promised!FormatsOf(param.dtype)
  BY <1>1, FormatsAgree
<1> HIDE DEF array
<1>3. Promised!Suits(value, param)
        <=> /\ <<array.format.order, array.format.code>> \in Promised!FormatsOf(param.dtype)
            /\ Len(array.shape) = param.ndim
            /\ param.viewed => array.writable
  BY DEF Promised!Suits, array
<1> QED BY <1>2, <1>3 DEF Validated, array

\* A number suits a parameter if it converts.
LEMMA NumbersSuit ==
    ASSUME NEW param, param.takes \in {"int", "double"},
           NEW value, value.kind = "int" => value.int \in Int
    PROVE  Promised!Suits(value, param) <=> Converts(param, value)
<1>1. CASE param.takes = "int"
  BY <1>1, IntLimitAssumption DEF Promised!Suits, Converts, AsInt
<1>2. CASE param.takes = "double"
  BY <1>2 DEF Promised!Suits, Converts, AsDouble
<1> QED BY <1>1, <1>2

\* What the promise takes, the wrapper does not refuse.
LEMMA WellBinds ==
    ASSUME NEW call, CallOK(call), Promised!Well(call)
    PROVE  Bind(call) # {}
<1> DEFINE params == Signature[call.fn]
           npos == Len(call.pos)
           named == [k \in 1..Len(params) |->
                        { call.kw[j].value : j \in { j \in 1..Len(call.kw) :
                              k \in MatchKeywordArg(params, npos, call.kw[j].name) } }]
           args == [k \in 1..Len(params) |-> Positional(call, k) \union named[k]]
<1>1. ParamsOK(params) /\ Len(params) \in Nat /\ npos \in Nat /\ Len(call.kw) \in Nat
  BY ParamsAreKnown DEF CallOK, ParamsOK
<1> HIDE DEF params
<1>2. /\ npos <= Len(params)
      /\ \A j \in 1..Len(call.kw) : \E k \in 1..Len(params) : call.kw[j].name = params[k].name
      /\ \A k \in 1..Len(params) :
            Promised!Givers(call, k) \in (IF params[k].needed THEN {1} ELSE {0, 1})
      /\ \A k \in 1..Len(params) :
            \A value \in Promised!Sources(call, k) : Promised!Suits(value, params[k])
  BY DEF Promised!Well, Promised!Bindable, params
<1>3. \A k \in 1..Len(params) :
          Promised!Givers(call, k)
            = (IF k <= npos THEN 1 ELSE 0)
                + (IF KeywordsOf(call, params[k].name) = {} THEN 0 ELSE 1)
  BY GiversAre DEF params
<1>4. \A j \in 1..Len(call.kw) : MatchKeywordArg(params, npos, call.kw[j].name) # {}
  <2> TAKE j \in 1..Len(call.kw)
  <2>1. PICK k \in 1..Len(params) : call.kw[j].name = params[k].name
    BY <1>2
  <2>2. KeywordsOf(call, params[k].name) # {}
    BY <2>1 DEF KeywordsOf
  <2>3. Promised!Givers(call, k) \in {0, 1}
    BY <1>2
  <2>4. ~(k <= npos)
    <3>1. Promised!Givers(call, k) = (IF k <= npos THEN 1 ELSE 0) + 1
      BY <1>3, <2>2
    <3> QED BY <2>3, <3>1
  <2>5. k \in (npos + 1)..Len(params)
    BY <1>1, <2>4
  <2> QED BY <2>1, <2>5 DEF MatchKeywordArg
<1>5. named \in ParseKeywords(params, npos, call.kw)
  BY <1>4 DEF ParseKeywords
<1>6. \A k \in 1..Len(params) :
          named[k] = { call.kw[j].value : j \in KeywordsOf(call, params[k].name) }
  <2> TAKE k \in 1..Len(params)
  <2> QED BY <1>1, <1>4, Parsed
<1> HIDE DEF named
<1>7. args \in Values(params, call)
  BY <1>1, <1>2, <1>5 DEF Values
<1>8. ASSUME NEW k \in 1..Len(params)
      PROVE  /\ params[k].needed => args[k] # {}
             /\ \A value \in args[k] : Converts(params[k], value)
  <2> DEFINE keyed == { call.kw[j].value : j \in KeywordsOf(call, params[k].name) }
             placed == Positional(call, k)
  <2>1. args[k] = placed \union keyed
    BY <1>6
  <2>2. placed = IF k <= npos THEN {call.pos[k]} ELSE {}
    BY <1>1 DEF Positional
  <2>3. Promised!Sources(call, k) = args[k]
    <3>1. placed = { call.pos[j] : j \in { j \in {k} : j <= Len(call.pos) } }
      BY <2>2
    <3> QED BY <2>1, <3>1 DEF Promised!Sources, KeywordsOf, params
  <2>4. params[k].needed => args[k] # {}
    <3> SUFFICES ASSUME params[k].needed PROVE args[k] # {}
      OBVIOUS
    <3>1. Promised!Givers(call, k) = 1
      BY <1>2
    <3>2. k <= npos \/ KeywordsOf(call, params[k].name) # {}
      BY <1>3, <3>1
    <3>3. placed # {} \/ keyed # {}
      BY <2>2, <3>2
    <3> QED BY <2>1, <3>3
  <2>5. ASSUME NEW value \in args[k] PROVE Converts(params[k], value)
    <3>1. Promised!Suits(value, params[k])
      BY <1>2, <2>3, <2>5
    <3>2. value \in Given(call)
      <4>1. placed \subseteq Given(call)
        BY <1>1, <2>2 DEF Given
      <4>2. keyed \subseteq Given(call)
        BY DEF Given, KeywordsOf
      <4> QED BY <2>1, <2>5, <4>1, <4>2
    <3>3. ParamOK(params[k]) /\ (value.kind = "int" => value.int \in Int)
      BY <1>1, <3>2 DEF ParamsOK, CallOK
    <3>4. CASE params[k].takes = "array"
      BY <3>1, <3>4 DEF Promised!Suits, Converts, ArgTypeTest
    <3>5. CASE params[k].takes \in {"int", "double"}
      BY <3>1, <3>3, <3>5, NumbersSuit
    <3> QED BY <3>3, <3>4, <3>5 DEF ParamOK
  <2> QED BY <2>4, <2>5
<1> HIDE DEF args
<1>9. args \in Bind(call)
  BY <1>7, <1>8 DEF Bind, params
<1> QED BY <1>9

------------------------------------------------------------
(* What the steps of a body have found out about the arguments.             *)

\* The array of a step, in terms of the arguments.
ArrayIn(call, args, name) ==
    IF name \in {"out", "mids"} THEN MadeArray(call.fn) ELSE Arrays[GivenIn(call, args, name)]

\* numpy's checks, in terms of the arguments.
RefusedIn(call, args, name) ==
    /\ GridCall(call)
    /\ \/ name = "zeros" /\ SizeIn(args) < 0
       \/ /\ name = "reshape"
          /\ SizeIn(args) * Shape(args)[2] # IntAt(args, 3) * IntAt(args, 4) * Shape(args)[2]

\* What a step that is done has found.
Found(call, args, step) ==
    /\ step.do = "buffer" => Validated(ArrayIn(call, args, step.of), Want(call.fn, step.of))
    /\ step.do = "view" => /\ ArrayIn(call, args, step.of).writable
                            /\ Validated(ArrayIn(call, args, step.of), Want(call.fn, step.of))
    /\ step.do = "python" => ~RefusedIn(call, args, step.of)

\* The same, from the state.
LEMMA ReadsArguments ==
    ASSUME NEW c, NEW name
    PROVE  /\ TheArray(c, name) = ArrayIn(callers[c].call, callers[c].args, name)
           /\ NumpyRefuses(c, name) <=> RefusedIn(callers[c].call, callers[c].args, name)
<1>1. TheArray(c, name) = ArrayIn(callers[c].call, callers[c].args, name)
  BY DEF TheArray, ArrayIn, GivenArray, GivenIn, ArgOf
<1>2. CASE GridCall(callers[c].call)
  <2>1. GridSize(c) = SizeIn(callers[c].args) /\ Columns(c) = Shape(callers[c].args)[2]
    BY <1>2, GridReads
  <2>2. Signature["accumulate_weighted_grid"] = AccumulateParams
    BY DEF Signature
  <2>3. ArgOf(c, "n_i") = callers[c].args[3] /\ ArgOf(c, "n_j") = callers[c].args[4]
    BY <1>2, <2>2, GridPlaces DEF ArgOf, GridCall
  <2>4. /\ IntOf(c, "n_i", 0) = IntAt(callers[c].args, 3)
        /\ IntOf(c, "n_j", 0) = IntAt(callers[c].args, 4)
    <3>1. IntOf(c, "n_i", 0) = IF ArgOf(c, "n_i") = {} THEN 0
                               ELSE (CHOOSE v \in ArgOf(c, "n_i") : TRUE).int
      BY DEF IntOf
    <3>2. IntOf(c, "n_j", 0) = IF ArgOf(c, "n_j") = {} THEN 0
                               ELSE (CHOOSE v \in ArgOf(c, "n_j") : TRUE).int
      BY DEF IntOf
    <3> QED BY <2>3, <3>1, <3>2 DEF IntAt
  <2> QED BY <1>1, <1>2, <2>1, <2>4 DEF NumpyRefuses, RefusedIn, GridCall
<1>3. CASE ~GridCall(callers[c].call)
  BY <1>1, <1>3 DEF NumpyRefuses, RefusedIn, GridCall
<1> QED BY <1>2, <1>3

\* The buffers and views of a body are those of its parameters, and of arrays
\* it makes.
BodyOK(fn, body) ==
    LET params == Signature[fn] IN
    /\ Len(body) \in Nat
    /\ \A j \in 1..Len(body) :
          body[j].do \in {"buffer", "view"} /\ body[j].of \notin {"out", "mids"} =>
              \E k \in 1..Len(params) :
                  /\ params[k].name = body[j].of /\ params[k].takes = "array"
                  /\ body[j].do = "view" => params[k].viewed
    /\ \A k \in 1..Len(params) : params[k].takes = "array" =>
          /\ \E j \in 1..Len(body) : body[j] = Buf(params[k].name)
          /\ params[k].viewed => \E j \in 1..Len(body) : body[j] = View(params[k].name)

\* The body of every function is one of these.
LEMMA BodiesAreOK ==
    ASSUME NEW call, call.fn \in DOMAIN Signature, NEW args
    PROVE  BodyOK(call.fn, BodyIn(call, args))
<1> USE DEF Buf, Python, View, Region, Fill
<1> DEFINE AsksFor(body, names, viewed) ==
        /\ Len(body) \in Nat
        /\ \A j \in 1..Len(body) :
              /\ body[j].do = "buffer" => body[j].of \in names \union {"out", "mids"}
              /\ body[j].do = "view" => body[j].of \in viewed \union {"out", "mids"}
        /\ \A name \in names : \E j \in 1..Len(body) : body[j] = Buf(name)
        /\ \A name \in viewed : \E j \in 1..Len(body) : body[j] = View(name)
<1>1. AsksFor(AccumulateBody, {"ph_weight", "grid_lin"}, {"ph_weight", "grid_lin"})
  <2>1. /\ Len(AccumulateBody) = 9
        /\ AccumulateBody[1] = Buf("ph_weight") /\ AccumulateBody[2] = Buf("grid_lin")
        /\ AccumulateBody[5] = View("ph_weight") /\ AccumulateBody[6] = View("grid_lin")
        /\ \A j \in 1..9 :
              AccumulateBody[j].do \in {"buffer", "view"} =>
                AccumulateBody[j].of \in {"ph_weight", "grid_lin", "out"}
    BY DEF AccumulateBody
  <2> HIDE DEF Buf, View
  <2> QED BY <2>1
<1>2. AsksFor(GenericBody, {"cpxphase", "bperp"}, {})
  <2>1. /\ Len(GenericBody) = 6
        /\ GenericBody[1] = Buf("cpxphase") /\ GenericBody[2] = Buf("bperp")
        /\ \A j \in 1..6 :
              /\ GenericBody[j].do = "buffer" => GenericBody[j].of \in {"cpxphase", "bperp"}
              /\ GenericBody[j].do # "view"
    BY DEF GenericBody
  <2> HIDE DEF Buf, View
  <2> QED BY <2>1
<1>3. AsksFor(RowInvariantBody, {"cpxphase", "bperp_vec"}, {})
  <2>1. /\ Len(RowInvariantBody) = 8
        /\ RowInvariantBody[1] = Buf("cpxphase") /\ RowInvariantBody[2] = Buf("bperp_vec")
        /\ \A j \in 1..8 :
              /\ RowInvariantBody[j].do = "buffer" =>
                    RowInvariantBody[j].of \in {"cpxphase", "bperp_vec"}
              /\ RowInvariantBody[j].do # "view"
    BY DEF RowInvariantBody
  <2> HIDE DEF Buf, View
  <2> QED BY <2>1
<1>4. AsksFor(CoherenceBody, {"cpxphase", "bperp_vec"}, {})
  <2>1. /\ Len(CoherenceBody) = 9
        /\ CoherenceBody[1] = Buf("cpxphase") /\ CoherenceBody[2] = Buf("bperp_vec")
        /\ \A j \in 1..9 :
              /\ CoherenceBody[j].do = "buffer" =>
                    CoherenceBody[j].of \in {"cpxphase", "bperp_vec"}
              /\ CoherenceBody[j].do # "view"
    BY DEF RowInvariantBody, CoherenceBody
  <2> HIDE DEF Buf, View
  <2> QED BY <2>1
<1>5. ASSUME NEW bins
      PROVE  AsksFor(HistogramBody(bins), {"values", "centers"}, {"values", "centers"})
  <2> DEFINE body == HistogramBody(bins)
  <2>1. /\ Len(body) \in {7, 8, 12}
        /\ body[1] = Buf("values") /\ body[2] = Buf("centers")
        /\ body[5] = View("values") /\ body[6] = View("centers")
        /\ \A j \in 1..Len(body) :
              body[j].do \in {"buffer", "view"} =>
                body[j].of \in {"values", "centers", "out", "mids"}
    BY DEF HistogramBody, HistogramStart
  <2> HIDE DEF Buf, View, body
  <2>2. AsksFor(body, {"values", "centers"}, {"values", "centers"})
    BY <2>1
  <2> QED BY <2>2 DEF body
<1> HIDE DEF Buf, Python, View, Region, Fill
<1> DEFINE Sees(params, names, viewed) ==
        /\ \A name \in names : \E k \in 1..Len(params) :
              params[k].name = name /\ params[k].takes = "array"
        /\ \A name \in viewed : \E k \in 1..Len(params) :
              params[k].name = name /\ params[k].takes = "array" /\ params[k].viewed
        /\ \A k \in 1..Len(params) : params[k].takes = "array" =>
              params[k].name \in names /\ (params[k].viewed => params[k].name \in viewed)
<1>6. Sees(AccumulateParams, {"ph_weight", "grid_lin"}, {"ph_weight", "grid_lin"})
  <2>1. /\ Len(AccumulateParams) = 5
        /\ AccumulateParams[1].name = "ph_weight" /\ AccumulateParams[1].takes = "array"
        /\ AccumulateParams[1].viewed
        /\ AccumulateParams[2].name = "grid_lin" /\ AccumulateParams[2].takes = "array"
        /\ AccumulateParams[2].viewed
        /\ AccumulateParams[3].takes = "int" /\ AccumulateParams[4].takes = "int"
        /\ AccumulateParams[5].takes = "int"
    BY DEF AccumulateParams, Param, Number, Optional
  <2>2. \A k \in 1..5 : k \in {1, 2, 3, 4, 5}
    OBVIOUS
  <2> QED BY <2>1, <2>2
<1>7. ASSUME NEW bperp, NEW ndim
      PROVE  Sees(TopofitParams(bperp, ndim), {"cpxphase", bperp}, {})
  <2> DEFINE params == TopofitParams(bperp, ndim)
  <2>1. /\ Len(params) = 4
        /\ params[1].name = "cpxphase" /\ params[1].takes = "array" /\ ~params[1].viewed
        /\ params[2].name = bperp /\ params[2].takes = "array" /\ ~params[2].viewed
        /\ params[3].takes = "double" /\ params[4].takes = "int"
    BY DEF TopofitParams, Param, Number, Optional
  <2> HIDE DEF params
  <2>2. \A k \in 1..4 : k \in {1, 2, 3, 4}
    OBVIOUS
  <2>3. Sees(params, {"cpxphase", bperp}, {})
    BY <2>1, <2>2
  <2> QED BY <2>3 DEF params
<1>8. Sees(HistogramParams, {"values", "centers"}, {"values", "centers"})
  <2>1. /\ Len(HistogramParams) = 2
        /\ HistogramParams[1].name = "values" /\ HistogramParams[1].takes = "array"
        /\ HistogramParams[1].viewed
        /\ HistogramParams[2].name = "centers" /\ HistogramParams[2].takes = "array"
        /\ HistogramParams[2].viewed
    BY DEF HistogramParams, Param
  <2> QED BY <2>1
<1>9. ASSUME NEW fn \in DOMAIN Signature, NEW body, NEW names, NEW viewed,
             AsksFor(body, names, viewed), Sees(Signature[fn], names, viewed)
      PROVE  BodyOK(fn, body)
  <2> DEFINE params == Signature[fn]
  <2>1. ParamsOK(params)
    BY ParamsAreKnown
  <2> HIDE DEF params
  <2>2. ASSUME NEW j \in 1..Len(body), body[j].do \in {"buffer", "view"},
               body[j].of \notin {"out", "mids"}
        PROVE  \E k \in 1..Len(params) :
                  /\ params[k].name = body[j].of /\ params[k].takes = "array"
                  /\ body[j].do = "view" => params[k].viewed
    <3>1. CASE body[j].do = "buffer"
      BY <1>9, <2>2, <3>1 DEF params
    <3>2. CASE body[j].do = "view"
      BY <1>9, <2>2, <3>2 DEF params
    <3> QED BY <2>2, <3>1, <3>2
  <2>3. ASSUME NEW k \in 1..Len(params), params[k].takes = "array"
        PROVE  /\ \E j \in 1..Len(body) : body[j] = Buf(params[k].name)
               /\ params[k].viewed => \E j \in 1..Len(body) : body[j] = View(params[k].name)
    BY <1>9, <2>3 DEF params
  <2> QED BY <1>9, <2>2, <2>3 DEF BodyOK, params
<1> HIDE DEF AsksFor, Sees
<1>10. call.fn \in {"accumulate_weighted_grid", "ps_topofit_batch_generic",
          "ps_topofit_batch_row_invariant", "ps_topofit_coh_row_invariant",
          "histogram_with_centers"}
  BY DEF Signature
<1>11. /\ Signature["accumulate_weighted_grid"] = AccumulateParams
       /\ Signature["ps_topofit_batch_generic"] = TopofitParams("bperp", 2)
       /\ Signature["ps_topofit_batch_row_invariant"] = TopofitParams("bperp_vec", 1)
       /\ Signature["ps_topofit_coh_row_invariant"] = TopofitParams("bperp_vec", 1)
       /\ Signature["histogram_with_centers"] = HistogramParams
  BY DEF Signature, GenericParams, RowInvariantParams, CoherenceParams
<1>12. CASE call.fn = "accumulate_weighted_grid"
  <2>1. BodyIn(call, args) = AccumulateBody
    BY <1>12 DEF BodyIn
  <2> QED BY <1>1, <1>6, <1>9, <1>11, <1>12, <2>1
<1>13. CASE call.fn = "ps_topofit_batch_generic"
  <2>1. BodyIn(call, args) = GenericBody
    BY <1>13 DEF BodyIn
  <2> QED BY <1>2, <1>7, <1>9, <1>11, <1>13, <2>1
<1>14. CASE call.fn = "ps_topofit_batch_row_invariant"
  <2>1. BodyIn(call, args) = RowInvariantBody
    BY <1>14 DEF BodyIn
  <2> QED BY <1>3, <1>7, <1>9, <1>11, <1>14, <2>1
<1>15. CASE call.fn = "ps_topofit_coh_row_invariant"
  <2>1. BodyIn(call, args) = CoherenceBody
    BY <1>15 DEF BodyIn
  <2> QED BY <1>4, <1>7, <1>9, <1>11, <1>15, <2>1
<1>16. CASE call.fn = "histogram_with_centers"
  <2>1. \E bins : BodyIn(call, args) = HistogramBody(bins)
    BY <1>16 DEF BodyIn
  <2> QED BY <1>5, <1>8, <1>9, <1>11, <1>16, <2>1
<1> QED BY <1>10, <1>12, <1>13, <1>14, <1>15, <1>16

------------------------------------------------------------
(* When a call is refused.                                                  *)

\* What the promise and the code know by the name of a parameter.
LEMMA ParamPlace ==
    ASSUME NEW call, CallOK(call), NEW args \in Bind(call),
           NEW k \in 1..Len(Signature[call.fn])
    PROVE  LET param == Signature[call.fn][k] IN
           /\ Promised!ValueOf(call, param.name) = CHOOSE v \in args[k] : TRUE
           /\ GivenIn(call, args, param.name) = (CHOOSE v \in args[k] : TRUE).array
           /\ ArrayIn(call, args, param.name) = Arrays[(CHOOSE v \in args[k] : TRUE).array]
           /\ Want(call.fn, param.name) = param
<1> DEFINE params == Signature[call.fn]
           name == params[k].name
<1>1. ParamsOK(params) /\ ParamOK(params[k]) /\ Len(params) \in Nat
  BY ParamsAreKnown DEF CallOK, ParamsOK
<1>2. Promised!Sources(call, k) = args[k]
  BY ArgumentsMatch
<1>3. params \in {AccumulateParams, GenericParams, RowInvariantParams, CoherenceParams,
                  HistogramParams}
  BY DEF CallOK, Signature
<1>4. DOMAIN params = 1..Len(params)
  BY <1>3 DEF AccumulateParams, GenericParams, RowInvariantParams, CoherenceParams,
              HistogramParams, TopofitParams
<1> HIDE DEF params
<1>5. (CHOOSE j \in 1..Len(params) : params[j].name = name) = k
  <2> DEFINE named == CHOOSE j \in 1..Len(params) : params[j].name = name
  <2>1. named \in 1..Len(params) /\ params[named].name = name
    BY DEF params
  <2> HIDE DEF named
  <2>2. named = k
    BY <1>1, <2>1 DEF ParamsOK, params
  <2> QED BY <2>2 DEF named
<1>6. Promised!ValueOf(call, name) = CHOOSE v \in args[k] : TRUE
  BY <1>2, <1>5 DEF Promised!ValueOf, params
<1>7. GivenIn(call, args, name) = (CHOOSE v \in args[k] : TRUE).array
  BY <1>5 DEF GivenIn, params
<1>8. name \notin {"out", "mids"}
  BY <1>1 DEF ParamOK
<1>9. ArrayIn(call, args, name) = Arrays[(CHOOSE v \in args[k] : TRUE).array]
  BY <1>7, <1>8 DEF ArrayIn
<1>10. { p \in ToSet(params) : p.name = name } = {params[k]}
  <2>1. k \in 1..Len(params) /\ \A j \in 1..Len(params) : params[j].name = name => j = k
    BY <1>1 DEF ParamsOK, params
  <2>2. ToSet(params) = { params[j] : j \in 1..Len(params) }
    BY <1>4 DEF ToSet
  <2> QED BY <2>1, <2>2
<1>11. Want(call.fn, name) = params[k]
  BY <1>10 DEF Want, params
<1> QED BY <1>6, <1>7, <1>9, <1>11 DEF params

\* Arrays a function makes itself are what it wants.
LEMMA MadeArraysFit ==
    ASSUME NEW call, CallOK(call), NEW args, NEW name \in {"out", "mids"}
    PROVE  /\ Validated(ArrayIn(call, args, name), Want(call.fn, name))
           /\ ArrayIn(call, args, name).writable
<1> DEFINE params == Signature[call.fn]
           fn == call.fn
<1>1. ParamsOK(params)
  BY ParamsAreKnown DEF CallOK
<1>2. params \in {AccumulateParams, GenericParams, RowInvariantParams, CoherenceParams,
                  HistogramParams}
  BY DEF CallOK, Signature
<1>3. DOMAIN params = 1..Len(params)
  BY <1>2 DEF AccumulateParams, GenericParams, RowInvariantParams, CoherenceParams,
              HistogramParams, TopofitParams
<1> HIDE DEF params
<1>4. { p \in ToSet(params) : p.name = name } = {}
  BY <1>1, <1>3 DEF ToSet, ParamsOK, ParamOK
<1>5. Want(fn, name)
        = Param(name, "array", "", IF fn = "accumulate_weighted_grid" THEN Complex64 ELSE Float64,
                IF fn = "accumulate_weighted_grid" THEN 2 ELSE 1, TRUE)
  BY <1>4 DEF Want, params
<1> DEFINE item == IF fn = "accumulate_weighted_grid" THEN Complex64 ELSE Float64
           ndim == IF fn = "accumulate_weighted_grid" THEN 2 ELSE 1
<1>6. ArrayIn(call, args, name) = MadeArray(fn)
  BY DEF ArrayIn
<1>7. CheckString(NativeFormat(fn), IF fn = "accumulate_weighted_grid" THEN Complex64 ELSE Float64)
  BY DEF CheckString, NativeFormat, Complex64, Float64, TypeCharToGroup, TypeCharToNativeSize
<1>8. /\ MadeArray(fn).format = NativeFormat(fn) /\ MadeArray(fn).writable
      /\ Len(MadeArray(fn).shape) = IF fn = "accumulate_weighted_grid" THEN 2 ELSE 1
  BY DEF MadeArray
<1>9. \A dtype : /\ Param(name, "array", dtype, item, ndim, TRUE).item = item
                  /\ Param(name, "array", dtype, item, ndim, TRUE).ndim = ndim
  BY DEF Param
<1>10. Want(fn, name).item = item /\ Want(fn, name).ndim = ndim
  BY <1>5, <1>9, Zenon
<1> HIDE DEF item, ndim, fn
<1> QED BY <1>6, <1>7, <1>8, <1>10 DEF Validated, item, ndim, fn

\* An array that suits its parameter is one the code lets pass.
LEMMA ArrayFits ==
    ASSUME NEW call, CallOK(call), NEW args \in Bind(call),
           NEW k \in 1..Len(Signature[call.fn]), Signature[call.fn][k].takes = "array"
    PROVE  LET param == Signature[call.fn][k]
               v == CHOOSE v \in args[k] : TRUE IN
           /\ v \in args[k] /\ v.array \in DOMAIN Arrays
           /\ Promised!Suits(v, param)
                <=> /\ Validated(ArrayIn(call, args, param.name), Want(call.fn, param.name))
                    /\ param.viewed => ArrayIn(call, args, param.name).writable
<1> DEFINE param == Signature[call.fn][k]
           v == CHOOSE v \in args[k] : TRUE
<1>1. ParamOK(param)
  BY ParamsAreKnown DEF CallOK, ParamsOK
<1>2. /\ args[k] \subseteq Given(call) /\ (param.needed => args[k] # {})
      /\ \A value \in args[k] : Converts(param, value)
  BY ArgumentsMatch
<1>3. v \in args[k]
  BY <1>1, <1>2 DEF ParamOK
<1>4. v.kind = "array" /\ v.array \in DOMAIN Arrays
  BY <1>2, <1>3 DEF Converts, ArgTypeTest, CallOK
<1>5. /\ ArrayIn(call, args, param.name) = Arrays[v.array]
      /\ Want(call.fn, param.name) = param
  BY ParamPlace
<1> HIDE DEF param, v
<1>6. Promised!Suits(v, param)
        <=> /\ Validated(Arrays[v.array], param)
            /\ param.viewed => Arrays[v.array].writable
  BY <1>1, <1>4, ArraysSuit DEF param
<1> QED BY <1>3, <1>4, <1>5, <1>6 DEF param, v

\* The extents of a shape.
LEMMA Extents ==
    ASSUME NEW shape \in Seq(Nat)
    PROVE  Len(shape) \in Nat /\ \A i \in 1..Len(shape) : shape[i] \in Nat
OBVIOUS

\* A product that wraps is in the range of ints, and is itself if it was.
LEMMA Wraps ==
    ASSUME NEW x \in Int
    PROVE  /\ Wrap(x) \in Int /\ Wrap(x) < IntLimit
           /\ 0 <= x /\ x < IntLimit => Wrap(x) = x
<1> DEFINE m == 2 * IntLimit
           y == x + IntLimit
<1>1. m \in Nat \ {0} /\ y \in Int /\ IntLimit \in Nat
  BY IntLimitAssumption
<1>2. Wrap(x) = (y % m) - IntLimit
  BY DEF Wrap
<1>3. m = IntLimit + IntLimit
  BY IntLimitAssumption
<1> HIDE DEF m
<1>4. y % m \in Int /\ y % m < m
  BY <1>1
<1>5. ASSUME 0 <= x, x < IntLimit PROVE y % m = y
  <2>1. 0 <= y /\ y < m
    BY <1>1, <1>3, <1>5
  <2> HIDE DEF y
  <2> QED BY <1>1, <2>1
<1>6. y % m = y => Wrap(x) = x
  BY <1>1, <1>2
<1> HIDE DEF y
<1> QED BY <1>1, <1>2, <1>3, <1>4, <1>5, <1>6

\* The arguments of a grid, as the promise reads them.
LEMMA GridPromise ==
    ASSUME NEW call, CallOK(call), GridCall(call), NEW args \in Bind(call)
    PROVE  /\ Promised!CellCount(call) = IntAt(args, 3) * IntAt(args, 4)
           /\ Promised!ArrayOf(call, "ph_weight") = ArrayAt(args, 1)
           /\ Promised!ArrayOf(call, "grid_lin") = ArrayAt(args, 2)
           /\ args[1] # {} /\ args[2] # {} /\ args[3] # {} /\ args[4] # {}
<1> DEFINE params == AccumulateParams
<1>1. Signature[call.fn] = params
  BY DEF Signature, GridCall
<1>2. /\ Len(params) = 5
      /\ params[1].name = "ph_weight" /\ params[1].needed
      /\ params[2].name = "grid_lin" /\ params[2].needed
      /\ params[3].name = "n_i" /\ params[3].needed
      /\ params[4].name = "n_j" /\ params[4].needed
  BY DEF AccumulateParams, Number, Optional, Param
<1> HIDE DEF params
<1>3. /\ Promised!ValueOf(call, "ph_weight") = CHOOSE v \in args[1] : TRUE
      /\ Promised!ValueOf(call, "grid_lin") = CHOOSE v \in args[2] : TRUE
      /\ Promised!ValueOf(call, "n_i") = CHOOSE v \in args[3] : TRUE
      /\ Promised!ValueOf(call, "n_j") = CHOOSE v \in args[4] : TRUE
  <2>1. \A k \in 1..5 : Promised!ValueOf(call, params[k].name) = CHOOSE v \in args[k] : TRUE
    <3> TAKE k \in 1..5
    <3>1. k \in 1..Len(Signature[call.fn])
      BY <1>1, <1>2
    <3>2. Promised!ValueOf(call, Signature[call.fn][k].name) = CHOOSE v \in args[k] : TRUE
      BY <3>1, ParamPlace
    <3> QED BY <1>1, <3>2
  <2>2. 1 \in 1..5 /\ 2 \in 1..5 /\ 3 \in 1..5 /\ 4 \in 1..5
    OBVIOUS
  <2> QED BY <1>2, <2>1, <2>2
<1>4. args[1] # {} /\ args[2] # {} /\ args[3] # {} /\ args[4] # {}
  <2>1. \A k \in 1..5 : params[k].needed => args[k] # {}
    BY <1>1, <1>2, ArgumentsMatch
  <2> QED BY <1>2, <2>1
<1>5. Promised!CellCount(call) = IntAt(args, 3) * IntAt(args, 4)
  BY <1>3, <1>4 DEF Promised!CellCount, IntAt
<1> QED BY <1>3, <1>4, <1>5 DEF Promised!ArrayOf, ArrayAt

\* The sides of a grid are counts, and so is their product.
LEMMA GridCounts ==
    ASSUME NEW call, CallOK(call), GridCall(call), NEW args \in Bind(call), GridInput(args)
    PROVE  LET cells == IntAt(args, 3) * IntAt(args, 4) IN
           /\ cells \in Nat
           /\ SizeIn(args) = Wrap(cells) /\ SizeIn(args) \in Int /\ SizeIn(args) < IntLimit
           /\ cells < IntLimit => SizeIn(args) = cells
<1>1. ASSUME NEW k \in {3, 4} PROVE IntAt(args, k) \in Nat
  <2> DEFINE v == CHOOSE v \in args[k] : TRUE
  <2>1. args[k] # {}
    BY GridPromise
  <2>2. v \in args[k]
    BY <2>1
  <2>3. Converts(Signature[call.fn][k], v)
    <3>1. Signature[call.fn] = AccumulateParams
      BY DEF Signature, GridCall
    <3>2. k \in 1..Len(Signature[call.fn])
      BY <3>1 DEF AccumulateParams
    <3> QED BY <2>2, <3>2, ArgumentsMatch
  <2>4. Signature[call.fn][k].takes = "int"
    <3>1. Signature[call.fn] = AccumulateParams
      BY DEF Signature, GridCall
    <3>2. AccumulateParams[3].takes = "int" /\ AccumulateParams[4].takes = "int"
      BY DEF AccumulateParams, Number, Optional, Param
    <3> HIDE DEF v
    <3> QED BY <3>1, <3>2
  <2>5. v.int \in Int
    BY <2>3, <2>4, IntLimitAssumption DEF Converts, AsInt
  <2>6. v.int >= 0
    BY <2>2 DEF GridInput
  <2> QED BY <2>1, <2>5, <2>6 DEF IntAt
<1> DEFINE a == IntAt(args, 3)
           b == IntAt(args, 4)
<1>2. a \in Nat /\ b \in Nat
  BY <1>1
<1>3. SizeIn(args) = Wrap(a * b)
  BY DEF SizeIn
<1> HIDE DEF a, b
<1>4. a * b \in Nat
  BY <1>2
<1>5. a * b \in Int /\ 0 <= a * b
  BY <1>4
<1> QED BY <1>3, <1>4, <1>5, Wraps DEF a, b

\* The calls that count.
HistCall(call) == call.fn = "histogram_with_centers"

\* What the arguments of a call are once they are bound.
ArgsOK(call, args) ==
    /\ args \in Bind(call)
    /\ GridCall(call) => GridInput(args)
    /\ HistCall(call) => HistogramInput(args)

\* A step of a body that does not pass shows that the call must not return.
LEMMA UnfoundIsRefused ==
    ASSUME NEW call, CallOK(call), NEW args, ArgsOK(call, args),
           NEW j \in 1..Len(BodyIn(call, args)), ~Found(call, args, BodyIn(call, args)[j])
    PROVE  ~Promised!MustReturn(call)
<1> DEFINE params == Signature[call.fn]
           body == BodyIn(call, args)
           name == body[j].of
<1>1. args \in Bind(call) /\ BodyOK(call.fn, body)
  BY BodiesAreOK DEF ArgsOK, CallOK
<1>2. ASSUME body[j].do \in {"buffer", "view"},
             \/ ~Validated(ArrayIn(call, args, name), Want(call.fn, name))
             \/ body[j].do = "view" /\ ~ArrayIn(call, args, name).writable
      PROVE  ~Promised!Well(call)
  <2>1. name \notin {"out", "mids"}
    BY <1>2, MadeArraysFit
  <2>2. PICK k \in 1..Len(params) :
            /\ params[k].name = name /\ params[k].takes = "array"
            /\ body[j].do = "view" => params[k].viewed
    BY <1>1, <1>2, <2>1 DEF BodyOK
  <2> DEFINE v == CHOOSE v \in args[k] : TRUE
  <2>3. v \in args[k] /\ ~Promised!Suits(v, params[k])
    BY <1>1, <1>2, <2>2, ArrayFits
  <2>4. v \in Promised!Sources(call, k)
    BY <1>1, <2>3, ArgumentsMatch
  <2> QED BY <2>3, <2>4 DEF Promised!Well
<1>3. ASSUME RefusedIn(call, args, name)
      PROVE  Promised!IsGrid(call) /\ ~Promised!GridFits(call)
  <2> DEFINE cells == IntAt(args, 3) * IntAt(args, 4)
  <2>1. GridCall(call) /\ GridInput(args)
    BY <1>3 DEF RefusedIn, ArgsOK
  <2>2. cells \in Nat /\ (cells < IntLimit => SizeIn(args) = cells)
    BY <1>1, <2>1, GridCounts
  <2>3. Promised!CellCount(call) = cells
    BY <1>1, <2>1, GridPromise
  <2>4. SizeIn(args) < 0 \/ SizeIn(args) * Shape(args)[2] # cells * Shape(args)[2]
    BY <1>3 DEF RefusedIn
  <2> HIDE DEF cells
  <2>5. ~(cells < IntLimit)
    BY <2>2, <2>4
  <2> QED BY <2>1, <2>3, <2>5 DEF GridCall, Promised!IsGrid, Promised!GridFits
<1>4. CASE body[j].do = "python"
  BY <1>3, <1>4 DEF Found, Promised!MustReturn
<1>5. CASE body[j].do \in {"buffer", "view"}
  BY <1>2, <1>5 DEF Found, Promised!MustReturn
<1>6. body[j].do \in {"buffer", "view", "python"}
  BY DEF Found
<1> QED BY <1>4, <1>5, <1>6

\* The arrays that have passed have the ranks of their parameters.
LEMMA FoundRanks ==
    ASSUME NEW call, CallOK(call), NEW args \in Bind(call),
           \A j \in 1..Len(BodyIn(call, args)) : Found(call, args, BodyIn(call, args)[j]),
           NEW k \in 1..Len(Signature[call.fn]), Signature[call.fn][k].takes = "array"
    PROVE  /\ Len(ArrayAt(args, k).shape) = Signature[call.fn][k].ndim
           /\ ArrayAt(args, k).shape \in Seq(Nat)
<1> DEFINE param == Signature[call.fn][k]
           body == BodyIn(call, args)
<1>1. PICK j \in 1..Len(body) : body[j] = Buf(param.name)
  BY BodiesAreOK DEF BodyOK, CallOK
<1>2. Validated(ArrayIn(call, args, param.name), Want(call.fn, param.name))
  BY <1>1 DEF Found, Buf
<1>3. ArrayIn(call, args, param.name) = ArrayAt(args, k) /\ Want(call.fn, param.name) = param
  BY ParamPlace DEF ArrayAt
<1>4. (CHOOSE v \in args[k] : TRUE).array \in DOMAIN Arrays
  BY ArrayFits
<1> QED BY <1>2, <1>3, <1>4, ArraysAssumption DEF Validated, ArrayAt

\* A body all of whose steps pass is that of a call that may return.
LEMMA FoundIsTaken ==
    ASSUME NEW call, CallOK(call), NEW args, ArgsOK(call, args),
           \A j \in 1..Len(BodyIn(call, args)) : Found(call, args, BodyIn(call, args)[j])
    PROVE  /\ Promised!MayReturn(call)
           /\ GridCall(call) => Shape(args)[2] = 0
                                  \/ SizeIn(args) = IntAt(args, 3) * IntAt(args, 4)
<1> DEFINE params == Signature[call.fn]
           body == BodyIn(call, args)
<1>1. args \in Bind(call) /\ BodyOK(call.fn, body)
  BY BodiesAreOK DEF ArgsOK, CallOK
<1>2. ASSUME NEW k \in 1..Len(params), NEW value \in args[k]
      PROVE  Promised!Suits(value, params[k])
  <2>1. ParamOK(params[k])
    BY ParamsAreKnown DEF CallOK, ParamsOK
  <2>2. Converts(params[k], value) /\ value \in Given(call) /\ \A x, y \in args[k] : x = y
    BY <1>1, ArgumentsMatch
  <2>3. CASE params[k].takes \in {"int", "double"}
    <3>1. value.kind = "int" => value.int \in Int
      BY <2>2 DEF CallOK
    <3> QED BY <2>2, <2>3, <3>1, NumbersSuit
  <2>4. CASE params[k].takes = "array"
    <3> DEFINE name == params[k].name
               v == CHOOSE v \in args[k] : TRUE
    <3>1. PICK j \in 1..Len(body) : body[j] = Buf(name)
      BY <1>1, <2>4 DEF BodyOK
    <3>2. Validated(ArrayIn(call, args, name), Want(call.fn, name))
      BY <3>1 DEF Found, Buf
    <3>3. params[k].viewed => ArrayIn(call, args, name).writable
      <4> SUFFICES ASSUME params[k].viewed PROVE ArrayIn(call, args, name).writable
        OBVIOUS
      <4>1. PICK i \in 1..Len(body) : body[i] = View(name)
        BY <1>1, <2>4 DEF BodyOK
      <4> QED BY <4>1 DEF Found, View
    <3>4. v \in args[k] /\ Promised!Suits(v, params[k])
      BY <1>1, <2>4, <3>2, <3>3, ArrayFits
    <3>5. value = v
      BY <2>2, <3>4
    <3> QED BY <3>4, <3>5
  <2> QED BY <2>1, <2>3, <2>4 DEF ParamOK
<1>3. Promised!Well(call)
  <2>1. Promised!Bindable(call) /\ \A k \in 1..Len(params) : Promised!Sources(call, k) = args[k]
    BY <1>1, ArgumentsMatch
  <2> QED BY <1>2, <2>1 DEF Promised!Well
<1>4. ASSUME GridCall(call)
      PROVE  /\ Promised!GridFits(call) \/ Promised!GridIsBare(call)
             /\ Shape(args)[2] = 0 \/ SizeIn(args) = IntAt(args, 3) * IntAt(args, 4)
  <2> DEFINE cells == IntAt(args, 3) * IntAt(args, 4)
             cols == Shape(args)[2]
             size == SizeIn(args)
  <2>1. GridInput(args)
    BY <1>4 DEF ArgsOK
  <2>2. cells \in Nat /\ size \in Int /\ size < IntLimit
    BY <1>1, <1>4, <2>1, GridCounts
  <2>3. Promised!CellCount(call) = cells /\ Promised!ArrayOf(call, "ph_weight").shape = Shape(args)
    BY <1>1, <1>4, GridPromise DEF Shape
  <2>4. body = AccumulateBody
    BY <1>4 DEF BodyIn, GridCall
  <2>5. ~RefusedIn(call, args, "reshape")
    <3>1. 9 \in 1..Len(body) /\ body[9] = Python("reshape")
      BY <2>4 DEF AccumulateBody
    <3>2. Found(call, args, Python("reshape"))
      BY <3>1
    <3> QED BY <3>2 DEF Found, Python
  <2>6. size * cols = cells * cols
    BY <1>4, <2>5 DEF RefusedIn
  <2>7. cols \in Nat
    <3>1. /\ 1 \in 1..Len(params) /\ params[1].ndim = 2 /\ params[1].takes = "array"
      <4>1. params = AccumulateParams
        BY <1>4 DEF Signature, GridCall
      <4>2. /\ Len(AccumulateParams) = 5 /\ AccumulateParams[1].ndim = 2
            /\ AccumulateParams[1].takes = "array"
        BY DEF AccumulateParams, Number, Optional, Param
      <4> HIDE DEF params
      <4> QED BY <4>1, <4>2
    <3>7. Len(Shape(args)) = 2 /\ Shape(args) \in Seq(Nat)
      BY <1>1, <3>1, FoundRanks DEF Shape, ArrayAt
    <3> DEFINE shape == Shape(args)
    <3>8. Len(shape) = 2 /\ shape \in Seq(Nat)
      BY <3>7
    <3> HIDE DEF shape
    <3>9. shape[2] \in Nat
      <4>1. 2 \in 1..Len(shape)
        BY <3>8
      <4> QED BY <3>8, <4>1, Extents
    <3> QED BY <3>9 DEF shape
  <2> HIDE DEF cells, cols, size
  <2>8. cols = 0 \/ size = cells
    BY <2>2, <2>6, <2>7
  <2>9. cols = 0 \/ cells < IntLimit
    BY <2>2, <2>8
  <2> QED BY <2>3, <2>8, <2>9 DEF Promised!GridFits, Promised!GridIsBare, cells, cols, size
<1> QED BY <1>3, <1>4 DEF Promised!MayReturn, Promised!IsGrid, GridCall

------------------------------------------------------------
(* Rows in order.                                                           *)

\* A growing sequence counts its elements.
LEMMA GrowingCounts ==
    ASSUME NEW s, NEW n \in Nat, \A j \in 1..n : s[j] \in Int,
           \A i, j \in 1..n : i < j => s[i] < s[j]
    PROVE  /\ \A i, j \in 1..n : s[i] < s[j] <=> i < j
           /\ \A i, j \in 1..n : s[i] = s[j] => i = j
           /\ Cardinality({ s[j] : j \in 1..n }) = n
<1>1. \A i, j \in 1..n : s[i] < s[j] <=> i < j
  <2> SUFFICES ASSUME NEW i \in 1..n, NEW j \in 1..n, ~(i < j)
               PROVE  ~(s[i] < s[j])
    OBVIOUS
  <2>1. s[i] \in Int /\ s[j] \in Int
    OBVIOUS
  <2>2. i = j \/ j < i
    OBVIOUS
  <2>3. i = j \/ s[j] < s[i]
    BY <2>2
  <2> QED BY <2>1, <2>3
<1>2. \A i, j \in 1..n : s[i] = s[j] => i = j
  <2> SUFFICES ASSUME NEW i \in 1..n, NEW j \in 1..n, i # j
               PROVE  s[i] # s[j]
    OBVIOUS
  <2>1. i < j \/ j < i
    OBVIOUS
  <2>2. s[i] < s[j] \/ s[j] < s[i]
    BY <2>1
  <2> QED BY <2>2
<1>3. Cardinality({ s[j] : j \in 1..n }) = n
  <2> DEFINE S == { s[j] : j \in 1..n }
             f == [j \in 1..n |-> s[j]]
  <2>1. f \in Bijection(1..n, S)
    <3>1. f \in [1..n -> S]
      OBVIOUS
    <3>2. \A i, j \in 1..n : f[i] = f[j] => i = j
      BY <1>2
    <3>3. \A x \in S : \E j \in 1..n : f[j] = x
      OBVIOUS
    <3> HIDE DEF f, S
    <3> QED BY <3>1, <3>2, <3>3 DEF Bijection, Injection, Surjection, IsInjective
  <2>2. ExistsBijection(1..n, S)
    BY <2>1 DEF ExistsBijection
  <2> HIDE DEF S, f
  <2>3. Cardinality(S) = n
    BY <2>2, FS_CountingElements
  <2> QED BY <2>3 DEF S
<1> QED BY <1>1, <1>2, <1>3

\* The only growing sequence of rows is the one in their order.
LEMMA GrowingIsInOrder ==
    ASSUME NEW R \in SUBSET Int, NEW s \in Seq(R), Growing(s), Elements(s) = R
    PROVE  s = Promised!InOrder(R)
<1> DEFINE n == Len(s)
<1>1. n \in Nat /\ s = [j \in 1..n |-> s[j]] /\ \A j \in 1..n : s[j] \in R
  OBVIOUS
<1>2. R = { s[j] : j \in 1..n }
  BY DEF Elements
<1>3. \A i, j \in 1..n : i < j => s[i] < s[j]
  BY DEF Growing
<1>4. \A j \in 1..n : s[j] \in Int
  BY <1>1
<1> HIDE DEF n
<1>5. /\ \A i, j \in 1..n : s[i] < s[j] <=> i < j
      /\ \A i, j \in 1..n : s[i] = s[j] => i = j
      /\ Cardinality(R) = n
  BY <1>1, <1>2, <1>3, <1>4, GrowingCounts
<1>6. \A j \in 1..n : Cardinality({ q \in R : q < s[j] }) = j - 1
  <2> TAKE j \in 1..n
  <2> DEFINE m == j - 1
  <2>1. m \in Nat /\ 1..m \subseteq 1..n /\ \A i \in 1..n : i < j <=> i \in 1..m
    BY <1>1
  <2> HIDE DEF m
  <2>2. { q \in R : q < s[j] } = { s[i] : i \in 1..m }
    <3>1. ASSUME NEW q \in R, q < s[j] PROVE q \in { s[i] : i \in 1..m }
      <4>1. PICK i \in 1..n : q = s[i]
        BY <1>2
      <4>2. i \in 1..m
        BY <1>5, <2>1, <3>1, <4>1
      <4> QED BY <4>1, <4>2
    <3>2. ASSUME NEW i \in 1..m PROVE s[i] \in R /\ s[i] < s[j]
      BY <1>1, <1>5, <2>1
    <3> QED BY <3>1, <3>2
  <2>3. Cardinality({ s[i] : i \in 1..m }) = m
    <3>1. \A i \in 1..m : s[i] \in Int
      BY <1>4, <2>1
    <3>2. \A i, k \in 1..m : i < k => s[i] < s[k]
      BY <1>3, <2>1
    <3> QED BY <2>1, <3>1, <3>2, GrowingCounts
  <2> QED BY <2>2, <2>3 DEF m
<1>7. \A j \in 1..n :
          s[j] = CHOOSE r \in R : Promised!Cardinality({ q \in R : q < r }) = j - 1
  <2> TAKE j \in 1..n
  <2> DEFINE x == CHOOSE r \in R : Promised!Cardinality({ q \in R : q < r }) = j - 1
  <2>1. Promised!Cardinality({ q \in R : q < s[j] }) = j - 1
    BY <1>6, CountsAgree
  <2>2. x \in R /\ Promised!Cardinality({ q \in R : q < x }) = j - 1
    BY <1>1, <2>1
  <2> HIDE DEF x
  <2>3. PICK i \in 1..n : x = s[i]
    BY <1>2, <2>2
  <2>4. Cardinality({ q \in R : q < s[i] }) = j - 1
    BY <2>2, <2>3, CountsAgree
  <2>5. i - 1 = j - 1
    BY <1>6, <2>4
  <2>6. i = j
    BY <1>1, <2>5
  <2> QED BY <2>3, <2>6 DEF x
<1>8. Promised!Cardinality(R) = n
  BY <1>5, CountsAgree
<1>9. Promised!InOrder(R)
        = [j \in 1..n |-> CHOOSE r \in R : Promised!Cardinality({ q \in R : q < r }) = j - 1]
  BY <1>8 DEF Promised!InOrder
<1> QED BY <1>1, <1>7, <1>9

\* The sums of one thread are those promised.
LEMMA GridResult ==
    ASSUME NEW call, CallOK(call), GridCall(call), NEW args, ArgsOK(call, args),
           \A j \in 1..Len(BodyIn(call, args)) : Found(call, args, BodyIn(call, args)[j]),
           NEW sums, Sequential(args, sums), sums = [at \in DOMAIN sums |-> sums[at]]
    PROVE  [sums |-> sums] \in Promised!Results(call)
<1> DEFINE cells == IntAt(args, 3) * IntAt(args, 4)
           rows == Shape(args)[1]
           cols == Shape(args)[2]
           index == Indices(args)
           size == SizeIn(args)
<1>1. args \in Bind(call) /\ GridInput(args)
  BY DEF ArgsOK
<1>2. /\ Len(ArrayAt(args, 1).shape) = 2 /\ Len(ArrayAt(args, 2).shape) = 1
      /\ ArrayAt(args, 1).shape \in Seq(Nat)
  <2>1. Signature[call.fn] = AccumulateParams
    BY DEF Signature, GridCall
  <2>2. /\ Len(AccumulateParams) = 5
        /\ AccumulateParams[1].takes = "array" /\ AccumulateParams[1].ndim = 2
        /\ AccumulateParams[2].takes = "array" /\ AccumulateParams[2].ndim = 1
    BY DEF AccumulateParams, Number, Optional, Param
  <2>3. 1 \in 1..Len(Signature[call.fn]) /\ 2 \in 1..Len(Signature[call.fn])
    BY <2>1, <2>2
  <2> QED BY <1>1, <2>1, <2>2, <2>3, FoundRanks
<1>3. rows \in Nat /\ cols \in Nat
  BY <1>2, Extents DEF Shape
<1>4. args[1] # {} /\ args[2] # {}
  BY <1>1, GridPromise
<1>5. Len(index) = rows
  BY <1>1, <1>2, <1>4 DEF GridInput, ArrayAt, Indices, Shape
<1>6. /\ Promised!CellCount(call) = cells
      /\ Promised!ArrayOf(call, "ph_weight").shape = Shape(args)
      /\ Promised!ArrayOf(call, "grid_lin").data = index
  BY <1>1, GridPromise DEF Shape, Indices
<1>7. cells \in Nat /\ size \in Int
  BY <1>1, GridCounts
<1>8. cols = 0 \/ size = cells
  BY FoundIsTaken
<1>9. Promised!GridSums(call)
        = [at \in (0..(cells - 1)) \X (1..cols) |-> Promised!InOrder(Promised!RowsOf(call, at[1]))]
  BY <1>6 DEF Promised!GridSums
<1>10. \A cell : Promised!RowsOf(call, cell) = { r \in 1..rows : index[r] = cell }
  BY <1>5, <1>6 DEF Promised!RowsOf
<1>11. /\ DOMAIN sums = (0..(size - 1)) \X (1..cols)
       /\ \A at \in DOMAIN sums :
             /\ sums[at] \in Seq(1..rows) /\ Growing(sums[at])
             /\ Elements(sums[at]) = { r \in 1..rows : index[r] = at[1] }
  BY DEF Sequential
<1> HIDE DEF cells, rows, cols, index, size
<1>12. DOMAIN sums = (0..(cells - 1)) \X (1..cols)
  <2>1. CASE cols = 0
    <3>1. 1..cols = {}
      BY <2>1
    <3> QED BY <1>11, <3>1
  <2>2. CASE size = cells
    BY <1>11, <2>2
  <2> QED BY <1>8, <2>1, <2>2
<1>13. ASSUME NEW at \in DOMAIN sums
       PROVE  sums[at] = Promised!InOrder(Promised!RowsOf(call, at[1]))
  <2> DEFINE R == { r \in 1..rows : index[r] = at[1] }
             s == sums[at]
  <2>1. s \in Seq(1..rows) /\ Growing(s) /\ Elements(s) = R
    BY <1>11
  <2>2. R \in SUBSET Int
    OBVIOUS
  <2> HIDE DEF s
  <2>3. s \in Seq(R)
    <3>1. Len(s) \in Nat /\ s = [j \in 1..Len(s) |-> s[j]]
      BY <2>1
    <3>2. \A j \in 1..Len(s) : s[j] \in R
      BY <2>1 DEF Elements
    <3> HIDE DEF R
    <3> QED BY <3>1, <3>2
  <2> HIDE DEF R
  <2>4. s = Promised!InOrder(R)
    BY <2>1, <2>2, <2>3, GrowingIsInOrder
  <2> QED BY <1>10, <2>4 DEF R, s
<1>14. sums = Promised!GridSums(call)
  BY <1>9, <1>12, <1>13
<1>15. Promised!Results(call) = {[sums |-> Promised!GridSums(call)]}
  BY DEF Promised!Results, GridCall
<1> QED BY <1>14, <1>15

------------------------------------------------------------
(* The functions that hand over to Python.                                  *)

\* What a caller reads of a parameter.
LEMMA ArgPlace ==
    ASSUME NEW c, CallOK(callers[c].call), NEW k \in 1..Len(Signature[callers[c].call.fn])
    PROVE  ArgOf(c, Signature[callers[c].call.fn][k].name) = callers[c].args[k]
<1> DEFINE params == Signature[callers[c].call.fn]
           name == params[k].name
           named == CHOOSE j \in 1..Len(params) : params[j].name = name
<1>1. ParamsOK(params)
  BY ParamsAreKnown DEF CallOK
<1>2. ArgOf(c, name) = callers[c].args[named]
  BY DEF ArgOf
<1>3. named \in 1..Len(params) /\ params[named].name = name
  OBVIOUS
<1> HIDE DEF named
<1>4. named = k
  BY <1>1, <1>3 DEF ParamsOK
<1> QED BY <1>2, <1>4

\* They hand over what the promise says.
LEMMA DelegatedResult ==
    ASSUME NEW c, CallOK(callers[c].call), callers[c].args \in Bind(callers[c].call),
           ~GridCall(callers[c].call), ~HistCall(callers[c].call)
    PROVE  ResultOf(c) \in Promised!Results(callers[c].call)
<1> DEFINE call == callers[c].call
           args == callers[c].args
           params == Signature[call.fn]
           bperp == params[2].name
           phase == (CHOOSE v \in args[1] : TRUE)
           base == (CHOOSE v \in args[2] : TRUE)
           wraps == (CHOOSE v \in args[3] : TRUE)
           fns == {"ps_topofit_batch_generic", "ps_topofit_batch_row_invariant",
                   "ps_topofit_coh_row_invariant"}
<1>1. call.fn \in fns
  BY DEF CallOK, Signature, GridCall, HistCall
<1>2. /\ Len(params) = 4 /\ params[1].name = "cpxphase" /\ params[3].name = "n_trial_wraps"
      /\ params[3].needed
      /\ bperp = IF call.fn = "ps_topofit_batch_generic" THEN "bperp" ELSE "bperp_vec"
  <2>1. ASSUME NEW name, NEW ndim
        PROVE  /\ Len(TopofitParams(name, ndim)) = 4
               /\ TopofitParams(name, ndim)[1].name = "cpxphase"
               /\ TopofitParams(name, ndim)[2].name = name
               /\ TopofitParams(name, ndim)[3].name = "n_trial_wraps"
               /\ TopofitParams(name, ndim)[3].needed
    BY DEF TopofitParams, Param, Number, Optional
  <2>2. params = TopofitParams(IF call.fn = "ps_topofit_batch_generic" THEN "bperp"
                               ELSE "bperp_vec",
                               IF call.fn = "ps_topofit_batch_generic" THEN 2 ELSE 1)
    BY <1>1 DEF Signature, GenericParams, RowInvariantParams, CoherenceParams
  <2> HIDE DEF params
  <2> QED BY <2>1, <2>2
<1>3. 1 \in 1..Len(params) /\ 2 \in 1..Len(params) /\ 3 \in 1..Len(params)
  BY <1>2
<1>4. /\ Promised!ValueOf(call, "cpxphase") = phase
      /\ Promised!ValueOf(call, bperp) = base
      /\ Promised!ValueOf(call, "n_trial_wraps") = wraps
  <2>1. ASSUME NEW k \in 1..Len(params)
        PROVE  Promised!ValueOf(call, params[k].name) = CHOOSE v \in args[k] : TRUE
    BY ParamPlace
  <2> HIDE DEF params
  <2> QED BY <1>2, <1>3, <2>1
<1>5. /\ ArgOf(c, "cpxphase") = args[1] /\ ArgOf(c, bperp) = args[2]
      /\ ArgOf(c, "n_trial_wraps") = args[3]
  <2>1. ASSUME NEW k \in 1..Len(params) PROVE ArgOf(c, params[k].name) = args[k]
    BY ArgPlace
  <2> HIDE DEF params
  <2> QED BY <1>2, <1>3, <2>1
<1>6. args[3] # {}
  BY <1>2, <1>3, ArgumentsMatch
<1>7. /\ GivenArray(c, "cpxphase") = phase.array /\ GivenArray(c, bperp) = base.array
      /\ IntOf(c, "n_trial_wraps", 0) = wraps.int
  BY <1>5, <1>6 DEF GivenArray, IntOf
<1>8. TheArray(c, "cpxphase") = Promised!ArrayOf(call, "cpxphase")
  BY <1>4, <1>7 DEF TheArray, Promised!ArrayOf
<1> HIDE DEF params, bperp, phase, base, wraps
<1>9. ASSUME NEW implementation, NEW repeats, NEW item
      PROVE  Delegated(c, implementation, bperp, repeats, item)
               = Promised!Delegated(call, implementation, bperp, repeats, item)
  BY <1>4, <1>7 DEF Delegated, Promised!Delegated
<1>10. Tiled(c) = Promised!PhaseRows(call)
  BY <1>8 DEF Tiled, Promised!PhaseRows
<1>11. CASE call.fn = "ps_topofit_batch_generic"
  <2>1. ResultOf(c) = Delegated(c, "_ps_topofit_batch_generic", bperp, {}, {})
    BY <1>2, <1>11 DEF ResultOf
  <2>2. Promised!Results(call) =
            {Promised!Delegated(call, "_ps_topofit_batch_generic", bperp, {}, {})}
    BY <1>2, <1>11 DEF Promised!Results
  <2> QED BY <1>9, <2>1, <2>2
<1>12. CASE call.fn = "ps_topofit_batch_row_invariant"
  <2>1. ResultOf(c) = Delegated(c, "_ps_topofit_batch_row_invariant", bperp, Tiled(c), {})
    BY <1>2, <1>12 DEF ResultOf
  <2>2. Promised!Results(call)
          = {Promised!Delegated(call, "_ps_topofit_batch_row_invariant", bperp,
                                Promised!PhaseRows(call), {})}
    BY <1>2, <1>12 DEF Promised!Results
  <2> QED BY <1>9, <1>10, <2>1, <2>2
<1>13. CASE call.fn = "ps_topofit_coh_row_invariant"
  <2>1. ResultOf(c) = Delegated(c, "_ps_topofit_batch_row_invariant", bperp, Tiled(c), {2})
    BY <1>2, <1>13 DEF ResultOf
  <2>2. Promised!Results(call)
          = {Promised!Delegated(call, "_ps_topofit_batch_row_invariant", bperp,
                                Promised!PhaseRows(call), {2})}
    BY <1>2, <1>13 DEF Promised!Results
  <2> QED BY <1>9, <1>10, <2>1, <2>2
<1> QED BY <1>1, <1>11, <1>12, <1>13

------------------------------------------------------------
(* The search for a bin.                                                    *)

\* Every set of naturals has a least element.
LEMMA LeastOf ==
    ASSUME NEW T \in SUBSET Nat, T # {}
    PROVE  \E m \in T : \A k \in T : m <= k
<1> DEFINE R == OpToRel(<, Nat)
<1>1. IsWellFoundedOn(R, Nat)
  BY NatLessThanWellFounded
<1>2. \A i, j \in Nat : <<i, j>> \in R <=> i < j
  BY DEF OpToRel
<1> HIDE DEF R
<1>3. PICK m \in T : \A k \in T : ~(<<k, m>> \in R)
  BY <1>1, WFMin
<1>4. ASSUME NEW k \in T PROVE m <= k
  <2>1. k \in Nat /\ m \in Nat
    OBVIOUS
  <2>2. ~(k < m)
    BY <1>2, <1>3, <2>1
  <2> QED BY <2>1, <2>2
<1> QED BY <1>4

\* The numbers up to a place are as many as the place.
LEMMA UpTo ==
    ASSUME NEW n \in Nat, NEW S \in SUBSET (1..n),
           \A k \in S : \A j \in 1..n : j <= k => j \in S
    PROVE  Cardinality(S) \in 0..n /\ \A k \in 1..n : k \in S <=> k <= Cardinality(S)
<1> DEFINE T == { m \in 0..n : \A k \in S : k <= m }
<1>1. n \in T /\ T \in SUBSET Nat
  OBVIOUS
<1>2. PICK m \in T : \A k \in T : m <= k
  BY <1>1, LeastOf
<1>3. m \in 0..n /\ \A k \in S : k <= m
  OBVIOUS
<1>4. S = 1..m
  <2>1. CASE m = 0
    BY <1>3, <2>1
  <2>2. CASE m # 0
    <3>1. m \in S
      <4> SUFFICES ASSUME m \notin S PROVE FALSE
        OBVIOUS
      <4>1. \A k \in S : k <= m - 1
        BY <1>3
      <4>2. m - 1 \in T
        BY <1>3, <2>2, <4>1
      <4> QED BY <1>2, <1>3, <4>2
    <3>2. \A j \in 1..n : j <= m => j \in S
      BY <3>1
    <3>3. \A j \in 1..m : j \in S
      BY <1>3, <3>2
    <3>4. \A k \in S : k \in 1..m
      BY <1>3
    <3> QED BY <3>3, <3>4
  <2> QED BY <2>1, <2>2
<1>5. Cardinality(S) = m
  <2>1. Cardinality(1..m) = IF 1 > m THEN 0 ELSE m - 1 + 1
    BY <1>3, FS_Interval
  <2> QED BY <1>3, <1>4, <2>1
<1> QED BY <1>3, <1>4, <1>5

\* The place searched for lies between the bounds, which draw closer by one at
\* least in every turn.
Between(range, t, n, turn) ==
    /\ range \in [lo : Int, hi : Int]
    /\ 0 <= range.lo /\ range.lo <= t /\ t <= range.hi /\ range.hi <= n
    /\ range.lo = range.hi \/ range.hi - range.lo <= n - turn

\* A turn of the search.
LEMMA HalveKeeps ==
    ASSUME NEW n \in Nat, NEW mids, NEW sample \in Int, NEW t \in 0..n,
           \A k \in 1..n : mids[k] < 2 * sample <=> k <= t,
           NEW turn \in Nat, NEW range, Between(range, t, n, turn)
    PROVE  Between(Halve(range, mids, sample), t, n, turn + 1)
<1> DEFINE lo == range.lo
           hi == range.hi
           mid == (lo + hi) \div 2
<1>1. /\ lo \in Int /\ hi \in Int /\ 0 <= lo /\ lo <= t /\ t <= hi /\ hi <= n
      /\ lo = hi \/ hi - lo <= n - turn
      /\ range = [lo |-> lo, hi |-> hi]
  BY DEF Between
<1>2. Halve(range, mids, sample)
        = IF lo >= hi THEN range
          ELSE IF mids[mid + 1] < 2 * sample THEN [range EXCEPT !.lo = mid + 1]
          ELSE [range EXCEPT !.hi = mid]
  BY DEF Halve
<1> HIDE DEF lo, hi
<1>3. lo < hi => mid \in Int /\ lo <= mid /\ mid < hi
  BY <1>1
<1> HIDE DEF mid
<1>4. CASE lo >= hi
  <2>1. lo = hi
    BY <1>1, <1>4
  <2> QED BY <1>1, <1>2, <1>4, <2>1 DEF Between
<1>5. CASE lo < hi /\ mids[mid + 1] < 2 * sample
  <2>1. mid + 1 \in 1..n
    BY <1>1, <1>3, <1>5
  <2>2. mid + 1 <= t
    BY <1>5, <2>1
  <2>3. Halve(range, mids, sample) = [lo |-> mid + 1, hi |-> hi]
    BY <1>1, <1>2, <1>5
  <2> QED BY <1>1, <1>3, <1>5, <2>2, <2>3 DEF Between
<1>6. CASE lo < hi /\ ~(mids[mid + 1] < 2 * sample)
  <2>1. mid + 1 \in 1..n
    BY <1>1, <1>3, <1>6
  <2>2. ~(mid + 1 <= t)
    BY <1>6, <2>1
  <2>3. Halve(range, mids, sample) = [lo |-> lo, hi |-> mid]
    BY <1>1, <1>2, <1>6
  <2> QED BY <1>1, <1>3, <1>6, <2>2, <2>3 DEF Between
<1> QED BY <1>1, <1>4, <1>5, <1>6

\* The turns of a search, of which there are as many as one likes.
Turns(mids, sample, n, f) ==
    f = [turn \in 0..n |-> IF turn = 0 THEN [lo |-> 0, hi |-> Len(mids)]
                           ELSE Halve(f[turn - 1], mids, sample)]

\* A search goes on for any number of turns.
LEMMA TurnsExist ==
    ASSUME NEW mids, NEW sample, NEW n \in Nat
    PROVE  \E f : Turns(mids, sample, n, f)
<1> DEFINE T == { m \in Nat : ~\E f : Turns(mids, sample, m, f) }
           start == [lo |-> 0, hi |-> Len(mids)]
<1> SUFFICES ASSUME n \in T PROVE FALSE
  OBVIOUS
<1>1. PICK m \in T : \A k \in T : m <= k
  <2>1. T \in SUBSET Nat /\ T # {}
    OBVIOUS
  <2> HIDE DEF T
  <2> QED BY <2>1, LeastOf
<1>2. m \in Nat /\ ~\E f : Turns(mids, sample, m, f)
  OBVIOUS
<1>3. CASE m = 0
  <2> DEFINE f == [turn \in 0..0 |-> start]
  <2>1. Turns(mids, sample, 0, f)
    BY DEF Turns
  <2> QED BY <1>2, <1>3, <2>1
<1>4. CASE m # 0
  <2>1. m - 1 \in Nat /\ m - 1 \notin T
    BY <1>1, <1>2, <1>4
  <2>2. PICK g : Turns(mids, sample, m - 1, g)
    BY <2>1
  <2> DEFINE f == [turn \in 0..m |-> IF turn = m THEN Halve(g[m - 1], mids, sample) ELSE g[turn]]
  <2>3. \A turn \in 0..m : f[turn] = IF turn = 0 THEN start ELSE Halve(f[turn - 1], mids, sample)
    <3> TAKE turn \in 0..m
    <3>1. CASE turn = m
      <4>1. f[m] = Halve(g[m - 1], mids, sample) /\ f[m - 1] = g[m - 1]
        BY <1>2, <1>4
      <4> HIDE DEF f
      <4> QED BY <1>4, <3>1, <4>1
    <3>2. CASE turn # m
      <4>1. turn \in 0..(m - 1) /\ f[turn] = g[turn]
        BY <1>2, <3>2
      <4>2. turn # 0 => f[turn - 1] = g[turn - 1]
        BY <1>2, <3>2
      <4>3. g[turn] = IF turn = 0 THEN start ELSE Halve(g[turn - 1], mids, sample)
        BY <2>2, <4>1 DEF Turns
      <4> HIDE DEF f
      <4> QED BY <4>1, <4>2, <4>3
    <3> QED BY <3>1, <3>2
  <2>4. f = [turn \in 0..m |-> f[turn]]
    OBVIOUS
  <2> HIDE DEF f
  <2>5. Turns(mids, sample, m, f)
    BY <2>3, <2>4 DEF Turns
  <2> QED BY <1>2, <2>5
<1> QED BY <1>3, <1>4

\* The search finds the first midpoint that is not below the sample.
LEMMA SearchFinds ==
    ASSUME NEW mids, Len(mids) \in Nat, \A k \in 1..Len(mids) : mids[k] \in Int,
           \A j, k \in 1..Len(mids) : j <= k => mids[j] <= mids[k],
           NEW sample \in Int
    PROVE  Search(mids, sample) = Cardinality({ k \in 1..Len(mids) : mids[k] < 2 * sample })
<1> DEFINE n == Len(mids)
           below == { k \in 1..n : mids[k] < 2 * sample }
           t == Cardinality(below)
           F == CHOOSE f : Turns(mids, sample, n + 1, f)
<1>1. Turns(mids, sample, n + 1, F)
  <2>1. n + 1 \in Nat
    OBVIOUS
  <2> HIDE DEF n
  <2> QED BY <2>1, TurnsExist
<1>2. Search(mids, sample) = F[n + 1].lo
  BY DEF Search, Turns
<1>3. t \in 0..n /\ \A k \in 1..n : mids[k] < 2 * sample <=> k <= t
  <2>1. \A k \in below : \A j \in 1..n : j <= k => j \in below
    <3> TAKE k \in below
    <3> TAKE j \in 1..n
    <3>1. j <= k => mids[j] <= mids[k]
      OBVIOUS
    <3> QED BY <3>1
  <2>2. below \in SUBSET (1..n) /\ \A k \in 1..n : k \in below <=> mids[k] < 2 * sample
    OBVIOUS
  <2> HIDE DEF below, n
  <2>3. n \in Nat
    BY DEF n
  <2>4. Cardinality(below) \in 0..n /\ \A k \in 1..n : k \in below <=> k <= Cardinality(below)
    BY <2>1, <2>2, <2>3, UpTo
  <2> QED BY <2>2, <2>4
<1>4. n \in Nat
  OBVIOUS
<1>5. F[0] = [lo |-> 0, hi |-> n]
      /\ \A turn \in 1..(n + 1) : F[turn] = Halve(F[turn - 1], mids, sample)
  <2> HIDE DEF F
  <2> QED BY <1>1, <1>4 DEF Turns
<1> HIDE DEF n, t, F
<1> DEFINE T == { turn \in 0..(n + 1) : ~Between(F[turn], t, n, turn) }
<1>6. T = {}
  <2> SUFFICES ASSUME T # {} PROVE FALSE
    OBVIOUS
  <2>1. T \in SUBSET Nat
    BY <1>4
  <2>2. PICK m \in T : \A k \in T : m <= k
    <3> HIDE DEF T
    <3> QED BY <2>1, LeastOf
  <2>3. m \in 0..(n + 1) /\ ~Between(F[m], t, n, m)
    OBVIOUS
  <2>4. CASE m = 0
    BY <1>3, <1>4, <1>5, <2>3, <2>4 DEF Between
  <2>5. CASE m # 0
    <3>1. m - 1 \in 0..(n + 1) /\ m - 1 \in Nat /\ m \in 1..(n + 1) /\ m - 1 \notin T
      BY <1>4, <2>2, <2>3, <2>5
    <3>2. Between(F[m - 1], t, n, m - 1)
      BY <3>1
    <3>3. Between(Halve(F[m - 1], mids, sample), t, n, m - 1 + 1)
      BY <1>3, <1>4, <3>1, <3>2, HalveKeeps
    <3>4. m - 1 + 1 = m
      BY <2>3
    <3>5. F[m] = Halve(F[m - 1], mids, sample)
      BY <1>5, <3>1
    <3> QED BY <2>3, <3>3, <3>4, <3>5
  <2> QED BY <2>4, <2>5
<1>7. Between(F[n + 1], t, n, n + 1)
  BY <1>4, <1>6
<1>8. F[n + 1].lo = t
  BY <1>3, <1>4, <1>7 DEF Between
<1> QED BY <1>2, <1>8 DEF t, n

------------------------------------------------------------
(* Histograms.                                                              *)

\* The arguments of a histogram, as the promise and the code read them.
LEMMA HistPromise ==
    ASSUME NEW call, CallOK(call), HistCall(call), NEW args, ArgsOK(call, args)
    PROVE  /\ Promised!ArrayOf(call, "values") = ArrayAt(args, 1)
           /\ Promised!ArrayOf(call, "centers") = ArrayAt(args, 2)
           /\ ArrayIn(call, args, "values") = ArrayAt(args, 1)
           /\ ArrayIn(call, args, "centers") = ArrayAt(args, 2)
           /\ BodyIn(call, args) = HistogramBody(ArrayAt(args, 2).shape[1])
           /\ args[1] # {} /\ args[2] # {}
<1> DEFINE params == HistogramParams
<1>1. Signature[call.fn] = params /\ args \in Bind(call)
  BY DEF Signature, HistCall, ArgsOK
<1>2. /\ Len(params) = 2
      /\ params[1].name = "values" /\ params[1].needed
      /\ params[2].name = "centers" /\ params[2].needed
  BY DEF HistogramParams, Param
<1> HIDE DEF params
<1>3. ASSUME NEW k \in 1..2
      PROVE  /\ Promised!ValueOf(call, params[k].name) = CHOOSE v \in args[k] : TRUE
             /\ ArrayIn(call, args, params[k].name) = Arrays[(CHOOSE v \in args[k] : TRUE).array]
             /\ GivenIn(call, args, params[k].name) = (CHOOSE v \in args[k] : TRUE).array
             /\ params[k].needed => args[k] # {}
  <2>1. k \in 1..Len(Signature[call.fn])
    BY <1>1, <1>2
  <2>2. /\ Promised!ValueOf(call, Signature[call.fn][k].name) = CHOOSE v \in args[k] : TRUE
        /\ ArrayIn(call, args, Signature[call.fn][k].name)
             = Arrays[(CHOOSE v \in args[k] : TRUE).array]
        /\ GivenIn(call, args, Signature[call.fn][k].name) = (CHOOSE v \in args[k] : TRUE).array
    BY <1>1, <2>1, ParamPlace
  <2>3. Signature[call.fn][k].needed => args[k] # {}
    BY <1>1, <2>1, ArgumentsMatch
  <2> QED BY <1>1, <2>2, <2>3
<1>4. 1 \in 1..2 /\ 2 \in 1..2
  OBVIOUS
<1>5. /\ Promised!ArrayOf(call, "values") = ArrayAt(args, 1)
      /\ Promised!ArrayOf(call, "centers") = ArrayAt(args, 2)
  BY <1>2, <1>3, <1>4 DEF Promised!ArrayOf, ArrayAt
<1>6. /\ ArrayIn(call, args, "values") = ArrayAt(args, 1)
      /\ ArrayIn(call, args, "centers") = ArrayAt(args, 2)
      /\ args[1] # {} /\ args[2] # {}
  BY <1>2, <1>3, <1>4 DEF ArrayAt
<1>7. Arrays[GivenIn(call, args, "centers")] = ArrayAt(args, 2)
  BY <1>2, <1>3, <1>4 DEF ArrayAt
<1>8. BodyIn(call, args) = HistogramBody(ArrayAt(args, 2).shape[1])
  BY <1>7 DEF BodyIn, HistCall
<1> QED BY <1>5, <1>6, <1>8

\* The arrays of a histogram, once they have passed.
LEMMA HistArrays ==
    ASSUME NEW call, CallOK(call), HistCall(call), NEW args, ArgsOK(call, args),
           \A j \in 1..Len(BodyIn(call, args)) : Found(call, args, BodyIn(call, args)[j])
    PROVE  LET values == ArrayAt(args, 1).data
               centers == ArrayAt(args, 2).data IN
           /\ Len(values) \in Nat /\ Len(centers) \in Nat
           /\ Len(centers) = ArrayAt(args, 2).shape[1]
           /\ \A j \in 1..Len(values) : /\ values[j] \subseteq Int
                                        /\ \A x, y \in values[j] : x = y
           /\ \A k \in 1..Len(centers) : centers[k] \in Int
           /\ \A j, k \in 1..Len(centers) : j <= k => centers[j] <= centers[k]
<1> DEFINE values == ArrayAt(args, 1)
           centers == ArrayAt(args, 2)
<1>1. args \in Bind(call) /\ HistogramInput(args) /\ args[1] # {} /\ args[2] # {}
  BY HistPromise DEF ArgsOK
<1>2. /\ Len(values.shape) = 1 /\ Len(centers.shape) = 1
      /\ values.shape \in Seq(Nat) /\ centers.shape \in Seq(Nat)
  <2>1. Signature[call.fn] = HistogramParams
    BY DEF Signature, HistCall
  <2>2. /\ Len(HistogramParams) = 2
        /\ HistogramParams[1].takes = "array" /\ HistogramParams[1].ndim = 1
        /\ HistogramParams[2].takes = "array" /\ HistogramParams[2].ndim = 1
    BY DEF HistogramParams, Param
  <2>3. 1 \in 1..Len(Signature[call.fn]) /\ 2 \in 1..Len(Signature[call.fn])
    BY <2>1, <2>2
  <2> QED BY <1>1, <2>1, <2>2, <2>3, FoundRanks
<1>3. values.shape[1] \in Nat /\ centers.shape[1] \in Nat
  BY <1>2, Extents
<1>4. /\ Len(values.data) = values.shape[1] /\ Len(centers.data) = centers.shape[1]
      /\ \A j \in 1..Len(values.data) :
            /\ values.data[j] \subseteq Int
            /\ \A x, y \in values.data[j] : x = y
      /\ \A j, k \in 1..Len(centers.data) :
            /\ centers.data[j] \in Int
            /\ j <= k => centers.data[j] <= centers.data[k]
  BY <1>1, <1>2 DEF HistogramInput, ArrayAt
<1> QED BY <1>3, <1>4

\* The midpoints of centres that ascend ascend.
LEMMA MidpointsAscend ==
    ASSUME NEW centers, Len(centers) \in Nat, Len(centers) # 0,
           \A k \in 1..Len(centers) : centers[k] \in Int,
           \A j, k \in 1..Len(centers) : j <= k => centers[j] <= centers[k]
    PROVE  LET mids == Midpoints(centers) IN
           /\ Len(mids) = Len(centers) - 1
           /\ \A k \in 1..Len(mids) : mids[k] = centers[k] + centers[k + 1] /\ mids[k] \in Int
           /\ \A j, k \in 1..Len(mids) : j <= k => mids[j] <= mids[k]
<1> DEFINE mids == Midpoints(centers)
           n == Len(centers) - 1
<1>1. n \in Nat
  OBVIOUS
<1>2. mids = [k \in 1..n |-> centers[k] + centers[k + 1]]
  BY DEF Midpoints
<1> HIDE DEF mids
<1>3. \A k \in 1..n : centers[k] \in Int /\ centers[k + 1] \in Int
  OBVIOUS
<1>4. ASSUME NEW j \in 1..n, NEW k \in 1..n, j <= k
      PROVE  centers[j] <= centers[k] /\ centers[j + 1] <= centers[k + 1]
  BY <1>4
<1> HIDE DEF n
<1>5. mids \in Seq(Int) /\ Len(mids) = n
  BY <1>1, <1>2, <1>3
<1>6. \A k \in 1..n : mids[k] = centers[k] + centers[k + 1] /\ mids[k] \in Int
  BY <1>2, <1>3
<1>7. \A j, k \in 1..n : j <= k => mids[j] <= mids[k]
  <2> TAKE j, k \in 1..n
  <2> HAVE j <= k
  <2>1. mids[j] = centers[j] + centers[j + 1] /\ mids[k] = centers[k] + centers[k + 1]
    BY <1>6
  <2>2. centers[j] <= centers[k] /\ centers[j + 1] <= centers[k + 1]
    BY <1>4
  <2>3. /\ centers[j] \in Int /\ centers[j + 1] \in Int
        /\ centers[k] \in Int /\ centers[k + 1] \in Int
    BY <1>3
  <2> QED BY <2>1, <2>2, <2>3
<1> QED BY <1>5, <1>6, <1>7 DEF mids, n

\* What an array of counts holds in the end.
CountsAre(args, counts) ==
    LET values == ArrayAt(args, 1).data
        centers == ArrayAt(args, 2).data IN
    counts = CASE ArrayAt(args, 2).shape[1] = 0 -> <<>>
               [] ArrayAt(args, 2).shape[1] = 1 -> <<Len(values)>>
               [] OTHER -> Counted(Midpoints(centers), values)

\* Callers whose histograms are of numbers.
NumbersOnly ==
    \A plan \in Plans, c \in Callers : \A args \in Bind(plan[c]) :
        HistCall(plan[c]) =>
            \A v \in args[1] : \A j \in 1..Len(Arrays[v.array].data) : Arrays[v.array].data[j] # {}

\* Such counts are those promised, when every sample is a number.
LEMMA HistResult ==
    ASSUME NEW call, CallOK(call), HistCall(call), NEW args, ArgsOK(call, args),
           \A j \in 1..Len(BodyIn(call, args)) : Found(call, args, BodyIn(call, args)[j]),
           NEW counts, CountsAre(args, counts),
           \A j \in 1..Len(ArrayAt(args, 1).data) : ArrayAt(args, 1).data[j] # {}
    PROVE  [counts |-> counts] \in Promised!Results(call)
<1> DEFINE values == ArrayAt(args, 1).data
           centers == ArrayAt(args, 2).data
           n == Len(centers)
           Bin(j) == Promised!BinOf(centers, CHOOSE sample \in values[j] : TRUE)
<1>1. /\ Promised!ArrayOf(call, "values").data = values
      /\ Promised!ArrayOf(call, "centers").data = centers
  BY HistPromise
<1>2. /\ Len(values) \in Nat /\ n \in Nat /\ n = ArrayAt(args, 2).shape[1]
      /\ \A j \in 1..Len(values) : values[j] \subseteq Int /\ values[j] # {}
      /\ \A j \in 1..Len(values) : \A x, y \in values[j] : x = y
      /\ \A k \in 1..n : centers[k] \in Int
      /\ \A j, k \in 1..n : j <= k => centers[j] <= centers[k]
  BY HistArrays
<1>3. counts = CASE n = 0 -> <<>>
                 [] n = 1 -> <<Len(values)>>
                 [] OTHER -> Counted(Midpoints(centers), values)
  BY <1>2 DEF CountsAre
<1>4. Promised!Counts(call)
        = [b \in 1..n |-> Promised!Cardinality({ j \in 1..Len(values) : Bin(j) = b })]
  <2> DEFINE In(b) == { j \in 1..Len(values) : \E s \in values[j] : Promised!BinOf(centers, s) = b }
  <2>1. Promised!Counts(call) = [b \in 1..n |-> Promised!Cardinality(In(b))]
    BY <1>1, Zenon DEF Promised!Counts
  <2>2. ASSUME NEW j \in 1..Len(values)
        PROVE  LET s == CHOOSE s \in values[j] : TRUE IN
               s \in values[j] /\ \A t \in values[j] : t = s
    BY <1>2
  <2> HIDE DEF values, centers
  <2>3. ASSUME NEW b PROVE In(b) = { j \in 1..Len(values) : Bin(j) = b }
    BY <2>2
  <2> HIDE DEF In, Bin
  <2> QED BY <2>1, <2>3
<1>7. Promised!Results(call) = {[counts |-> Promised!Counts(call)]}
  BY DEF Promised!Results, HistCall
<1>8. \A s : Promised!BinOf(centers, s)
               = 1 + Cardinality({ k \in 1..(n - 1) : centers[k] + centers[k + 1] < 2 * s })
  BY CountsAgree DEF Promised!BinOf
<1> HIDE DEF values, centers, n
<1>9. counts = Promised!Counts(call)
  <2>1. CASE n = 0
    <3>1. counts = <<>>
      BY <1>3, <2>1
    <3> HIDE DEF Bin
    <3>2. Promised!Counts(call)
            = [b \in 1..0 |-> Promised!Cardinality({ j \in 1..Len(values) : Bin(j) = b })]
      BY <1>4, <2>1
    <3>3. Promised!Counts(call) = <<>>
      BY <3>2
    <3> QED BY <3>1, <3>3
  <2>2. CASE n = 1
    <3>1. counts = <<Len(values)>>
      BY <1>3, <2>2
    <3>2. ASSUME NEW s PROVE Promised!BinOf(centers, s) = 1
      <4> DEFINE below == { k \in 1..(n - 1) : centers[k] + centers[k + 1] < 2 * s }
      <4>1. below = {}
        BY <2>2
      <4>2. Promised!BinOf(centers, s) = 1 + Cardinality(below)
        BY <1>8
      <4> HIDE DEF below
      <4>3. Cardinality(below) = 0
        BY <4>1, FS_EmptySet
      <4> QED BY <4>2, <4>3
    <3>3. \A j \in 1..Len(values) : Bin(j) = 1
      BY <2>2, <3>2
    <3>4. { j \in 1..Len(values) : Bin(j) = 1 } = 1..Len(values)
      BY <3>3
    <3>5. Cardinality(1..Len(values)) = Len(values)
      <4> DEFINE m == Len(values)
      <4>1. m \in Int /\ m >= 0
        BY <1>2
      <4> HIDE DEF m
      <4>2. Cardinality(1..m) = IF 1 > m THEN 0 ELSE m - 1 + 1
        BY <4>1, FS_Interval
      <4>3. Cardinality(1..m) = m
        BY <4>1, <4>2
      <4> QED BY <4>3 DEF m
    <3> HIDE DEF Bin, values, centers
    <3>6. Promised!Cardinality({ j \in 1..Len(values) : Bin(j) = 1 }) = Len(values)
      BY <3>4, <3>5, CountsAgree
    <3>7. Promised!Counts(call) = [b \in 1..1 |-> Len(values)]
      BY <1>4, <2>2, <3>6
    <3> QED BY <3>1, <3>7
  <2>3. CASE n # 0 /\ n # 1
    <3> DEFINE mids == Midpoints(centers)
    <3>1. counts = Counted(mids, values)
      BY <1>3, <2>3
    <3>2. /\ Len(mids) = n - 1
          /\ \A k \in 1..(n - 1) : mids[k] = centers[k] + centers[k + 1] /\ mids[k] \in Int
          /\ \A j, k \in 1..(n - 1) : j <= k => mids[j] <= mids[k]
      BY <1>2, <2>3, MidpointsAscend DEF n
    <3> HIDE DEF mids
    <3>3. ASSUME NEW j \in 1..Len(values) PROVE BinFor(mids, values[j]) = Bin(j)
      <4> DEFINE s == CHOOSE s \in values[j] : TRUE
      <4>1. s \in Int
        BY <1>2, <3>3
      <4>2. Bin(j) = Promised!BinOf(centers, s)
        OBVIOUS
      <4> HIDE DEF s
      <4>3. Search(mids, s) = Cardinality({ k \in 1..Len(mids) : mids[k] < 2 * s })
        <5>1. Len(mids) \in Nat
          BY <1>2, <2>3, <3>2
        <5> QED BY <3>2, <4>1, <5>1, SearchFinds
      <4>4. { k \in 1..Len(mids) : mids[k] < 2 * s }
              = { k \in 1..(n - 1) : centers[k] + centers[k + 1] < 2 * s }
        BY <3>2
      <4>5. BinFor(mids, values[j]) = 1 + Search(mids, s)
        BY <1>2, <3>3 DEF BinFor, s
      <4> QED BY <1>8, <4>2, <4>3, <4>4, <4>5
    <3>4. Counted(mids, values)
            = [b \in 1..n |-> Cardinality({ j \in 1..Len(values) :
                  [i \in 1..Len(values) |-> BinFor(mids, values[i])][j] = b })]
      <4>1. n \in Nat
        BY <1>2
      <4>2. Len(mids) = n - 1
        BY <3>2
      <4> HIDE DEF n, values, centers, Bin
      <4>3. Len(mids) + 1 = n
        BY <4>1, <4>2
      <4> QED BY <4>3 DEF Counted
    <3> HIDE DEF Bin, values, centers, n
    <3>5. ASSUME NEW b \in 1..n
          PROVE  Cardinality({ j \in 1..Len(values) :
                     [i \in 1..Len(values) |-> BinFor(mids, values[i])][j] = b })
                   = Promised!Cardinality({ j \in 1..Len(values) : Bin(j) = b })
      <4>1. { j \in 1..Len(values) : [i \in 1..Len(values) |-> BinFor(mids, values[i])][j] = b }
              = { j \in 1..Len(values) : Bin(j) = b }
        BY <3>3
      <4> QED BY <4>1, CountsAgree
    <3> QED BY <1>4, <3>1, <3>4, <3>5
  <2> QED BY <2>1, <2>2, <2>3
<1> QED BY <1>7, <1>9

------------------------------------------------------------
(* What every caller has to show for the promise.                           *)

\* A call that is planned is one the lemmas above speak of.
LEMMA PlannedCalls ==
    ASSUME NEW c \in Callers, NEW plan \in Plans
    PROVE  /\ CallOK(plan[c])
           /\ \A args \in Bind(plan[c]) : ArgsOK(plan[c], args)
<1>1. CallOK(plan[c])
  <2>1. /\ plan[c].fn \in DOMAIN Signature
        /\ Len(plan[c].pos) \in Nat /\ Len(plan[c].kw) \in Nat
        /\ \A j, k \in 1..Len(plan[c].kw) : plan[c].kw[j].name = plan[c].kw[k].name => j = k
        /\ \A value \in Given(plan[c]) : value.kind = "int" => value.int \in Int
    BY PlansAssumption
  <2>2. \A value \in Given(plan[c]) : value.kind = "array" => value.array \in DOMAIN Arrays
    BY ArraysAssumption
  <2> QED BY <2>1, <2>2 DEF CallOK
<1>2. ASSUME NEW args \in Bind(plan[c]) PROVE ArgsOK(plan[c], args)
  BY ArgumentsAssumption DEF ArgsOK, GridCall, HistCall
<1> QED BY <1>1, <1>2

\* The stages of a call before its body.
Early == {"idle", "importing", "assigning", "returning", "binding"}

\* All steps of the body before the one it is at have passed.
Through(me) ==
    me.stage \in {"running", "outside"} =>
        /\ ArgsOK(me.call, me.args)
        /\ \A k \in 1..Len(BodyIn(me.call, me.args)) :
              k < me.step => Found(me.call, me.args, BodyIn(me.call, me.args)[k])

\* No more than a function.
IsFunction(f) == f = [x \in DOMAIN f |-> f[x]]

\* The sums are a function, and the arrays of a histogram filled so far hold
\* what they should.
SumsFilled(me, job) ==
    GridCall(me.call) /\ (me.stage = "outside" \/ (me.stage = "running" /\ me.step > 8)) =>
        IsFunction(job.sums)
CountsFilled(me, job) ==
    LET values == ArrayAt(me.args, 1).data
        centers == ArrayAt(me.args, 2).data
        bins == ArrayAt(me.args, 2).shape[1] IN
    HistCall(me.call) =>
        /\ me.stage \in Early => job.counts = <<>>
        /\ me.stage = "running" =>
              /\ bins = 0 => job.counts = <<>>
              /\ bins = 1 /\ me.step > 8 => job.counts = <<Len(values)>>
              /\ bins # 0 /\ bins # 1 /\ me.step > 11 => job.mids = Midpoints(centers)
              /\ bins # 0 /\ bins # 1 /\ me.step > 12 =>
                    job.counts = Counted(Midpoints(centers), values)

\* What the promise allows a call to end with after n faults.
MayEnd(call, n, o) ==
    \/ o = [kind |-> "refused", value |-> {}] /\ ~Promised!MustReturn(call)
    \/ o = [kind |-> "failed", value |-> {}] /\ n > 0
    \/ \E result \in Promised!Results(call) :
          o = [kind |-> "value", value |-> {result}] /\ Promised!MayReturn(call)
Ends(me, n) ==
    /\ me.stage \in {"leaving", "ended"} => \E o : me.outcome = {o} /\ MayEnd(me.call, n, o)
    /\ me.stage = "assigning" /\ ~me.found => n > 0

PromiseOf(c, me, job, n) ==
    /\ \E plan \in Plans : me.call = plan[c]
    /\ Through(me) /\ SumsFilled(me, job) /\ CountsFilled(me, job) /\ Ends(me, n)

\* A caller finds no module to return only after a failed import.
ReturnsInv ==
    ~module.cached /\ (\E c \in Callers : callers[c].stage = "returning") => faults > 0

PromiseInv ==
    /\ \A c \in Callers : PromiseOf(c, callers[c], work[c], faults)
    /\ ReturnsInv

\* Faults add up.
Worse == faults' \in {faults, faults + 1}

\* A step of one caller leaves what the others have to show alone.
LEMMA OthersPromise ==
    ASSUME ScalarInv, PromiseInv, NEW c \in Callers, Moves(c), Worse,
           \A d \in Callers \ {c} : work'[d] = work[d],
           PromiseOf(c, callers'[c], work'[c], faults'), ReturnsInv'
    PROVE  PromiseInv'
<1>1. faults \in Nat /\ faults' \in Nat /\ (faults > 0 => faults' > 0)
  BY MaxFaultsAssumption DEF ScalarInv, Worse
<1>2. ASSUME NEW d \in Callers PROVE PromiseOf(d, callers'[d], work'[d], faults')
  <2>1. CASE d = c
    BY <2>1
  <2>2. CASE d # c
    <3>1. callers'[d] = callers[d] /\ work'[d] = work[d]
      BY <2>2 DEF Moves
    <3>2. PromiseOf(d, callers[d], work[d], faults)
      BY DEF PromiseInv
    <3>3. \A call, o : MayEnd(call, faults, o) => MayEnd(call, faults', o)
      BY <1>1 DEF MayEnd
    <3>4. Ends(callers[d], faults) => Ends(callers[d], faults')
      BY <1>1, <3>3 DEF Ends
    <3> QED BY <3>1, <3>2, <3>4 DEF PromiseOf
  <2> QED BY <2>1, <2>2
<1> QED BY <1>2 DEF PromiseInv

\* Nobody new returns, and the module is cached as before.
LEMMA ReturnsStay ==
    ASSUME ScalarInv, PromiseInv, NEW c \in Callers, Moves(c), Worse,
           module'.cached = module.cached, callers'[c].stage # "returning"
    PROVE  ReturnsInv'
<1>1. faults \in Nat /\ faults' \in Nat /\ (faults > 0 => faults' > 0)
  BY MaxFaultsAssumption DEF ScalarInv, Worse
<1>2. \A d \in Callers : callers'[d].stage = "returning" => callers[d].stage = "returning"
  BY DEF Moves
<1> QED BY <1>1, <1>2 DEF PromiseInv, ReturnsInv

\* On the way to the body there is nothing to show.
LEMMA EarlyPromise ==
    ASSUME ScalarInv, PromiseInv, NEW c \in Callers, Moves(c), Worse, work' = work,
           callers[c].stage \in Early, callers'[c].stage \in Early,
           callers'[c].stage = "assigning" /\ ~callers'[c].found => faults' > 0,
           ReturnsInv'
    PROVE  PromiseInv'
<1>1. PromiseOf(c, callers[c], work[c], faults) /\ callers'[c].call = callers[c].call
  BY DEF PromiseInv, Moves
<1>2. /\ callers'[c].stage \notin {"running", "outside", "leaving", "ended"}
      /\ callers[c].stage \notin {"running", "outside", "leaving", "ended"}
  BY DEF Early
<1>3. PromiseOf(c, callers'[c], work'[c], faults')
  BY <1>1, <1>2 DEF PromiseOf, Through, SumsFilled, CountsFilled, Ends
<1> QED BY <1>3, OthersPromise

\* A call that ends without a value.
LEMMA OutPromise ==
    ASSUME ScalarInv, CallersInv, PromiseInv, NEW c \in Callers, NEW kind, Out(c, kind, {}),
           Worse, work' = work, module'.cached = module.cached,
           \/ kind = "refused" /\ ~Promised!MustReturn(callers[c].call)
           \/ kind = "failed" /\ faults' > 0
    PROVE  PromiseInv'
<1>1. Moves(c)
  BY OutMoves DEF Staged
<1>2. /\ callers'[c].stage = "leaving" /\ callers'[c].call = callers[c].call
      /\ callers'[c].outcome = {[kind |-> kind, value |-> {}]}
  BY DEF Out, CallersInv, CallerFields
<1>3. PromiseOf(c, callers[c], work[c], faults)
  BY DEF PromiseInv
<1>4. MayEnd(callers[c].call, faults', [kind |-> kind, value |-> {}])
  BY DEF MayEnd
<1>5. Ends(callers'[c], faults')
  BY <1>2, <1>4 DEF Ends
<1>6. PromiseOf(c, callers'[c], work'[c], faults')
  BY <1>2, <1>3, <1>5 DEF PromiseOf, Through, SumsFilled, CountsFilled, Early
<1>7. ReturnsInv'
  BY <1>1, <1>2, ReturnsStay
<1> QED BY <1>1, <1>6, <1>7, OthersPromise

\* A step that changes no caller.
LEMMA StillPromise ==
    ASSUME ScalarInv, PromiseInv, callers' = callers, work' = work, Worse,
           module'.cached = module.cached
    PROVE  PromiseInv'
<1>1. faults \in Nat /\ faults' \in Nat /\ (faults > 0 => faults' > 0)
  BY MaxFaultsAssumption DEF ScalarInv, Worse
<1>2. ASSUME NEW d \in Callers PROVE PromiseOf(d, callers'[d], work'[d], faults')
  <2>1. PromiseOf(d, callers[d], work[d], faults)
    BY DEF PromiseInv
  <2>2. \A call, o : MayEnd(call, faults, o) => MayEnd(call, faults', o)
    BY <1>1 DEF MayEnd
  <2>3. Ends(callers[d], faults) => Ends(callers[d], faults')
    BY <1>1, <2>2 DEF Ends
  <2> QED BY <2>1, <2>3 DEF PromiseOf
<1>3. ReturnsInv'
  BY <1>1 DEF PromiseInv, ReturnsInv
<1> QED BY <1>2, <1>3 DEF PromiseInv

\* A caller that has imported the module, or failed to.
LEMMA ImportedPromise ==
    ASSUME IInv, PromiseInv, NEW c \in Callers, NEW found \in BOOLEAN, Imported(c, found),
           callers[c].stage = "importing", Worse, work' = work,
           module'.cached = module.cached, ~found => faults' > 0
    PROVE  PromiseInv'
<1>1. /\ Moves(c) /\ callers'[c].stage = "assigning" /\ callers'[c].found = found
  BY DEF Imported, IInv, CallersInv, CallerFields, Moves, Stages
<1>2. ReturnsInv'
  BY <1>1, ReturnsStay DEF IInv
<1> QED BY <1>1, <1>2, EarlyPromise DEF IInv, Early

\* The import, from the question for the module to its return.
LEMMA ImportPromise ==
    ASSUME IInv, PromiseInv, NEW c \in Callers, Ask(c) \/ Import(c)
    PROVE  PromiseInv'
<1> USE DEF Is
<1>1. faults \in Nat /\ DOMAIN module = ModuleFields
  BY MaxFaultsAssumption DEF IInv, ScalarInv, ModuleInv
<1>2. CASE Ask(c)
  <2>1. /\ callers[c].stage = "idle" /\ work' = work /\ faults' = faults /\ module' = module
        /\ To(c, IF module.cached THEN "returning" ELSE "importing")
    BY <1>2 DEF Ask, To
  <2> DEFINE stage == IF module.cached THEN "returning" ELSE "importing"
  <2>2. Moves(c) /\ callers'[c].stage = stage
    <3>1. stage \in Stages
      BY DEF Stages
    <3> HIDE DEF stage
    <3>2. To(c, stage)
      BY <2>1 DEF stage
    <3> QED BY <3>1, <3>2, ToMoves DEF Staged, IInv
  <2>3. ReturnsInv'
    BY <2>1, <2>2 DEF PromiseInv, ReturnsInv, Moves
  <2> QED BY <2>1, <2>2, <2>3, EarlyPromise DEF IInv, Early, Worse
<1>3. CASE ImportListed(c)
  BY <1>3, ImportedPromise DEF ImportListed, Worse
<1>4. CASE PymodCreate(c)
  <2>1. work' = work /\ faults' = faults /\ callers[c].stage = "importing"
    BY <1>4 DEF PymodCreate
  <2>2. CASE module.exists
    <3>1. Imported(c, TRUE) /\ module'.cached = module.cached
      BY <1>1, <1>4, <2>2 DEF PymodCreate, ModuleFields
    <3> QED BY <2>1, <3>1, ImportedPromise DEF Worse
  <2>3. CASE ~module.exists
    <3>1. callers' = callers /\ module'.cached = module.cached
      BY <1>1, <1>4, <2>3 DEF PymodCreate, ModuleFields
    <3> QED BY <2>1, <3>1, StillPromise DEF Worse, IInv
  <2> QED BY <2>2, <2>3
<1>5. CASE PymodExec(c)
  <2>1. PICK done : InitDone(c, done)
    BY <1>5 DEF PymodExec
  <2>2. work' = work /\ callers[c].stage = "importing" /\ Worse
    BY <1>5 DEF PymodExec, Worse
  <2>3. CASE done = InitSteps
    <3>1. Imported(c, TRUE) /\ module'.cached = module.cached
      BY <1>1, <2>1, <2>3 DEF InitDone, ModuleFields
    <3> QED BY <2>2, <3>1, ImportedPromise
  <2>4. CASE done # InitSteps
    <3>1. callers' = callers /\ module'.cached = module.cached
      BY <1>1, <2>1, <2>4 DEF InitDone, ModuleFields
    <3> QED BY <2>2, <3>1, StillPromise DEF IInv
  <2> QED BY <2>3, <2>4
<1>6. CASE PymodExecFails(c)
  <2>1. /\ work' = work /\ faults' = faults + 1 /\ callers[c].stage = "importing"
        /\ Imported(c, FALSE) /\ module'.cached = module.cached
    BY <1>1, <1>6 DEF PymodExecFails, Cleared, ModuleFields
  <2>2. Worse /\ faults' > 0
    BY <1>1, <2>1 DEF Worse
  <2> QED BY <2>1, <2>2, ImportedPromise
<1>7. CASE Assign(c)
  <2>1. /\ callers[c].stage = "assigning" /\ work' = work /\ faults' = faults
        /\ module'.cached = callers[c].found /\ To(c, "returning")
    BY <1>1, <1>7 DEF Assign, ModuleFields
  <2>2. Moves(c) /\ callers'[c].stage = "returning"
    BY <2>1, ToMoves DEF IInv, Stages, Staged
  <2>3. ~callers[c].found => faults > 0
    BY <2>1 DEF PromiseInv, PromiseOf, Ends
  <2>4. ReturnsInv'
    BY <2>1, <2>3 DEF ReturnsInv
  <2> QED BY <2>1, <2>2, <2>4, EarlyPromise DEF IInv, Early, Worse
<1>8. CASE ReturnModule(c)
  <2>1. callers[c].stage = "returning" /\ work' = work /\ faults' = faults /\ module' = module
    BY <1>8 DEF ReturnModule
  <2>2. CASE To(c, "binding")
    <3>1. Moves(c) /\ callers'[c].stage = "binding"
      BY <2>2, ToMoves DEF IInv, Stages, Staged
    <3>2. ReturnsInv'
      BY <2>1, <3>1, ReturnsStay DEF Worse, IInv
    <3> QED BY <2>1, <3>1, <3>2, EarlyPromise DEF IInv, Early, Worse
  <2>3. CASE ~module.cached /\ Out(c, "failed", {})
    <3>1. faults > 0
      BY <2>1, <2>3 DEF PromiseInv, ReturnsInv
    <3> QED BY <2>1, <2>3, <3>1, OutPromise DEF IInv, Worse
  <2> QED BY <1>8, <2>2, <2>3 DEF ReturnModule
<1> QED BY <1>2, <1>3, <1>4, <1>5, <1>6, <1>7, <1>8 DEF Import

------------------------------------------------------------
(* The body, step by step.                                                  *)

\* The wrapper lets a call through, or has reason to refuse it.
LEMMA BindPromise ==
    ASSUME IInv, PromiseInv, NEW c \in Callers, BindArguments(c)
    PROVE  PromiseInv'
<1> DEFINE call == callers[c].call
<1>1. /\ callers[c].stage = "binding" /\ work' = work /\ faults' = faults /\ module' = module
  BY DEF BindArguments, Is
<1>2. PromiseOf(c, callers[c], work[c], faults)
  BY DEF PromiseInv
<1>3. CallOK(call) /\ \A args \in Bind(call) : ArgsOK(call, args)
  BY <1>2, PlannedCalls DEF PromiseOf
<1>4. CASE Bind(call) = {} /\ Refuse(c)
  <2>1. ~Promised!MustReturn(call)
    BY <1>3, <1>4, WellBinds DEF Promised!MustReturn
  <2> QED BY <1>1, <1>4, <2>1, OutPromise DEF Refuse, IInv, Worse
<1>5. ASSUME NEW args \in Bind(call),
             callers' = [callers EXCEPT ![c].args = args, ![c].step = 1, ![c].stage = "running"]
      PROVE  PromiseInv'
  <2>1. /\ Moves(c) /\ callers'[c].args = args /\ callers'[c].step = 1
        /\ callers'[c].stage = "running" /\ callers'[c].call = call
    BY <1>5 DEF IInv, CallersInv, CallerFields, Moves, Stages
  <2>2. Through(callers'[c])
    <3>1. \A k \in 1..Len(BodyIn(call, args)) : ~(k < 1)
      OBVIOUS
    <3> QED BY <1>3, <1>5, <2>1, <3>1 DEF Through
  <2>3. SumsFilled(callers'[c], work'[c])
    BY <2>1 DEF SumsFilled
  <2>4. CountsFilled(callers'[c], work'[c])
    <3>1. HistCall(call) => work[c].counts = <<>>
      BY <1>1, <1>2 DEF PromiseOf, CountsFilled, Early
    <3> QED BY <1>1, <2>1, <3>1 DEF CountsFilled, Early
  <2>5. Ends(callers'[c], faults')
    BY <2>1 DEF Ends
  <2>6. PromiseOf(c, callers'[c], work'[c], faults')
    BY <1>2, <2>1, <2>2, <2>3, <2>4, <2>5 DEF PromiseOf
  <2>7. ReturnsInv'
    BY <1>1, <2>1, ReturnsStay DEF IInv, Worse
  <2> QED BY <1>1, <2>1, <2>6, <2>7, OthersPromise DEF IInv, Worse
<1> QED BY <1>4, <1>5 DEF BindArguments

\* Where the arrays of a histogram are filled.
LEMMA HistSteps ==
    ASSUME NEW bins
    PROVE  LET body == HistogramBody(bins) IN
           /\ bins = 0 => Len(body) = 7 /\ \A k \in 1..7 : body[k].do # "fill"
           /\ bins = 1 => /\ Len(body) = 8 /\ body[8] = Fill("single")
                          /\ \A k \in 1..7 : body[k].do # "fill"
           /\ bins # 0 /\ bins # 1 =>
                /\ Len(body) = 12 /\ body[11] = Fill("midpoints") /\ body[12] = Fill("counts")
                /\ \A k \in 1..10 : body[k].do # "fill"
BY DEF HistogramBody, HistogramStart, Buf, Python, View, Fill

\* No other function fills an array.
LEMMA FillsAreHist ==
    ASSUME NEW call, call.fn \in DOMAIN Signature, NEW args,
           NEW k \in 1..Len(BodyIn(call, args)), BodyIn(call, args)[k].do = "fill"
    PROVE  HistCall(call)
<1> USE DEF Buf, Python, View, Region
<1>1. \A j \in 1..Len(AccumulateBody) : AccumulateBody[j].do # "fill"
  BY DEF AccumulateBody
<1>2. \A j \in 1..Len(GenericBody) : GenericBody[j].do # "fill"
  BY DEF GenericBody
<1>3. \A j \in 1..Len(RowInvariantBody) : RowInvariantBody[j].do # "fill"
  BY DEF RowInvariantBody
<1>4. \A j \in 1..Len(CoherenceBody) : CoherenceBody[j].do # "fill"
  BY DEF RowInvariantBody, CoherenceBody
<1>5. call.fn \in {"accumulate_weighted_grid", "ps_topofit_batch_generic",
          "ps_topofit_batch_row_invariant", "ps_topofit_coh_row_invariant",
          "histogram_with_centers"}
  BY DEF Signature
<1>6. ~HistCall(call) =>
          BodyIn(call, args) \in {AccumulateBody, GenericBody, RowInvariantBody, CoherenceBody}
  BY <1>5 DEF BodyIn, HistCall
<1> QED BY <1>1, <1>2, <1>3, <1>4, <1>6

\* The step a caller is at, in terms of its call and arguments.
LEMMA RunsIn ==
    ASSUME CallersInv, PromiseInv, NEW c \in Callers, NEW do, At(c, do)
    PROVE  LET me == callers[c]
               body == BodyIn(me.call, me.args) IN
           /\ CallOK(me.call) /\ ArgsOK(me.call, me.args)
           /\ me.stage = "running" /\ me.step \in 1..Len(body)
           /\ Step(c) = body[me.step] /\ body[me.step].do = do
           /\ Body(c) = body /\ me.step \in Nat /\ me.call.fn \in DOMAIN Signature
<1>1. /\ callers[c].stage = "running" /\ callers[c].step \in 1..Len(Body(c))
      /\ Body(c)[callers[c].step] = Step(c) /\ Step(c).do = do
      /\ callers[c].step \in Nat /\ callers[c].call.fn \in DOMAIN Signature
  BY RunsAt
<1>2. Body(c) = BodyIn(callers[c].call, callers[c].args)
  BY ReadsCallAndArgs
<1>3. PromiseOf(c, callers[c], work[c], faults)
  BY DEF PromiseInv
<1>4. CallOK(callers[c].call) /\ ArgsOK(callers[c].call, callers[c].args)
  BY <1>1, <1>3, PlannedCalls DEF PromiseOf, Through
<1> QED BY <1>1, <1>2, <1>4

\* A step of the body that passes.
LEMMA OnwardPromise ==
    ASSUME IInv, PromiseInv, NEW c \in Callers, Moves(c), Onward(c),
           NEW do \in {"buffer", "python", "view", "fill"}, At(c, do),
           Found(callers[c].call, callers[c].args, Step(c)),
           \A d \in Callers \ {c} : work'[d] = work[d], work'[c].sums = work[c].sums,
           CountsFilled(callers'[c], work'[c]), faults' = faults, module' = module
    PROVE  PromiseInv'
<1> DEFINE me == callers[c]
           call == me.call
           args == me.args
           body == BodyIn(call, args)
<1>1. /\ ArgsOK(call, args) /\ me.stage = "running" /\ me.step \in 1..Len(body)
      /\ Step(c) = body[me.step] /\ body[me.step].do = do /\ me.step \in Nat
      /\ Body(c) = body /\ call.fn \in DOMAIN Signature
  BY RunsIn DEF IInv
<1>2. /\ callers'[c].call = call /\ callers'[c].args = args
      /\ callers'[c].stage = "running" /\ callers'[c].step = me.step + 1
  BY DEF Moves, Onward
<1>3. PromiseOf(c, callers[c], work[c], faults)
  BY DEF PromiseInv
<1>4. \A k \in 1..Len(body) : k < me.step => Found(call, args, body[k])
  BY <1>1, <1>3 DEF PromiseOf, Through
<1>5. \A k \in 1..Len(body) : k < me.step + 1 => Found(call, args, body[k])
  <2> TAKE k \in 1..Len(body)
  <2> HAVE k < me.step + 1
  <2>1. CASE k < me.step
    BY <1>4, <2>1
  <2>2. CASE ~(k < me.step)
    <3>1. k = me.step
      BY <1>1, <2>2
    <3> QED BY <1>1, <3>1
  <2> QED BY <2>1, <2>2
<1>6. Through(callers'[c])
  BY <1>1, <1>2, <1>5 DEF Through
<1>7. SumsFilled(callers'[c], work'[c])
  <2> SUFFICES ASSUME GridCall(call), me.step + 1 > 8
               PROVE  IsFunction(work[c].sums)
    BY <1>2 DEF SumsFilled
  <2>1. me.step # 8
    <3> SUFFICES ASSUME me.step = 8 PROVE FALSE
      OBVIOUS
    <3>1. Body(c)[8] = Region
      BY <1>1, RegionIsEighth
    <3> QED BY <1>1, <3>1 DEF Region
  <2>2. me.step > 8
    BY <1>1, <2>1
  <2> QED BY <1>1, <1>3, <2>2 DEF PromiseOf, SumsFilled
<1>8. Ends(callers'[c], faults')
  BY <1>2 DEF Ends
<1>9. PromiseOf(c, callers'[c], work'[c], faults')
  BY <1>2, <1>3, <1>6, <1>7, <1>8 DEF PromiseOf
<1>10. ReturnsInv'
  BY <1>2, ReturnsStay DEF IInv, Worse
<1> QED BY <1>9, <1>10, OthersPromise DEF IInv, Worse

\* A step that fills no array.
LEMMA QuietPromise ==
    ASSUME IInv, PromiseInv, NEW c \in Callers, Moves(c), Onward(c),
           NEW do \in {"buffer", "python", "view"}, At(c, do),
           Found(callers[c].call, callers[c].args, Step(c)),
           work' = work, faults' = faults, module' = module
    PROVE  PromiseInv'
<1> DEFINE me == callers[c]
           call == me.call
           args == me.args
           bins == ArrayAt(args, 2).shape[1]
<1>1. /\ CallOK(call) /\ ArgsOK(call, args) /\ me.stage = "running" /\ me.step \in Nat
      /\ me.step \in 1..Len(BodyIn(call, args)) /\ BodyIn(call, args)[me.step].do = do
  BY RunsIn DEF IInv
<1>2. /\ callers'[c].call = call /\ callers'[c].args = args
      /\ callers'[c].stage = "running" /\ callers'[c].step = me.step + 1
  BY DEF Moves, Onward
<1>3. CountsFilled(callers[c], work[c])
  BY DEF PromiseInv, PromiseOf
<1>4. CountsFilled(callers'[c], work'[c])
  <2> SUFFICES ASSUME HistCall(call)
               PROVE  CountsFilled(callers'[c], work'[c])
    BY <1>2 DEF CountsFilled
  <2>1. BodyIn(call, args) = HistogramBody(bins)
    BY <1>1, HistPromise
  <2>2. /\ bins = 1 => me.step # 8
        /\ bins # 0 /\ bins # 1 => me.step # 11 /\ me.step # 12
    <3> DEFINE body == BodyIn(call, args)
    <3>1. /\ bins = 1 => body[8] = Fill("single")
          /\ bins # 0 /\ bins # 1 => body[11] = Fill("midpoints") /\ body[12] = Fill("counts")
      <4> HIDE DEF bins
      <4> QED BY <2>1, HistSteps
    <3>2. body[me.step].do # "fill"
      BY <1>1
    <3> HIDE DEF bins, body
    <3> QED BY <3>1, <3>2 DEF Fill
  <2>3. /\ bins = 1 /\ me.step + 1 > 8 => me.step > 8
        /\ bins # 0 /\ bins # 1 /\ me.step + 1 > 11 => me.step > 11
        /\ bins # 0 /\ bins # 1 /\ me.step + 1 > 12 => me.step > 12
    <3> HIDE DEF bins, me
    <3> QED BY <1>1, <2>2
  <2> QED BY <1>1, <1>2, <1>3, <2>3 DEF CountsFilled, Early
<1> QED BY <1>4, OnwardPromise

\* A step that does not pass is a reason to refuse the call.
LEMMA RefusePromise ==
    ASSUME IInv, PromiseInv, NEW c \in Callers, NEW do, At(c, do), Refuse(c),
           ~Found(callers[c].call, callers[c].args, Step(c)),
           work' = work, faults' = faults, module' = module
    PROVE  PromiseInv'
<1> DEFINE call == callers[c].call
           args == callers[c].args
           step == callers[c].step
<1>1. /\ CallOK(call) /\ ArgsOK(call, args) /\ step \in 1..Len(BodyIn(call, args))
      /\ Step(c) = BodyIn(call, args)[step]
  BY RunsIn DEF IInv
<1>2. ~Promised!MustReturn(call)
  <2> HIDE DEF call, args, step
  <2>1. ~Found(call, args, BodyIn(call, args)[step])
    BY <1>1 DEF call, args
  <2> QED BY <1>1, <2>1, UnfoundIsRefused
<1> QED BY <1>2, OutPromise DEF Refuse, IInv, Worse

\* A failure is a fault.
LEMMA FailPromise ==
    ASSUME IInv, PromiseInv, NEW c \in Callers, Fail(c), work' = work, module' = module
    PROVE  PromiseInv'
<1>1. faults \in Nat /\ faults' = faults + 1 /\ Out(c, "failed", {})
  BY MaxFaultsAssumption DEF Fail, IInv, ScalarInv
<1>2. Worse /\ faults' > 0
  BY <1>1 DEF Worse
<1> QED BY <1>1, <1>2, OutPromise DEF IInv

\* A buffer is taken, or refused.
LEMMA BufferPromise ==
    ASSUME IInv, PromiseInv, NEW c \in Callers, GetBuffer(c)
    PROVE  PromiseInv'
<1> DEFINE name == Step(c).of
           fits == Validated(TheArray(c, name), Want(callers[c].call.fn, name))
<1>1. /\ At(c, "buffer") /\ work' = work /\ faults' = faults /\ module' = module
      /\ \/ /\ fits
            /\ callers' = [callers EXCEPT ![c].step = @ + 1, ![c].buffers = @ \union {name}]
         \/ ~fits /\ Refuse(c)
  BY DEF GetBuffer
<1>2. Step(c).do = "buffer"
  BY <1>1 DEF At
<1>3. fits <=> Found(callers[c].call, callers[c].args, Step(c))
  BY <1>2, ReadsArguments DEF Found
<1> HIDE DEF fits
<1>4. CASE fits /\ callers' = [callers EXCEPT ![c].step = @ + 1, ![c].buffers = @ \union {name}]
  <2>1. Moves(c) /\ Onward(c)
    BY <1>1, <1>4, RunsAt DEF IInv, CallersInv, CallerFields, Moves, Onward, Stages
  <2> QED BY <1>1, <1>3, <1>4, <2>1, QuietPromise
<1>5. CASE ~fits /\ Refuse(c)
  BY <1>1, <1>3, <1>5, RefusePromise
<1> QED BY <1>1, <1>4, <1>5

\* Python is called; numpy may refuse.
LEMMA PythonPromise ==
    ASSUME IInv, PromiseInv, NEW c \in Callers, CallPython(c)
    PROVE  PromiseInv'
<1> DEFINE name == Step(c).of
<1>1. /\ At(c, "python") /\ work' = work /\ module' = module
      /\ \/ ~NumpyRefuses(c, name) /\ Advance(c) /\ faults' = faults
         \/ NumpyRefuses(c, name) /\ Refuse(c) /\ faults' = faults
         \/ Fail(c)
  BY DEF CallPython
<1>2. Step(c).do = "python"
  BY <1>1 DEF At
<1>3. ~NumpyRefuses(c, name) <=> Found(callers[c].call, callers[c].args, Step(c))
  BY <1>2, ReadsArguments DEF Found
<1> HIDE DEF name
<1>4. CASE ~NumpyRefuses(c, name) /\ Advance(c) /\ faults' = faults
  <2>1. Moves(c) /\ Onward(c)
    BY <1>1, <1>4, AdvanceOnward DEF IInv
  <2> QED BY <1>1, <1>3, <1>4, <2>1, QuietPromise
<1>5. CASE NumpyRefuses(c, name) /\ Refuse(c) /\ faults' = faults
  BY <1>1, <1>3, <1>5, RefusePromise
<1>6. CASE Fail(c)
  BY <1>1, <1>6, FailPromise
<1> QED BY <1>1, <1>4, <1>5, <1>6

\* A view is taken, or refused, or there is no lock for it.
LEMMA ViewPromise ==
    ASSUME IInv, PromiseInv, NEW c \in Callers, ToMemoryviewSlice(c)
    PROVE  PromiseInv'
<1> DEFINE name == Step(c).of
           array == TheArray(c, name)
           fits == Validated(array, Want(callers[c].call.fn, name))
           passes == callers' = [callers EXCEPT ![c].step = @ + 1, ![c].views = @ \union {name}]
<1>1. /\ At(c, "view") /\ work' = work /\ module' = module
      /\ \/ ~array.writable /\ Refuse(c) /\ faults' = faults
         \/ array.writable /\ fits /\ passes /\ faults' = faults
         \/ ~fits /\ Refuse(c) /\ faults' = faults
         \/ Fail(c)
  BY DEF ToMemoryviewSlice
<1>2. Step(c).do = "view"
  BY <1>1 DEF At
<1>3. array.writable /\ fits <=> Found(callers[c].call, callers[c].args, Step(c))
  <2>1. array = ArrayIn(callers[c].call, callers[c].args, name)
    BY ReadsArguments
  <2> HIDE DEF array
  <2>2. Found(callers[c].call, callers[c].args, Step(c)) <=> array.writable /\ fits
    BY <1>2, <2>1 DEF Found
  <2> QED BY <2>2
<1> HIDE DEF fits, array
<1>4. CASE array.writable /\ fits /\ passes /\ faults' = faults
  <2>1. Moves(c) /\ Onward(c)
    BY <1>1, <1>4, RunsAt DEF IInv, CallersInv, CallerFields, Moves, Onward, Stages
  <2> QED BY <1>1, <1>3, <1>4, <2>1, QuietPromise
<1>5. CASE (~array.writable \/ ~fits) /\ Refuse(c) /\ faults' = faults
  BY <1>1, <1>3, <1>5, RefusePromise
<1>6. CASE Fail(c)
  BY <1>1, <1>6, FailPromise
<1> QED BY <1>1, <1>4, <1>5, <1>6

\* The arrays of a histogram are filled with what is promised.
LEMMA FillPromise ==
    ASSUME IInv, RegionInv, PromiseInv, NEW c \in Callers, FillArray(c)
    PROVE  PromiseInv'
<1> DEFINE me == callers[c]
           call == me.call
           args == me.args
           body == BodyIn(call, args)
           values == ArrayAt(args, 1).data
           centers == ArrayAt(args, 2).data
           bins == ArrayAt(args, 2).shape[1]
           name == Step(c).of
<1>1. /\ At(c, "fill") /\ Advance(c) /\ faults' = faults /\ module' = module
      /\ work' = CASE name = "single" -> [work EXCEPT ![c].counts = <<Len(Samples(c))>>]
                   [] name = "midpoints" -> [work EXCEPT ![c].mids = Midpoints(Centers(c))]
                   [] name = "counts" ->
                         [work EXCEPT ![c].counts = Counted(work[c].mids, Samples(c))]
  BY DEF FillArray
<1>2. /\ CallOK(call) /\ ArgsOK(call, args) /\ me.stage = "running" /\ me.step \in Nat
      /\ me.step \in 1..Len(body) /\ body[me.step].do = "fill" /\ Step(c) = body[me.step]
      /\ call.fn \in DOMAIN Signature
  BY <1>1, RunsIn DEF IInv
<1>3. HistCall(call)
  <2> HIDE DEF body, me
  <2> QED BY <1>2, FillsAreHist DEF body
<1>4. Samples(c) = values /\ Centers(c) = centers /\ body = HistogramBody(bins)
  <2>1. /\ ArrayIn(call, args, "values") = ArrayAt(args, 1)
        /\ ArrayIn(call, args, "centers") = ArrayAt(args, 2)
        /\ body = HistogramBody(bins)
    BY <1>2, <1>3, HistPromise
  <2>2. TheArray(c, "values") = ArrayAt(args, 1) /\ TheArray(c, "centers") = ArrayAt(args, 2)
    BY <2>1, ReadsArguments
  <2> QED BY <2>1, <2>2 DEF Samples, Centers
<1>5. Moves(c) /\ Onward(c)
  BY <1>1, AdvanceOnward DEF IInv
<1>6. DOMAIN work = Callers /\ DOMAIN work[c] = WorkFields
  BY DEF RegionInv, CallerInv
<1>7. CountsFilled(me, work[c])
  BY DEF PromiseInv, PromiseOf
<1>8. /\ callers'[c].call = call /\ callers'[c].args = args
      /\ callers'[c].stage = "running" /\ callers'[c].step = me.step + 1
  BY <1>2, <1>5 DEF Moves, Onward
<1>9. /\ bins # 0
      /\ bins = 1 => me.step = 8 /\ name = "single"
      /\ bins # 1 => \/ me.step = 11 /\ name = "midpoints"
                     \/ me.step = 12 /\ name = "counts"
  <2> DEFINE step == me.step
             some == HistogramBody(bins)
  <2>1. step \in 1..Len(some) /\ some[step].do = "fill" /\ name = some[step].of /\ step \in Nat
    BY <1>2, <1>4
  <2> HIDE DEF step, bins, name
  <2>2. /\ bins = 0 => Len(some) = 7 /\ \A k \in 1..7 : some[k].do # "fill"
        /\ bins = 1 => /\ Len(some) = 8 /\ some[8] = Fill("single")
                       /\ \A k \in 1..7 : some[k].do # "fill"
        /\ bins # 0 /\ bins # 1 =>
             /\ Len(some) = 12 /\ some[11] = Fill("midpoints") /\ some[12] = Fill("counts")
             /\ \A k \in 1..10 : some[k].do # "fill"
    BY HistSteps
  <2> HIDE DEF some
  <2>3. bins # 0
    BY <2>1, <2>2
  <2>4. bins = 1 => step = 8 /\ name = "single"
    <3> SUFFICES ASSUME bins = 1 PROVE step = 8 /\ name = "single"
      OBVIOUS
    <3>1. step \notin 1..7 /\ step \in 1..8
      BY <2>1, <2>2
    <3> QED BY <2>1, <2>2, <3>1 DEF Fill
  <2>5. bins # 1 => \/ step = 11 /\ name = "midpoints"
                    \/ step = 12 /\ name = "counts"
    <3> SUFFICES ASSUME bins # 1 PROVE \/ step = 11 /\ name = "midpoints"
                                       \/ step = 12 /\ name = "counts"
      OBVIOUS
    <3>1. step \notin 1..10 /\ step \in 1..12
      BY <2>1, <2>2, <2>3
    <3>2. step = 11 \/ step = 12
      BY <3>1
    <3> QED BY <2>1, <2>2, <2>3, <3>2 DEF Fill
  <2> QED BY <2>3, <2>4, <2>5 DEF step
<1>10. /\ \A d \in Callers \ {c} : work'[d] = work[d]
       /\ work'[c].sums = work[c].sums
       /\ name = "single" => work'[c].counts = <<Len(values)>>
       /\ name = "midpoints" => work'[c].mids = Midpoints(centers)
       /\ name = "counts" => /\ work'[c].mids = work[c].mids
                             /\ work'[c].counts = Counted(work[c].mids, values)
  <2> HIDE DEF name, values, centers
  <2>1. name \in {"single", "midpoints", "counts"}
    BY <1>9
  <2>2. CASE name = "single"
    BY <1>1, <1>4, <1>6, <2>2 DEF WorkFields
  <2>3. CASE name = "midpoints"
    BY <1>1, <1>4, <1>6, <2>3 DEF WorkFields
  <2>4. CASE name = "counts"
    BY <1>1, <1>4, <1>6, <2>4 DEF WorkFields
  <2> QED BY <2>1, <2>2, <2>3, <2>4
<1>11. CountsFilled(callers'[c], work'[c])
  <2> SUFFICES /\ bins = 0 => work'[c].counts = <<>>
               /\ bins = 1 /\ me.step + 1 > 8 => work'[c].counts = <<Len(values)>>
               /\ bins # 0 /\ bins # 1 /\ me.step + 1 > 11 => work'[c].mids = Midpoints(centers)
               /\ bins # 0 /\ bins # 1 /\ me.step + 1 > 12 =>
                     work'[c].counts = Counted(Midpoints(centers), values)
    BY <1>8 DEF CountsFilled, Early
  <2>1. bins # 0 /\ bins # 1 /\ me.step > 11 => work[c].mids = Midpoints(centers)
    BY <1>2, <1>3, <1>7 DEF CountsFilled
  <2> HIDE DEF bins, name, values, centers
  <2> QED BY <1>9, <1>10, <2>1
<1>12. Found(call, args, Step(c))
  BY <1>2 DEF Found
<1> QED BY <1>1, <1>5, <1>10, <1>11, <1>12, OnwardPromise

\* A caller in its region keeps what it has shown.
LEMMA RegionPromise ==
    ASSUME IInv, RegionInv, PromiseInv, NEW c \in Callers, Moves(c), Worse,
           GridCall(callers[c].call), callers[c].stage \in {"running", "outside"},
           callers'[c].stage = "outside", callers'[c].args = callers[c].args,
           callers'[c].step = callers[c].step, module' = module,
           \A d \in Callers \ {c} : work'[d] = work[d],
           IsFunction(work'[c].sums)
    PROVE  PromiseInv'
<1>1. PromiseOf(c, callers[c], work[c], faults) /\ callers'[c].call = callers[c].call
  BY DEF PromiseInv, Moves
<1>2. Through(callers'[c])
  BY <1>1 DEF PromiseOf, Through
<1>3. SumsFilled(callers'[c], work'[c])
  BY DEF SumsFilled
<1>4. CountsFilled(callers'[c], work'[c])
  BY <1>1 DEF CountsFilled, GridCall, HistCall
<1>5. Ends(callers'[c], faults')
  BY DEF Ends
<1>6. PromiseOf(c, callers'[c], work'[c], faults')
  BY <1>1, <1>2, <1>3, <1>4, <1>5 DEF PromiseOf
<1>7. ReturnsInv'
  BY ReturnsStay DEF IInv
<1> QED BY <1>6, <1>7, OthersPromise DEF IInv

\* The team starts with empty sums.
LEMMA SavePromise ==
    ASSUME IInv, RegionInv, PromiseInv, NEW c \in Callers, SaveThread(c)
    PROVE  PromiseInv'
<1>1. At(c, "region") /\ To(c, "outside") /\ faults' = faults /\ module' = module
  BY DEF SaveThread, GoOutside
<1>2. GridCall(callers[c].call) /\ callers[c].stage = "running"
  BY <1>1, RunsAt, RegionIsEighth DEF IInv
<1>3. /\ Moves(c) /\ callers'[c].args = callers[c].args /\ callers'[c].stage = "outside"
      /\ callers'[c].step = callers[c].step
  BY <1>1, ToMoves DEF IInv, Staged, Keeps, Stages
<1>4. DOMAIN work = Callers /\ DOMAIN work[c] = WorkFields
  BY DEF RegionInv, CallerInv
<1> DEFINE sums == [at \in (0..(GridSize(c) - 1)) \X (1..Columns(c)) |-> <<>>]
<1>5. PICK t \in 1..ThreadCount(c) :
          work' = [work EXCEPT
              ![c].sums = sums,
              ![c].team = [w \in 1..t |-> [left |-> Iterations(Rows(c), Columns(c), t, w),
                                          read |-> {}]]]
  BY DEF SaveThread
<1>6. IsFunction(sums)
  BY DEF IsFunction
<1> HIDE DEF sums
<1>7. work'[c].sums = sums /\ \A d \in Callers \ {c} : work'[d] = work[d]
  BY <1>4, <1>5 DEF WorkFields
<1> QED BY <1>1, <1>2, <1>3, <1>6, <1>7, RegionPromise DEF Worse

\* The workers fill the sums in.
LEMMA SumsPromise ==
    ASSUME IInv, RegionInv, PromiseInv, NEW c \in Callers, NEW w \in DOMAIN work[c].team,
           ReadSum(c, w) \/ WriteSum(c, w)
    PROVE  PromiseInv'
<1> DEFINE sums == work[c].sums
<1>1. /\ callers[c].stage = "outside" /\ callers' = callers /\ module' = module
      /\ faults' = faults
  BY DEF ReadSum, WriteSum, Is
<1>2. /\ GridCall(callers[c].call) /\ DOMAIN work = Callers /\ DOMAIN work[c] = WorkFields
      /\ Moves(c)
  BY <1>1, OutsideInRegion DEF IInv, CallersInv, Moves
<1>3. IsFunction(sums)
  BY <1>1, <1>2 DEF PromiseInv, PromiseOf, SumsFilled
<1>4. /\ \A d \in Callers \ {c} : work'[d] = work[d]
      /\ IsFunction(work'[c].sums)
  <2>1. CASE ReadSum(c, w)
    <3>1. \/ \E read : work' = [work EXCEPT ![c].team[w].read = read]
          \/ work' = [work EXCEPT ![c].team[w].left = Tail(@)]
      BY <2>1 DEF ReadSum
    <3>2. work'[c].sums = sums /\ \A d \in Callers \ {c} : work'[d] = work[d]
      BY <1>2, <3>1 DEF WorkFields
    <3> QED BY <1>3, <3>2
  <2>2. CASE WriteSum(c, w)
    <3>1. PICK sum \in Worker(c, w).read :
              work' = [work EXCEPT
                  ![c].sums[CellOf(c, Next1(c, w))] = Append(sum, Next1(c, w)[1]),
                  ![c].team[w] = [left |-> Tail(@.left), read |-> {}]]
      BY <2>2, Zenon DEF WriteSum
    <3> DEFINE cell == CellOf(c, Next1(c, w))
               more == Append(sum, Next1(c, w)[1])
               now == [sums EXCEPT ![cell] = more]
    <3> HIDE DEF cell, more, now, sums
    <3>2. work' = [work EXCEPT ![c].sums[cell] = more,
                               ![c].team[w] = [left |-> Tail(@.left), read |-> {}]]
      BY <3>1, Zenon DEF cell, more
    <3>3. work'[c].sums = now /\ \A d \in Callers \ {c} : work'[d] = work[d]
      BY <1>2, <3>2, Zenon DEF WorkFields, now, sums
    <3>4. IsFunction(now)
      BY DEF IsFunction, now
    <3> QED BY <3>3, <3>4
  <2> QED BY <2>1, <2>2
<1> QED BY <1>1, <1>2, <1>4, RegionPromise DEF Worse

\* The team has joined; the region passes.
LEMMA RestorePromise ==
    ASSUME IInv, RegionInv, PromiseInv, NEW c \in Callers, RestoreThread(c)
    PROVE  PromiseInv'
<1> DEFINE call == callers[c].call
           args == callers[c].args
           body == BodyIn(call, args)
<1>1. /\ callers[c].stage = "outside" /\ work' = work /\ faults' = faults /\ module' = module
      /\ callers' = [callers EXCEPT ![c].stage = "running", ![c].step = @ + 1]
  BY DEF RestoreThread, Is
<1>2. GridCall(call) /\ callers[c].step = 8
  BY <1>1, OutsideInRegion
<1>3. /\ Moves(c) /\ callers'[c].args = args /\ callers'[c].step = 9
      /\ callers'[c].stage = "running" /\ callers'[c].call = call
  BY <1>1, <1>2 DEF IInv, CallersInv, CallerFields, Moves, Stages
<1>4. PromiseOf(c, callers[c], work[c], faults)
  BY DEF PromiseInv
<1>5. ArgsOK(call, args) /\ \A k \in 1..Len(body) : k < 8 => Found(call, args, body[k])
  BY <1>1, <1>2, <1>4 DEF PromiseOf, Through
<1>6. Len(body) = 9 /\ body[8] = Region
  <2>1. Len(Body(c)) = 9 /\ Body(c)[8] = Region
    BY <1>2, RegionIsEighth DEF IInv, CallersInv
  <2> QED BY <2>1, ReadsCallAndArgs
<1>7. Found(call, args, body[8])
  BY <1>6 DEF Found, Region
<1>8. \A k \in 1..Len(body) : k < 9 => Found(call, args, body[k])
  <2> HIDE DEF body, call, args
  <2> TAKE k \in 1..Len(body)
  <2> HAVE k < 9
  <2>1. k < 8 \/ k = 8
    BY <1>6
  <2> QED BY <1>5, <1>7, <2>1
<1>9. Through(callers'[c])
  BY <1>3, <1>5, <1>8 DEF Through
<1>10. SumsFilled(callers'[c], work'[c])
  BY <1>1, <1>2, <1>3, <1>4 DEF PromiseOf, SumsFilled
<1>11. CountsFilled(callers'[c], work'[c])
  BY <1>2, <1>3 DEF CountsFilled, GridCall, HistCall
<1>12. Ends(callers'[c], faults')
  BY <1>3 DEF Ends
<1>13. PromiseOf(c, callers'[c], work'[c], faults')
  BY <1>3, <1>4, <1>9, <1>10, <1>11, <1>12 DEF PromiseOf
<1>14. ReturnsInv'
  BY <1>1, <1>3, ReturnsStay DEF IInv, Worse
<1> QED BY <1>1, <1>3, <1>13, <1>14, OthersPromise DEF IInv, Worse

\* At the end of the body of a histogram the counts are what they should be.
LEMMA CountsInTheEnd ==
    ASSUME IInv, PromiseInv, NEW c \in Callers, HistCall(callers[c].call),
           callers[c].stage = "running", callers[c].step > Len(Body(c))
    PROVE  CountsAre(callers[c].args, work[c].counts)
<1> DEFINE me == callers[c]
           values == ArrayAt(me.args, 1).data
           centers == ArrayAt(me.args, 2).data
           bins == ArrayAt(me.args, 2).shape[1]
<1>1. /\ CountsFilled(me, work[c]) /\ \E plan \in Plans : me.call = plan[c]
      /\ ArgsOK(me.call, me.args)
  BY DEF PromiseInv, PromiseOf, Through
<1>2. CallOK(me.call)
  BY <1>1, PlannedCalls
<1>3. Body(c) = HistogramBody(bins) /\ me.step \in Nat
  <2>1. BodyIn(me.call, me.args) = HistogramBody(bins)
    BY <1>1, <1>2, HistPromise
  <2> QED BY <2>1, ReadsCallAndArgs DEF IInv, CallersInv
<1>4. /\ bins = 0 => work[c].counts = <<>>
      /\ bins = 1 /\ me.step > 8 => work[c].counts = <<Len(values)>>
      /\ bins # 0 /\ bins # 1 /\ me.step > 12 =>
            work[c].counts = Counted(Midpoints(centers), values)
  BY <1>1 DEF CountsFilled
<1>5. /\ bins = 1 => me.step > 8
      /\ bins # 0 /\ bins # 1 => me.step > 12
  <2> DEFINE body == HistogramBody(bins)
             step == me.step
  <2>1. step \in Nat /\ step > Len(body)
    BY <1>3
  <2> HIDE DEF bins, step
  <2>2. /\ bins = 1 => Len(body) = 8
        /\ bins # 0 /\ bins # 1 => Len(body) = 12
    BY HistSteps
  <2> HIDE DEF body
  <2>3. /\ bins = 1 => step > 8
        /\ bins # 0 /\ bins # 1 => step > 12
    BY <2>1, <2>2
  <2> QED BY <2>3 DEF step
<1>6. work[c].counts = CASE bins = 0 -> <<>>
                         [] bins = 1 -> <<Len(values)>>
                         [] OTHER -> Counted(Midpoints(centers), values)
  <2> HIDE DEF bins, values, centers
  <2> QED BY <1>4, <1>5
<1> QED BY <1>6 DEF CountsAre

\* A call that has come through its body returns what is promised.
LEMMA ReturnPromise ==
    ASSUME NumbersOnly, IInv, RegionInv, PromiseInv, NEW c \in Callers, ReturnValue(c)
    PROVE  PromiseInv'
<1> DEFINE call == callers[c].call
           args == callers[c].args
           body == BodyIn(call, args)
           o == [kind |-> "value", value |-> {ResultOf(c)}]
<1>1. /\ callers[c].stage = "running" /\ callers[c].step > Len(Body(c))
      /\ Out(c, "value", {ResultOf(c)})
      /\ work' = work /\ faults' = faults /\ module' = module
  BY DEF ReturnValue, Is
<1>2. PromiseOf(c, callers[c], work[c], faults)
  BY DEF PromiseInv
<1>3. Body(c) = body
  BY ReadsCallAndArgs
<1>4. ArgsOK(call, args) /\ CallOK(call)
  BY <1>1, <1>2, PlannedCalls DEF PromiseOf, Through
<1>5. \A k \in 1..Len(body) : Found(call, args, body[k])
  <2>1. \A k \in 1..Len(body) : k < callers[c].step => Found(call, args, body[k])
    BY <1>1, <1>2 DEF PromiseOf, Through
  <2>2. callers[c].step \in Nat /\ Len(body) \in Nat /\ callers[c].step > Len(body)
    <3>1. Len(body) \in Nat
      BY <1>4, BodiesAreOK DEF BodyOK, CallOK, ArgsOK
    <3> QED BY <1>1, <1>3, <3>1 DEF IInv, CallersInv
  <2> HIDE DEF body, call, args
  <2> QED BY <2>1, <2>2
<1>6. Promised!MayReturn(call)
  BY <1>4, <1>5, FoundIsTaken
<1>7. ResultOf(c) \in Promised!Results(call)
  <2>1. CASE GridCall(call)
    <3>1. Len(Body(c)) = 9 /\ callers[c].step \in Nat
      BY <2>1, RegionIsEighth DEF IInv, CallersInv
    <3>2. callers[c].step > 8
      BY <1>1, <3>1
    <3>3. Sequential(args, work[c].sums)
      BY <1>1, <2>1, <3>2 DEF RegionInv, CallerInv, GridInv
    <3>4. IsFunction(work[c].sums)
      BY <1>1, <1>2, <2>1, <3>2 DEF PromiseOf, SumsFilled
    <3>5. ResultOf(c) = [sums |-> work[c].sums]
      BY <2>1 DEF ResultOf, GridCall
    <3> HIDE DEF call, args
    <3>6. work[c].sums = [at \in DOMAIN work[c].sums |-> work[c].sums[at]]
      BY <3>4, Zenon DEF IsFunction
    <3> QED BY <1>4, <1>5, <2>1, <3>3, <3>5, <3>6, GridResult
  <2>2. CASE HistCall(call)
    <3>1. CountsAre(args, work[c].counts)
      BY <1>1, <2>2, CountsInTheEnd
    <3>2. ResultOf(c) = [counts |-> work[c].counts]
      BY <2>2 DEF ResultOf, HistCall
    <3>3. \A j \in 1..Len(ArrayAt(args, 1).data) : ArrayAt(args, 1).data[j] # {}
      <4>1. PICK plan \in Plans : call = plan[c]
        BY <1>2 DEF PromiseOf
      <4>2. args \in Bind(call)
        BY <1>4 DEF ArgsOK
      <4> HIDE DEF call, args
      <4>3. args[1] # {}
        BY <1>4, <1>5, <2>2, HistPromise
      <4>4. (CHOOSE v \in args[1] : TRUE) \in args[1]
        BY <4>3
      <4> QED BY <2>2, <4>1, <4>2, <4>4 DEF NumbersOnly, ArrayAt
    <3> HIDE DEF call, args
    <3> QED BY <1>4, <1>5, <2>2, <3>1, <3>2, <3>3, HistResult
  <2>3. CASE ~GridCall(call) /\ ~HistCall(call)
    BY <1>4, <2>3, DelegatedResult DEF ArgsOK
  <2> QED BY <2>1, <2>2, <2>3
<1>8. /\ Moves(c) /\ callers'[c].stage = "leaving" /\ callers'[c].call = call
      /\ callers'[c].outcome = {o}
  <2>1. Moves(c) /\ callers'[c].stage = "leaving" /\ callers'[c].call = call
    BY <1>1, OutMoves DEF Staged, IInv, Moves
  <2> HIDE DEF o
  <2>2. callers'[c].outcome = {o}
    BY <1>1, Zenon DEF Out, IInv, CallersInv, CallerFields, o
  <2> QED BY <2>1, <2>2
<1>9. MayEnd(call, faults', o)
  BY <1>6, <1>7 DEF MayEnd
<1> HIDE DEF o, call
<1>10. Ends(callers'[c], faults')
  BY <1>8, <1>9 DEF Ends
<1>11. PromiseOf(c, callers'[c], work'[c], faults')
  BY <1>2, <1>8, <1>10 DEF PromiseOf, Through, SumsFilled, CountsFilled, Early, call
<1>12. ReturnsInv'
  BY <1>1, <1>8, ReturnsStay DEF IInv, Worse
<1> QED BY <1>1, <1>8, <1>11, <1>12, OthersPromise DEF IInv, Worse

\* What is given back on the way out does not change how a call ends.
LEMMA LeavePromise ==
    ASSUME IInv, RegionInv, PromiseInv, NEW c \in Callers, Leave(c)
    PROVE  PromiseInv'
<1>1. /\ callers[c].stage = "leaving" /\ work' = work /\ faults' = faults /\ module' = module
      /\ \/ \E name : callers' = [callers EXCEPT ![c].buffers = @ \ {name}]
         \/ \E name : callers' = [callers EXCEPT ![c].views = @ \ {name}]
         \/ To(c, "ended")
  BY DEF Leave, GiveBuffer, GiveView, Is
<1>2. /\ Moves(c) /\ callers'[c].stage \in {"leaving", "ended"}
      /\ callers'[c].call = callers[c].call /\ callers'[c].outcome = callers[c].outcome
  BY <1>1 DEF To, IInv, CallersInv, CallerFields, Moves, Stages
<1>3. PromiseOf(c, callers[c], work[c], faults)
  BY DEF PromiseInv
<1>4. Ends(callers'[c], faults')
  BY <1>1, <1>2, <1>3 DEF PromiseOf, Ends
<1>5. PromiseOf(c, callers'[c], work'[c], faults')
  BY <1>2, <1>3, <1>4 DEF PromiseOf, Through, SumsFilled, CountsFilled, Early
<1>6. ReturnsInv'
  BY <1>1, <1>2, ReturnsStay DEF IInv, Worse
<1> QED BY <1>1, <1>2, <1>5, <1>6, OthersPromise DEF IInv, Worse

\* Nothing is to be shown before the first step.
LEMMA InitPromise ==
    ASSUME Init
    PROVE  PromiseInv
<1>1. PICK plan \in Plans : callers = [c \in Callers |-> Idle(plan[c])]
  BY DEF Init
<1>2. ASSUME NEW c \in Callers PROVE PromiseOf(c, callers[c], work[c], faults)
  <2>1. /\ callers[c].call = plan[c] /\ callers[c].stage = "idle"
        /\ work[c].counts = <<>>
    BY <1>1 DEF Idle, Init, NoWork
  <2> QED BY <2>1 DEF PromiseOf, Through, SumsFilled, CountsFilled, Ends
<1>3. \A c \in Callers : callers[c].stage # "returning"
  BY <1>1 DEF Idle
<1> QED BY <1>2, <1>3 DEF PromiseInv, ReturnsInv

\* Every step keeps what the callers have to show.
LEMMA NextKeepsPromise ==
    ASSUME NumbersOnly, IInv, RegionInv, PromiseInv, [Next]_vars
    PROVE  PromiseInv'
<1>1. CASE UNCHANGED vars
  BY <1>1, StillPromise DEF vars, Worse, IInv
<1>2. ASSUME NEW c \in Callers, TakeGil(c) PROVE PromiseInv'
  BY <1>2, StillPromise DEF TakeGil, Worse, IInv
<1>3. ASSUME NEW c \in Callers, RestoreThread(c) \/ Ask(c) \/ Import(c) PROVE PromiseInv'
  BY <1>3, RestorePromise, ImportPromise
<1>4. ASSUME NEW c \in Callers, Serve(c) PROVE PromiseInv'
  BY <1>4, BindPromise, BufferPromise, PythonPromise, ViewPromise, SavePromise, FillPromise,
     ReturnPromise, LeavePromise DEF Serve
<1>5. ASSUME NEW c \in Callers, NEW w \in DOMAIN work[c].team, ReadSum(c, w) \/ WriteSum(c, w)
      PROVE  PromiseInv'
  BY <1>5, SumsPromise
<1> QED BY <1>1, <1>2, <1>3, <1>4, <1>5 DEF Next

\* In every state every caller has that to show.
LEMMA PromiseInvariance == NumbersOnly => (Spec => [](IInv /\ RegionInv /\ PromiseInv))
<1> SUFFICES ASSUME NumbersOnly PROVE Spec => [](IInv /\ RegionInv /\ PromiseInv)
  OBVIOUS
<1>1. Init => IInv /\ RegionInv /\ PromiseInv
  BY InitIInv, InitRegion, InitPromise
<1>2. IInv /\ RegionInv /\ PromiseInv /\ [Next]_vars => IInv' /\ RegionInv' /\ PromiseInv'
  BY NextKeeps, NextKeepsRegions, NextKeepsPromise DEF IInv
<1> QED BY <1>1, <1>2, PTL DEF Spec

------------------------------------------------------------
(* The steps, as those of the promise.                                      *)

\* What the promise sees of a caller.
CalledBy(me) == IF me.stage = "idle" THEN {} ELSE {me.call}
EndOf(me) == IF me.stage = "ended" THEN me.outcome ELSE {}

\* It sees the callers and the faults.
LEMMA SeenOfState ==
    /\ Promised!vars = << [c \in Callers |-> CalledBy(callers[c])],
                          [c \in Callers |-> EndOf(callers[c])], faults >>
    /\ Promised!vars' = << [c \in Callers |-> CalledBy(callers'[c])],
                           [c \in Callers |-> EndOf(callers'[c])], faults' >>
BY DEF Promised!vars, CalledBy, EndOf, Is

\* The stages of a call that has begun and not ended.
Within == {"importing", "assigning", "returning", "binding", "running", "outside", "leaving"}

\* Inside a call the promise sees a fault at most.
LEMMA WithinIsFault ==
    ASSUME \A c \in Callers : \/ callers'[c] = callers[c]
                              \/ /\ callers[c].stage \in Within /\ callers'[c].stage \in Within
                                 /\ callers'[c].call = callers[c].call,
           Worse
    PROVE  [Promised!Next]_(Promised!vars)
<1>1. ASSUME NEW c \in Callers
      PROVE  CalledBy(callers'[c]) = CalledBy(callers[c]) /\ EndOf(callers'[c]) = EndOf(callers[c])
  BY DEF CalledBy, EndOf, Within
<1>2. /\ [c \in Callers |-> CalledBy(callers'[c])] = [c \in Callers |-> CalledBy(callers[c])]
      /\ [c \in Callers |-> EndOf(callers'[c])] = [c \in Callers |-> EndOf(callers[c])]
  BY <1>1
<1>3. CASE faults' = faults
  BY <1>2, <1>3, SeenOfState
<1>4. CASE faults' = faults + 1
  <2>1. Promised!Fault
    BY <1>2, <1>4 DEF Promised!Fault, CalledBy, EndOf, Is
  <2> QED BY <2>1 DEF Promised!Next
<1> QED BY <1>3, <1>4 DEF Worse

\* So it does of a step of one caller inside its call.
LEMMA MovesWithin ==
    ASSUME NEW c \in Callers, Moves(c), Worse,
           callers[c].stage \in Within, callers'[c].stage \in Within
    PROVE  [Promised!Next]_(Promised!vars)
BY WithinIsFault DEF Moves

\* A caller that asks for the module has made its call.
LEMMA AskIsCall ==
    ASSUME IInv, PromiseInv, NEW c \in Callers, Ask(c)
    PROVE  [Promised!Next]_(Promised!vars)
<1> DEFINE called == [d \in Callers |-> CalledBy(callers[d])]
           stage == IF module.cached THEN "returning" ELSE "importing"
<1>1. callers[c].stage = "idle" /\ faults' = faults /\ To(c, stage)
  BY DEF Ask, To, Is
<1>2. PICK call \in [d \in Callers |-> { plan[d] : plan \in Plans }][c] : call = callers[c].call
  BY DEF PromiseInv, PromiseOf
<1>3. Moves(c) /\ callers'[c].stage \in {"returning", "importing"} /\ callers'[c].call = call
  <2>1. stage \in {"returning", "importing"} /\ stage \in Stages
    BY DEF Stages
  <2> HIDE DEF stage
  <2> QED BY <1>1, <1>2, <2>1, ToMoves DEF Staged, IInv, Moves
<1>4. called[c] = {} /\ [d \in Callers |-> CalledBy(callers'[d])] = [called EXCEPT ![c] = {call}]
  BY <1>1, <1>3 DEF Moves, CalledBy
<1>5. [d \in Callers |-> EndOf(callers'[d])] = [d \in Callers |-> EndOf(callers[d])]
  BY <1>1, <1>3 DEF Moves, EndOf
<1>6. Promised!Call(c, call)
  BY <1>1, <1>4, <1>5 DEF Promised!Call, CalledBy, EndOf, Is
<1> QED BY <1>6 DEF Promised!Next

\* A call ends as it may.
LEMMA EndIsPromised ==
    ASSUME IInv, PromiseInv, NEW c \in Callers, callers[c].stage = "leaving", To(c, "ended"),
           faults' = faults
    PROVE  [Promised!Next]_(Promised!vars)
<1> DEFINE ended == [d \in Callers |-> EndOf(callers[d])]
           call == callers[c].call
<1>1. Moves(c) /\ callers'[c].stage = "ended" /\ callers'[c].call = call
  BY ToMoves DEF Staged, IInv, Moves, Stages
<1>2. callers'[c].outcome = callers[c].outcome
  BY DEF To, IInv, CallersInv, CallerFields
<1>3. PICK o : callers[c].outcome = {o} /\ MayEnd(call, faults, o)
  BY DEF PromiseInv, PromiseOf, Ends
<1>4. /\ ended[c] = {} /\ [d \in Callers |-> EndOf(callers'[d])] = [ended EXCEPT ![c] = {o}]
  BY <1>1, <1>2, <1>3 DEF Moves, EndOf
<1>5. [d \in Callers |-> CalledBy(callers'[d])] = [d \in Callers |-> CalledBy(callers[d])]
  BY <1>1 DEF Moves, CalledBy
<1>6. \A kind, value : o = [kind |-> kind, value |-> value] => Promised!End(c, kind, value)
  BY <1>4 DEF Promised!End, EndOf, Is
<1>7. UNCHANGED <<[d \in Callers |-> CalledBy(callers[d])], faults>>
  BY <1>5
<1> HIDE DEF call
<1>8. Promised!Return(c, call) \/ Promised!Refuse(c, call) \/ Promised!Fail(c, call)
  <2>1. CASE o = [kind |-> "refused", value |-> {}] /\ ~Promised!MustReturn(call)
    <3>1. Promised!End(c, "refused", {})
      BY <1>6, <2>1
    <3>2. Promised!Refuse(c, call)
      BY <1>7, <2>1, <3>1 DEF Promised!Refuse, CalledBy, Is
    <3> QED BY <3>2
  <2>2. CASE o = [kind |-> "failed", value |-> {}] /\ faults > 0
    <3>1. Promised!End(c, "failed", {})
      BY <1>6, <2>2
    <3>2. Promised!Fail(c, call)
      BY <1>7, <2>2, <3>1 DEF Promised!Fail, CalledBy, Is
    <3> QED BY <3>2
  <2>3. ASSUME NEW result \in Promised!Results(call), Promised!MayReturn(call),
               o = [kind |-> "value", value |-> {result}]
        PROVE  Promised!Return(c, call)
    <3>1. Promised!End(c, "value", {result})
      BY <1>6, <2>3
    <3> QED BY <1>7, <2>3, <3>1 DEF Promised!Return, CalledBy, Is
  <2> QED BY <1>3, <2>1, <2>2, <2>3 DEF MayEnd
<1>9. call \in CalledBy(callers[c]) /\ ended[c] = {}
  BY <1>4 DEF CalledBy, call
<1> QED BY <1>8, <1>9 DEF Promised!Next, CalledBy, EndOf, Is

\* A step of the import.
LEMMA ImportMaps ==
    ASSUME IInv, NEW c \in Callers, Import(c)
    PROVE  [Promised!Next]_(Promised!vars)
<1> USE DEF Is
<1>1. ASSUME NEW found \in BOOLEAN, Imported(c, found), callers[c].stage = "importing", Worse
      PROVE  [Promised!Next]_(Promised!vars)
  <2>1. Moves(c) /\ callers'[c].stage = "assigning"
    BY <1>1 DEF Imported, IInv, CallersInv, CallerFields, Moves, Stages
  <2> QED BY <1>1, <2>1, MovesWithin DEF Within
<1>2. ASSUME callers' = callers, Worse PROVE [Promised!Next]_(Promised!vars)
  BY <1>2, WithinIsFault
<1>3. CASE ImportListed(c)
  BY <1>1, <1>3 DEF ImportListed, Worse
<1>4. CASE PymodCreate(c)
  BY <1>1, <1>2, <1>4 DEF PymodCreate, Worse
<1>5. CASE PymodExec(c)
  BY <1>1, <1>2, <1>5 DEF PymodExec, InitDone, Worse
<1>6. CASE PymodExecFails(c)
  BY <1>1, <1>6 DEF PymodExecFails, Worse
<1>7. CASE Assign(c)
  <2>1. callers[c].stage = "assigning" /\ To(c, "returning") /\ faults' = faults
    BY <1>7 DEF Assign
  <2>2. Moves(c) /\ callers'[c].stage = "returning"
    BY <2>1, ToMoves DEF IInv, Stages, Staged
  <2> QED BY <2>1, <2>2, MovesWithin DEF Within, Worse
<1>8. CASE ReturnModule(c)
  <2>1. /\ callers[c].stage = "returning" /\ faults' = faults
        /\ To(c, "binding") \/ Out(c, "failed", {})
    BY <1>8 DEF ReturnModule
  <2>2. Moves(c) /\ callers'[c].stage \in {"binding", "leaving"}
    BY <2>1, ToMoves, OutMoves DEF IInv, Stages, Staged
  <2> QED BY <2>1, <2>2, MovesWithin DEF Within, Worse
<1> QED BY <1>3, <1>4, <1>5, <1>6, <1>7, <1>8 DEF Import

\* A step of the body.
LEMMA BodyMaps ==
    ASSUME IInv, NEW c \in Callers,
           \/ BindArguments(c) \/ GetBuffer(c) \/ CallPython(c) \/ ToMemoryviewSlice(c)
           \/ SaveThread(c) \/ FillArray(c) \/ ReturnValue(c) \/ RestoreThread(c)
    PROVE  [Promised!Next]_(Promised!vars)
<1> USE DEF Is
<1>1. callers[c].stage \in {"binding", "running", "outside"}
  <2>1. ASSUME NEW do, At(c, do) PROVE callers[c].stage = "running"
    BY <2>1 DEF At
  <2>2. CASE GetBuffer(c) \/ CallPython(c) \/ ToMemoryviewSlice(c) \/ SaveThread(c) \/ FillArray(c)
    BY <2>1, <2>2, Zenon DEF GetBuffer, CallPython, ToMemoryviewSlice, SaveThread, FillArray
  <2>3. CASE BindArguments(c) \/ ReturnValue(c) \/ RestoreThread(c)
    BY <2>3 DEF BindArguments, ReturnValue, RestoreThread
  <2> QED BY <2>1, <2>2, <2>3
<1>2. ASSUME NEW kind, NEW value, Out(c, kind, value)
      PROVE  Moves(c) /\ callers'[c].stage \in Within
  BY <1>2, OutMoves DEF IInv, Staged, Within
<1>3. ASSUME callers[c].stage = "running", Advance(c)
      PROVE  Moves(c) /\ callers'[c].stage \in Within
  BY <1>3, AdvanceMoves DEF IInv, Staged, Within
<1>4. Moves(c) /\ callers'[c].stage \in Within /\ Worse
  <2>1. CASE BindArguments(c)
    <3>1. ASSUME NEW args, callers' = [callers EXCEPT ![c].args = args, ![c].step = 1,
                                                      ![c].stage = "running"]
          PROVE  Moves(c) /\ callers'[c].stage \in Within
      BY <3>1 DEF IInv, CallersInv, CallerFields, Moves, Stages, Within
    <3> QED BY <1>2, <2>1, <3>1 DEF BindArguments, Refuse, Worse
  <2>2. CASE GetBuffer(c)
    <3>1. ASSUME NEW name, callers[c].stage = "running",
                 callers' = [callers EXCEPT ![c].step = @ + 1, ![c].buffers = @ \union {name}]
          PROVE  Moves(c) /\ callers'[c].stage \in Within
      BY <3>1 DEF IInv, CallersInv, CallerFields, Moves, Stages, Within
    <3>2. callers[c].stage = "running"
      BY <2>2 DEF GetBuffer, At
    <3> QED BY <1>2, <2>2, <3>1, <3>2 DEF GetBuffer, Refuse, Worse
  <2>3. CASE CallPython(c)
    <3>1. callers[c].stage = "running"
      BY <2>3 DEF CallPython, At
    <3> QED BY <1>2, <1>3, <2>3, <3>1 DEF CallPython, Refuse, Fail, Worse
  <2>4. CASE ToMemoryviewSlice(c)
    <3>1. ASSUME NEW name, callers[c].stage = "running",
                 callers' = [callers EXCEPT ![c].step = @ + 1, ![c].views = @ \union {name}]
          PROVE  Moves(c) /\ callers'[c].stage \in Within
      BY <3>1 DEF IInv, CallersInv, CallerFields, Moves, Stages, Within
    <3>2. callers[c].stage = "running"
      BY <2>4 DEF ToMemoryviewSlice, At
    <3>3. /\ \/ Out(c, "refused", {}) \/ Out(c, "failed", {})
             \/ \E name : callers' = [callers EXCEPT ![c].step = @ + 1,
                                                     ![c].views = @ \union {name}]
          /\ Worse
      BY <2>4 DEF ToMemoryviewSlice, Refuse, Fail, Worse
    <3> QED BY <1>2, <3>1, <3>2, <3>3
  <2>5. CASE SaveThread(c)
    <3>1. To(c, "outside") /\ faults' = faults
      BY <2>5 DEF SaveThread, GoOutside
    <3> QED BY <3>1, ToMoves DEF IInv, Staged, Stages, Within, Worse
  <2>6. CASE FillArray(c)
    BY <1>3, <2>6 DEF FillArray, At, Worse
  <2>7. CASE ReturnValue(c)
    BY <1>2, <2>7 DEF ReturnValue, Worse
  <2>8. CASE RestoreThread(c)
    <3>1. /\ faults' = faults
          /\ callers' = [callers EXCEPT ![c].stage = "running", ![c].step = @ + 1]
      BY <2>8 DEF RestoreThread
    <3>2. Moves(c) /\ callers'[c].stage \in Within
      BY <3>1 DEF IInv, CallersInv, CallerFields, Moves, Stages, Within
    <3> QED BY <3>1, <3>2 DEF Worse
  <2> QED BY <2>1, <2>2, <2>3, <2>4, <2>5, <2>6, <2>7, <2>8
<1> QED BY <1>1, <1>4, MovesWithin DEF Within

\* A step on the way out.
LEMMA LeaveMaps ==
    ASSUME IInv, PromiseInv, NEW c \in Callers, Leave(c)
    PROVE  [Promised!Next]_(Promised!vars)
<1>1. /\ callers[c].stage = "leaving" /\ faults' = faults
      /\ \/ \E name : callers' = [callers EXCEPT ![c].buffers = @ \ {name}]
         \/ \E name : callers' = [callers EXCEPT ![c].views = @ \ {name}]
         \/ To(c, "ended")
  BY DEF Leave, GiveBuffer, GiveView, Is
<1>2. CASE To(c, "ended")
  BY <1>1, <1>2, EndIsPromised
<1>3. ASSUME NEW name,
             \/ callers' = [callers EXCEPT ![c].buffers = @ \ {name}]
             \/ callers' = [callers EXCEPT ![c].views = @ \ {name}]
      PROVE  [Promised!Next]_(Promised!vars)
  <2>1. Moves(c) /\ callers'[c].stage = "leaving"
    BY <1>1, <1>3 DEF IInv, CallersInv, CallerFields, Moves, Stages
  <2> QED BY <1>1, <2>1, MovesWithin DEF Within, Worse
<1> QED BY <1>1, <1>2, <1>3

\* Every step is one of the promise, or none.
LEMMA NextMaps ==
    ASSUME IInv, PromiseInv, [Next]_vars
    PROVE  [Promised!Next]_(Promised!vars)
<1>1. ASSUME callers' = callers, faults' = faults PROVE [Promised!Next]_(Promised!vars)
  BY <1>1, WithinIsFault DEF Worse
<1>2. CASE UNCHANGED vars
  BY <1>1, <1>2 DEF vars
<1>3. ASSUME NEW c \in Callers, TakeGil(c) PROVE [Promised!Next]_(Promised!vars)
  BY <1>1, <1>3 DEF TakeGil
<1>4. ASSUME NEW c \in Callers, RestoreThread(c) \/ Ask(c) \/ Import(c)
      PROVE  [Promised!Next]_(Promised!vars)
  BY <1>4, BodyMaps, AskIsCall, ImportMaps
<1>5. ASSUME NEW c \in Callers, Serve(c) PROVE [Promised!Next]_(Promised!vars)
  BY <1>5, BodyMaps, LeaveMaps DEF Serve
<1>6. ASSUME NEW c \in Callers, NEW w, ReadSum(c, w) \/ WriteSum(c, w)
      PROVE  [Promised!Next]_(Promised!vars)
  BY <1>1, <1>6 DEF ReadSum, WriteSum
<1> QED BY <1>2, <1>3, <1>4, <1>5, <1>6 DEF Next

\* No call has been made at first.
LEMMA InitMaps ==
    ASSUME Init
    PROVE  Promised!Init
<1>1. \A c \in Callers : callers[c].stage = "idle"
  BY DEF Init, Idle
<1> QED BY <1>1 DEF Promised!Init, Init, Is

\* Calls of the extension are what PureCalls promises, for every plan of calls
\* whose samples are numbers, any number of threads and workers and any number
\* of faults: a value is the one the arguments determine, a call is refused
\* only for a reason in its arguments, and fails only after something around it
\* failed.
THEOREM CallsArePure == NumbersOnly => (Spec => ImplementsPureCalls)
<1> SUFFICES ASSUME NumbersOnly PROVE Spec => ImplementsPureCalls
  OBVIOUS
<1>1. Init => Promised!Init
  BY InitMaps
<1>2. IInv /\ PromiseInv /\ [Next]_vars => [Promised!Next]_(Promised!vars)
  BY NextMaps
<1> QED BY <1>1, <1>2, PromiseInvariance, PTL DEF Spec, ImplementsPureCalls, Promised!Spec
=============================================================================

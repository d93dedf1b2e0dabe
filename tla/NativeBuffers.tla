--------------------------- MODULE NativeBuffers ---------------------------
(* The buffers and the memoryview objects that the functions exported by    *)
(* _stage2_native.c hold on arrays while they run: the check of the item    *)
(* format, buffers taken and given back, memoryview objects with their      *)
(* acquisition counts, and the pool of locks an object takes one from when  *)
(* the build has no atomic counters.                                        *)
(*                                                                          *)
(* A heap is a record: how many buffers each array has exported, the live   *)
(* memoryview objects, the pool of locks (a lock that could not be          *)
(* allocated is missing from its place: {}) and how many are in use.        *)
EXTENDS Integers, Sequences, Functions

CONSTANTS
    Atomics,    \* the build counts acquisitions with atomics and needs no locks
    PoolSize    \* __pyx_memoryview_thread_locks: 8 in the code

ASSUME AtomicsAssumption == Atomics \in BOOLEAN
ASSUME PoolSizeAssumption == PoolSize \in Nat

NoObject == [x \in {} |-> 0]
NewHeap(arrays) ==
    [exports |-> [a \in arrays |-> 0], objects |-> NoObject, pool |-> <<>>, used |-> 0]

----------------------------------------------------------------------------
(* Item formats: a byte order and a type code.  Codes have other sizes in   *)
(* native order ("@") than in the standard one.                             *)

TypeCharToNativeSize ==
    [i |-> 4, l |-> 8, q |-> 8, L |-> 8, f |-> 4, d |-> 8, Zf |-> 8, Zd |-> 16]
TypeCharToStandardSize == [TypeCharToNativeSize EXCEPT !.l = 4, !.L = 4]
TypeCharToGroup ==
    [i |-> "I", l |-> "I", q |-> "I", L |-> "U", f |-> "R", d |-> "R", Zf |-> "C", Zd |-> "C"]

\* The build is little-endian: a format that says otherwise is refused.
CheckString(format, item) ==
    /\ format.order # ">"
    /\ TypeCharToGroup[format.code] = item.group
    /\ item.size = (IF format.order = "@" THEN TypeCharToNativeSize
                    ELSE TypeCharToStandardSize)[format.code]

\* What GetBufferAndValidate and ValidateAndInit_memviewslice check.
Validated(array, want) ==
    Len(array.shape) = want.ndim /\ CheckString(array.format, want.item)

----------------------------------------------------------------------------
(* Buffers.                                                                 *)

Export(heap, a) == [heap EXCEPT !.exports[a] = @ + 1]
SafeReleaseBuffer(heap, a) == [heap EXCEPT !.exports[a] = @ - 1]

\* The heap after the call, with or without the buffer.
GetBufferAndValidate(heap, a, fits) ==
    IF fits THEN Export(heap, a) ELSE SafeReleaseBuffer(Export(heap, a), a)

----------------------------------------------------------------------------
(* Memoryview objects.                                                      *)

NewPool == [k \in 1..PoolSize |-> {<<"pool", k>>}]

\* The next lock of the pool, else a new one when there is memory for it.
LockFor(heap, id, memory) ==
    LET pooled == IF heap.used < Len(heap.pool) THEN heap.pool[heap.used + 1] ELSE {}
    IN  CASE Atomics -> {}
          [] ~Atomics /\ pooled # {} -> pooled
          [] OTHER -> IF memory THEN {<<"own", id>>} ELSE {}

With(objects, id, object) ==
    [x \in DOMAIN objects \union {id} |-> IF x = id THEN object ELSE objects[x]]

\* memoryview.__cinit__ of a writable array.
Cinit(heap, id, a, memory) ==
    [Export(heap, a) EXCEPT
        !.used = IF ~Atomics /\ @ < Len(heap.pool) THEN @ + 1 ELSE @,
        !.objects = With(@, id, [array |-> a, acquired |-> 0,
                                 lock |-> LockFor(heap, id, memory)])]

\* The pool after an object dropped its lock: the last lock in use takes its
\* place.  A lock that is not of the pool is freed.
DropLock(heap, lock) ==
    LET places == { k \in 1..heap.used : lock # {} /\ heap.pool[k] = lock }
        last == heap.used
    IN  IF places = {} THEN heap
        ELSE LET k == CHOOSE k \in places : \A j \in places : k <= j IN
             [heap EXCEPT !.used = @ - 1, !.pool[k] = heap.pool[last],
                          !.pool[last] = heap.pool[k]]

\* memoryview.__dealloc__.
Dealloc(heap, id) ==
    LET o == heap.objects[id]
        without == [heap EXCEPT !.objects = Restrict(@, DOMAIN @ \ {id})]
    IN  DropLock(SafeReleaseBuffer(without, o.array), o.lock)

InitMemviewslice(heap, id) == [heap EXCEPT !.objects[id].acquired = @ + 1]

\* Mutant: the object stays when its last slice is cleared.
XclearMemviewKeeping(heap, id) == [heap EXCEPT !.objects[id].acquired = @ - 1]

\* The last slice of an object takes the object with it.
XclearMemview(heap, id) ==
    IF heap.objects[id].acquired = 1 THEN Dealloc(heap, id)
    ELSE [heap EXCEPT !.objects[id].acquired = @ - 1]
=============================================================================

---------------------------- MODULE MemoryViews ----------------------------
(* The memoryview objects compiled into _stage2_native.c, over memory: what *)
(* getitem, setitem, .T, copy() and copy_fortran() do to the objects and to *)
(* the items.  An object made from a slice (fromslice) holds that slice and *)
(* refers to the object it was cut from; "owner" in the slice is the number *)
(* of axes of that object, and what is writable is inherited from it.       *)
(* Objects are never dropped here; how the objects that the exported        *)
(* functions hold come and go is in NativeBuffers.                          *)
EXTENDS MemviewCopy

CONSTANTS
    Exports,    \* the buffers a first view can be made of, as records
                \* [slice, writable, mem, ptr]
    Indices,    \* the indices used
    Values,     \* what an item can hold
    Fills,      \* the numbers a view is filled with
    Leftovers,  \* what an entry of an uninitialised slice can hold
    Limits,     \* what callers keep to: "slices", "ranks" (see below)
    MaxViews, MaxWrites     \* bounds of the exploration

VARIABLES
    mem,        \* address -> item
    ptr,        \* address -> address, for the axes that follow pointers
    objects,    \* the memoryview objects, in the order they were made
    outcome,    \* how the last operation ended, and the item it read
    writes      \* the operations that have written, bounded by MaxWrites

----------------------------------------------------------------------------
(* What a caller can pass: a buffer lies in memory, whose items do not      *)
(* overlap, and an index is "..." or a tuple of numbers, slices and "...".  *)

IsSlice(s) ==
    /\ s \in [data : Int, shape : Seq(Nat), strides : Seq(Int),
              suboffsets : Seq(Int), owner : Nat]
    /\ Len(s.strides) = Rank(s) /\ Len(s.suboffsets) = Rank(s)

IsMemory(m) ==
    /\ IsFiniteSet(DOMAIN m) /\ DOMAIN m \subseteq Int
    /\ \A a \in DOMAIN m : m[a] \in Values
    /\ \A a, b \in DOMAIN m : a < b => a + ItemSize <= b

ASSUME ExportsAssumption ==
    \A e \in Exports :
        /\ IsSlice(e.slice) /\ e.slice.owner = Rank(e.slice)
        /\ e.writable \in BOOLEAN /\ IsMemory(e.mem)
        /\ \A i \in Tuples(e.slice.shape) : Entered(e.ptr, e.slice, i) \in DOMAIN e.mem

\* A bound is a number or absent.
IsBound(b) == b \subseteq Int /\ \A x, y \in b : x = y
IsIndexItem(item) ==
    \/ item = Dots
    \/ item.kind = "index" /\ item = At(item.at) /\ item.at \in Int
    \/ /\ item.kind = "slice" /\ item = Range3(item.start, item.stop, item.step)
       /\ IsBound(item.start) /\ IsBound(item.stop) /\ IsBound(item.step)

\* An index that is "..." itself and not a tuple.
Bare == <<[kind |-> "bare"]>>

ASSUME IndicesAssumption ==
    \A index \in Indices :
        /\ index \in Seq(Range(index))
        /\ index = Bare \/ \A j \in DOMAIN index : IsIndexItem(index[j])

ASSUME OtherAssumptions ==
    /\ Fills \subseteq Values /\ Stray \in Values /\ Leftovers \subseteq Int
    /\ Limits \subseteq {"slices", "ranks"}
    /\ MaxViews \in Nat \ {0} /\ MaxWrites \in Nat

----------------------------------------------------------------------------
vars == <<mem, ptr, objects, outcome, writes>>

Ended(kind) == outcome' = [kind |-> kind, item |-> {}]
Refuse == Ended("refused") /\ UNCHANGED <<mem, ptr, objects, writes>>
NoMemory == Ended("memory") /\ UNCHANGED <<mem, ptr, objects, writes>>

AsTuple(index) == IF index = Bare THEN <<Dots>> ELSE index

Slice(v) == objects[v].slice

\* memoryview_fromslice: as writable as the object the slice refers to.
FromSlice(slice, v) == [slice |-> slice, writable |-> objects[v].writable]

\* getitem with have_slices.
SliceOf(v, items) == MemviewSlice(ptr, Slice(v), items)

----------------------------------------------------------------------------
Itself(v) == Ended("done") /\ UNCHANGED <<mem, ptr, objects, writes>>

GetSlice(v, found) ==
    LET cut == SliceOf(v, found.items) IN
    \/ /\ cut # {}
       /\ \E s \in cut : objects' = Append(objects, FromSlice(s, v))
       /\ Ended("done") /\ UNCHANGED <<mem, ptr, writes>>
    \/ cut = {} /\ Refuse

\* convert_item_to_object unpacks the bytes at the item's address.
ReadItem(v, items) ==
    LET at == GetItemPointer(ptr, Slice(v), items) IN
    \/ \E a \in at : /\ outcome' = [kind |-> "item", item |-> {mem[a]}]
                     /\ UNCHANGED <<mem, ptr, objects, writes>>
    \/ at = {} /\ Refuse

GetItem(v, index) ==
    LET found == Unellipsify(AsTuple(index), Rank(Slice(v))) IN
    \/ index = Bare /\ Itself(v)
    \/ /\ index # Bare
       /\ \/ \E f \in found : f.slices /\ GetSlice(v, f)
          \/ \E f \in found : ~f.slices /\ ReadItem(v, f.items)
          \/ found = {} /\ Refuse

----------------------------------------------------------------------------
(* setitem: with slices in the index, a view is copied and a number fills   *)
(* the selection, which is made by getitem; otherwise one item is packed.   *)

Written(after) ==
    /\ mem' = after /\ writes' = writes + 1
    /\ Ended("done") /\ UNCHANGED <<ptr, objects>>

\* setitem reads self[items] to get the selection.  Items that are all
\* numbers (from v[..., 1] of a row) make that a number, which is refused.
Selection(v, items) ==
    { s \in SliceOf(v, items) : \E k \in DOMAIN items : items[k].kind = "slice" }

\* setitem_slice_assignment.
SetSlice(v, f, w) ==
    LET cut == Selection(v, f.items) IN
    \/ \E dst \in cut, rest \in Leftovers :
          LET after == CopyContents(mem, Slice(w), dst, rest) IN
          \/ \E m \in after : Written(m)
          \/ after = {} /\ Refuse
    \/ \E dst \in cut : NeedsTemp(Slice(w), dst) /\ NoMemory
    \/ cut = {} /\ Refuse

\* setitem_slice_assign_scalar asserts that the axes of the view itself are
\* direct.
SetScalar(v, f, x) ==
    LET cut == Selection(v, f.items) IN
    \/ \E dst \in cut : IsDirect(Slice(v)) /\ Written(SliceAssignScalar(mem, dst, x))
    \/ (cut = {} \/ ~IsDirect(Slice(v))) /\ Refuse

\* setitem_indexed and assign_item_from_object.
SetItem(v, f, x) ==
    LET at == GetItemPointer(ptr, Slice(v), f.items) IN
    \/ \E a \in at : Written([mem EXCEPT ![a] = x])
    \/ at = {} /\ Refuse

\* The value is a view: struct.pack refuses it where a single item is set.
Assign(v, index, w) ==
    LET found == Unellipsify(AsTuple(index), Rank(Slice(v))) IN
    \/ (~objects[v].writable \/ found = {}) /\ Refuse
    \/ /\ objects[v].writable
       /\ \/ \E f \in found : f.slices /\ SetSlice(v, f, w)
          \/ \E f \in found : ~f.slices /\ Refuse

\* The value is a number: is_slice finds that it exports no buffer.
Fill(v, index, x) ==
    LET found == Unellipsify(AsTuple(index), Rank(Slice(v))) IN
    \/ (~objects[v].writable \/ found = {}) /\ Refuse
    \/ /\ objects[v].writable
       /\ \/ \E f \in found : f.slices /\ SetScalar(v, f, x)
          \/ \E f \in found : ~f.slices /\ SetItem(v, f, x)

----------------------------------------------------------------------------
(* .T, copy() and copy_fortran().                                           *)

\* memoryview_copy_object cuts a slice of the object itself; the slice is
\* transposed afterwards.
Turn(v) ==
    LET turned == TransposeMemslice(SliceCopy(Slice(v)), 0) IN
    \/ \E s \in turned : /\ objects' = Append(objects, FromSlice(s, v))
                         /\ Ended("done") /\ UNCHANGED <<mem, ptr, writes>>
    \/ turned = {} /\ Refuse

\* array.__cinit__ refuses to have no axis or an empty one.
HasAxes(shape) == Len(shape) > 0
NoEmptyAxis(shape) == \A k \in 1..Len(shape) : shape[k] > 0

\* The array made for a copy: its mode is the order of its items.
NewArray(shape, mode) ==
    IF HasAxes(shape) /\ NoEmptyAxis(shape)
    THEN {[mode |-> mode, shape |-> shape, strides |-> ContigStrides(shape, mode),
           data |-> Max(DOMAIN mem) + ItemSize, items |-> ProductTo(shape, Len(shape))]}
    ELSE {}

\* allocate_buffer: cells nobody else has, with any contents.
Allocated(array) ==
    LET own == { array.data + ItemSize * n : n \in 0..(array.items - 1) } IN
    [a \in DOMAIN mem \union own |->
        IF a \in DOMAIN mem THEN mem[a] ELSE CHOOSE x \in Values : TRUE]

\* A request for a buffer is a set of bits; one for an order, or for any, has
\* the bits for extents and strides too.  array.__getbuffer__ refuses what
\* shares no bit with its mode.
Request(order) == {"nd", "strides", order}
BufMode(mode) == Request(mode) \union {"any"}
ArrayServes(mode, request) ==
    request \intersect (BufMode("C") \union BufMode("F")) # {}
        => request \intersect BufMode(mode) # {}
ArrayBuffer(array) ==
    [data |-> array.data, shape |-> array.shape, strides |-> array.strides,
     suboffsets |-> [k \in DOMAIN array.shape |-> -1], owner |-> Len(array.shape)]

\* copy_new_contig: the slices of the views of arrays that can be had.
NewContig(src, order) ==
    { array \in NewArray(src.shape, order) :
        IsDirect(src) /\ ArrayServes(order, Request(order)) }

Copy(v, order) ==
    LET src == SliceCopy(Slice(v)) IN
    \/ \E array \in NewContig(src, order) :
          LET dst == ArrayBuffer(array) IN
          /\ mem' \in CopyContents(Allocated(array), src, dst, 0)
          /\ objects' = Append(objects, [slice |-> dst, writable |-> TRUE])
          /\ writes' = writes + 1 /\ Ended("done") /\ UNCHANGED ptr
    \/ NewContig(src, order) = {} /\ Refuse
    \/ NoMemory

----------------------------------------------------------------------------
(* What an object tells of itself.                                          *)

ShapeOf(v) == Slice(v).shape

\* NULL, which reads as -1 for every axis, unless one follows a pointer.
SuboffsetsOf(v) ==
    IF IsDirect(Slice(v)) THEN [k \in DOMAIN ShapeOf(v) |-> -1] ELSE Slice(v).suboffsets

LengthOf(v) == IF Rank(Slice(v)) >= 1 THEN Head(ShapeOf(v)) ELSE 0
SizeOf(v) == ProductTo(ShapeOf(v), Rank(Slice(v)))
BytesOf(v) == SizeOf(v) * ItemSize

\* is_c_contig and is_f_contig.
ContigOrders(v) == { order \in {"C", "F"} : IsContig(Slice(v), order) }

----------------------------------------------------------------------------
(* What callers keep to.  The code reads some slices as Python does not and *)
(* puts the items of some assignments into other places than Python does;   *)
(* callers that keep to both limits stay away from these.                   *)

\* slice_memviewslice reads a slice as Python does when it does not end before
\* its start by less than a step, where Extent is 1, and does not walk back from
\* or to a bound before the axis, which StartOf and StopOf move to position 0.
AsPython(n, item) ==
    LET step == StepOf(item)
        walk == StopOf(n, item) - StartOf(n, item)
    IN  item.kind = "slice" =>
            /\ step > 0 => walk >= 0 \/ walk <= -step
            /\ step < 0 => /\ walk <= 0 \/ walk >= -step
                           /\ \A b \in item.start \union item.stop : b >= -n

UsesSlices(v, index) ==
    "slices" \in Limits =>
        \A f \in Unellipsify(AsTuple(index), Rank(Slice(v))) :
            \A k \in 1..Rank(Slice(v)) : AsPython(ShapeOf(v)[k], f.items[k])

\* memoryview_copy_contents may transpose two slices when the destination's
\* best order is F; the axes it exchanges are theirs when they have as many as
\* the objects they were cut from.
OwnRanks(source, target) ==
    LET ndim == Max({Rank(source), Rank(target)}) IN
    BestOrder(BroadcastLeading(target, ndim)) = "F"
        => source.owner = ndim /\ target.owner = ndim

UsesRanks(v, index, w) ==
    "ranks" \in Limits =>
        \A f \in Unellipsify(AsTuple(index), Rank(Slice(v))) :
            \A dst \in Selection(v, f.items) : OwnRanks(Slice(w), dst)

----------------------------------------------------------------------------
Init ==
    \E e \in Exports :
        /\ mem = e.mem /\ ptr = e.ptr
        /\ objects = <<[slice |-> e.slice, writable |-> e.writable]>>
        /\ outcome = [kind |-> "none", item |-> {}] /\ writes = 0

Make(v) ==
    \/ Turn(v)
    \/ \E index \in Indices : UsesSlices(v, index) /\ GetItem(v, index)
Write(v) ==
    \/ \E order \in {"C", "F"} : Len(objects) < MaxViews /\ Copy(v, order)
    \/ \E index \in Indices :
          /\ UsesSlices(v, index)
          /\ \/ \E w \in 1..Len(objects) : UsesRanks(v, index, w) /\ Assign(v, index, w)
             \/ \E x \in Fills : Fill(v, index, x)

Next ==
    \E v \in 1..Len(objects) :
        \/ Len(objects) < MaxViews /\ Make(v)
        \/ writes < MaxWrites /\ Write(v)

Spec == Init /\ [][Next]_vars

----------------------------------------------------------------------------
(* Properties.                                                              *)

\* No item of a view is off memory, however the view was cut, turned or copied
\* from others.  Slices outside the limit "slices" break it: Extent counts an
\* item that slice_memviewslice has no bound for.
InMemory ==
    \A v \in 1..Len(objects) : \A i \in Tuples(ShapeOf(v)) :
        Entered(ptr, Slice(v), i) \in DOMAIN mem

\* Memory holds items, and every object is a slice with as many strides and
\* suboffsets as extents, all of whose items are in memory.
TypeOK ==
    /\ writes \in 0..MaxWrites /\ Len(objects) \in 1..MaxViews
    /\ \A a \in DOMAIN mem : mem[a] \in Values
    /\ outcome.kind \in {"none", "done", "item", "refused", "memory"}
    /\ outcome.item \subseteq Values
    /\ \A v \in 1..Len(objects) :
          /\ objects[v].writable \in BOOLEAN
          /\ IsSlice(Slice(v))
    /\ InMemory

\* The cell of an index tuple is the address of its item.
AddressesOf(s) == [i \in Tuples(s.shape) |-> Entered(ptr, s, i)]

\* The views the objects are, and what each tells of itself.
Views ==
    [v \in 1..Len(objects) |->
        [shape |-> ShapeOf(v), at |-> AddressesOf(Slice(v)),
         writable |-> objects[v].writable,
         direct |-> [k \in DOMAIN ShapeOf(v) |-> SuboffsetsOf(v)[k] < 0]]]
Tells ==
    [v \in 1..Len(objects) |->
        [length |-> LengthOf(v), size |-> SizeOf(v), bytes |-> BytesOf(v),
         contig |-> ContigOrders(v)]]

Promised == INSTANCE ArrayViews WITH cells <- mem, views <- Views, told <- Tells

\* For callers that keep to both limits, whatever the layout of the buffer, the
\* strides of the views and the way a copy takes (bytes, items, transposed,
\* through a temporary): indexing selects the positions Python's indices name,
\* a transpose and a copy show the same items, an assignment writes the values
\* its source had before it where Python's would, what is refused changes
\* nothing, and what an object tells of its size and of the order of its items
\* is true.  Without either limit the code breaks it.
ImplementsArrayViews == Promised!Spec
=============================================================================

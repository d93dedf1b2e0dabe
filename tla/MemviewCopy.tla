---------------------------- MODULE MemviewCopy ----------------------------
(* How the memoryview type compiled into _stage2_native.c copies one slice  *)
(* to another and fills a slice with one item: memoryview_copy_contents and *)
(* the helpers it calls.  Memory is a function from addresses to items; an  *)
(* operation that raises is the empty set of memories.                      *)
EXTENDS MemviewSlices

\* What a copy reads where nothing says what is there: off the memory, or in a
\* cell that the same copy has written.
CONSTANT Stray

ItemAt(s, i) == s.data + SumTo([k \in 1..Rank(s) |-> i[k] * s.strides[k]], Rank(s))

CellsOf(s) == { ItemAt(s, i) : i \in Tuples(s.shape) }

----------------------------------------------------------------------------
(* Broadcasting.                                                            *)

\* broadcast_leading: axes of extent one are put in front, with the stride of
\* the axis that was the first.
Lead(q, ndim, x) ==
    LET added == ndim - Len(q) IN [k \in 1..ndim |-> IF k <= added THEN x ELSE q[k - added]]
BroadcastLeading(s, ndim) ==
    [s EXCEPT !.shape = Lead(@, ndim, 1),
              !.strides = Lead(@, ndim, IF @ = <<>> THEN 0 ELSE Head(@)),
              !.suboffsets = Lead(@, ndim, -1)]

Stretched(src, dst) ==
    { k \in DOMAIN dst.shape : src.shape[k] # dst.shape[k] }

\* The extents agree or the source's is one, and its axes are all direct.
Matches(src, dst) == IsDirect(src) /\ \A k \in Stretched(src, dst) : src.shape[k] = 1
Stretch(src, dst) ==
    [src EXCEPT !.strides = [k \in DOMAIN @ |->
        IF k \in Stretched(src, dst) THEN 0 ELSE @[k]]]

----------------------------------------------------------------------------
(* Overlap: the intervals of addresses the two slices span.                 *)

Reach(s, k) == s.strides[k] * (s.shape[k] - 1)

\* get_array_memory_extents: an empty axis stops the walk over the axes and
\* leaves an empty interval.
MemoryExtents(s) ==
    LET empty == { k \in 1..Rank(s) : s.shape[k] = 0 }
        walked == IF empty = {} THEN Rank(s) ELSE Min(empty) - 1
        start == s.data + SumTo([k \in 1..walked |-> Min({0, Reach(s, k)})], walked)
        last == s.data + SumTo([k \in 1..walked |-> Max({0, Reach(s, k)})], walked)
    IN  [start |-> start, end |-> IF empty = {} THEN last + ItemSize ELSE start]

SlicesOverlap(a, b) ==
    LET first == MemoryExtents(a)
        second == MemoryExtents(b)
    IN  first.start < second.end /\ second.start < first.end

----------------------------------------------------------------------------
(* The copies.  "from" is the memory read: its items, whether it is the one *)
(* that is written, and what the arrays of the source hold beyond its axes. *)

ItemFound(from, a, written) ==
    IF a \in DOMAIN from.items /\ ~ (from.shared /\ a \in written) THEN from.items[a] ELSE Stray

\* copy_strided_to_strided: item by item over the destination's extents.
CopyStrided(from, src, mem, dst) ==
    [a \in DOMAIN mem |->
        IF a \in CellsOf(dst)
        THEN LET i == CHOOSE i \in Tuples(dst.shape) : ItemAt(dst, i) = a
             IN  ItemFound(from, ItemAt(src, i), CellsOf(dst))
        ELSE mem[a]]

\* memcpy of as many bytes as the source slice has.
SliceGetSize(s) == ItemSize * ProductTo(s.shape, Rank(s))
CopyBytes(from, src, mem, dst) ==
    LET written == { a \in DOMAIN mem : dst.data <= a /\ a < dst.data + SliceGetSize(src) } IN
    [a \in DOMAIN mem |->
        IF a \in written THEN ItemFound(from, src.data + a - dst.data, written) ELSE mem[a]]

\* copy_data_to_temp: a dense copy in the given order at addresses of its own;
\* the axes of extent one get stride 0 afterwards.
DenseSlice(src, order) ==
    [src EXCEPT !.data = 0, !.suboffsets = [k \in DOMAIN @ |-> -1],
                !.strides = ContigStrides(src.shape, order)]
TempSlice(src, order) ==
    [DenseSlice(src, order) EXCEPT
        !.strides = [k \in DOMAIN @ |-> IF src.shape[k] = 1 THEN 0 ELSE @[k]]]
TempItems(mem, src, order) ==
    LET from == [items |-> mem, shared |-> FALSE, rest |-> 0]
        tmp == TempSlice(src, order)
        none == [a \in { ItemSize * n : n \in 0..(ProductTo(src.shape, Rank(src)) - 1) } |-> Stray]
    IN  IF IsContig(src, order) THEN CopyBytes(from, src, none, tmp)
        ELSE CopyStrided(from, src, none, tmp)

DirectCopy(src, dst) ==
    IF IsContig(src, "C") THEN IsContig(dst, "C")
    ELSE IsContig(src, "F") /\ IsContig(dst, "F")

\* Mutant: the source is left as it is.
CopyOrderedDestinationOnly(from, src, mem, dst, order) ==
    IF order = "F" /\ BestOrder(dst) = "F"
    THEN { CopyStrided(from, src, mem, d) : d \in TransposeMemslice(dst, 0) }
    ELSE {CopyStrided(from, src, mem, dst)}

\* Two slices whose best order is F are copied transposed, which exchanges as
\* many axes of each as its owner has.
CopyOrdered(from, src, mem, dst, order) ==
    IF order = "F" /\ BestOrder(dst) = "F"
    THEN { CopyStrided(from, s, mem, d) :
             s \in TransposeMemslice(src, from.rest), d \in TransposeMemslice(dst, 0) }
    ELSE {CopyStrided(from, src, mem, dst)}

CopyFrom(from, src, mem, dst, order, broadcasting) ==
    IF ~broadcasting /\ DirectCopy(src, dst) THEN {CopyBytes(from, src, mem, dst)}
    ELSE CopyOrdered(from, src, mem, dst, order)

\* Overlapping slices go through the temporary copy; the order becomes the
\* destination's unless the source is dense in its own.  "rest" is what the
\* temporary slice, which nobody initialised, holds beyond its axes.
CopyMatched(mem, src, dst, order, broadcasting, rest) ==
    LET through == IF IsContig(src, order) THEN order ELSE BestOrder(dst) IN
    IF SlicesOverlap(src, dst)
    THEN CopyFrom([items |-> TempItems(mem, src, through), shared |-> FALSE, rest |-> rest],
                  TempSlice(src, through), mem, dst, through, broadcasting)
    ELSE CopyFrom([items |-> mem, shared |-> TRUE, rest |-> 0],
                  src, mem, dst, order, broadcasting)

\* Whether the source is copied first, which takes memory.
NeedsTemp(source, target) ==
    LET ndim == Max({Rank(source), Rank(target)})
        src == BroadcastLeading(source, ndim)
        dst == BroadcastLeading(target, ndim)
    IN  Matches(src, dst) /\ SlicesOverlap(Stretch(src, dst), dst)

\* memoryview_copy_contents.
CopyContents(mem, source, target, rest) ==
    LET ndim == Max({Rank(source), Rank(target)})
        src == BroadcastLeading(source, ndim)
        dst == BroadcastLeading(target, ndim)
    IN  IF Matches(src, dst)
        THEN CopyMatched(mem, Stretch(src, dst), dst, BestOrder(source),
                         Stretched(src, dst) # {}, rest)
        ELSE {}

\* memoryview_slice_assign_scalar.
SliceAssignScalar(mem, dst, item) ==
    [a \in DOMAIN mem |-> IF a \in CellsOf(dst) THEN item ELSE mem[a]]
=============================================================================

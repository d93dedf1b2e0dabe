--------------------------- MODULE MemviewSlices ---------------------------
(* How a strided view of a buffer is indexed, sliced and turned round by    *)
(* the memoryview type compiled into src/pystamps/kernels/_stage2_native.c: *)
(* unellipsify, slice_memviewslice, memview_slice, pybuffer_index,          *)
(* get_item_pointer, transpose_memslice and the contiguity tests.           *)
(*                                                                          *)
(* A slice is a record: the address of its first item, one extent, stride   *)
(* and suboffset per axis (a suboffset >= 0 follows the pointer it finds),  *)
(* and "owner", the number of axes of the memoryview object the slice       *)
(* refers to.  A value that may be missing (NULL, an exception, the absent  *)
(* bound of a[:3]) is the empty set; one that is there is a singleton.      *)
EXTENDS IndexTuples, FiniteSetsExt

CONSTANT ItemSize

ASSUME ItemSizeAssumption == ItemSize \in Nat \ {0}

\* ptr[a] is the address stored at address a: what *(char **)a reads.
Follow(ptr, a, suboffset) == IF suboffset >= 0 THEN ptr[a] + suboffset ELSE a

Given(bound, default) == IF bound = {} THEN default ELSE CHOOSE b \in bound : TRUE

Rank(s) == Len(s.shape)

\* An index is a sequence of items.
At(i) == [kind |-> "index", at |-> i]
Range3(start, stop, step) ==
    [kind |-> "slice", start |-> start, stop |-> stop, step |-> step]
All == Range3({}, {}, {})
Dots == [kind |-> "ellipsis"]

----------------------------------------------------------------------------
(* unellipsify: one item per axis, in a list that starts as all ":".  The   *)
(* first "..." skips the axes the tuple does not name, a later one is ":".  *)
(* The position may run below zero when the tuple is too long: the list     *)
(* then wraps round, and only a position off both ends raises.              *)

Slot(idx, ndim) == 1 + (IF idx < 0 THEN idx + ndim ELSE idx)

PlaceItem(acc, item, ndim, given) ==
    IF item.kind = "ellipsis"
    THEN [acc EXCEPT !.idx = @ + 1 + (IF acc.seen THEN 0 ELSE ndim - given),
                     !.seen = TRUE, !.slices = TRUE]
    ELSE [acc EXCEPT !.items[Slot(acc.idx, ndim)] = item, !.idx = @ + 1,
                     !.slices = @ \/ item.kind = "slice"]

\* {} when an item falls off the list; otherwise the items and whether the
\* result is a view (have_slices or nslices) or a single element.
Unellipsify(index, ndim) ==
    LET given == Len(index)
        acc[j \in 0..given] ==
            IF j = 0 THEN [idx |-> 0, seen |-> FALSE, slices |-> FALSE,
                           items |-> [k \in 1..ndim |-> All]]
            ELSE PlaceItem(acc[j - 1], index[j], ndim, given)
        fits == \A j \in 1..given :
                    index[j].kind = "ellipsis" \/ acc[j - 1].idx \in -ndim..(ndim - 1)
        end == acc[given]
    IN  IF fits THEN {[items |-> end.items, slices |-> end.slices \/ end.idx # ndim]}
        ELSE {}

----------------------------------------------------------------------------
(* slice_memviewslice: one axis of a slice.                                 *)

Abs(x) == IF x < 0 THEN -x ELSE x

\* C division: towards zero.
TruncDiv(a, b) ==
    LET q == Abs(a) \div Abs(b) IN IF (a < 0) = (b < 0) THEN q ELSE -q

StepOf(item) == Given(item.step, 1)

\* Mutant: a slice without a start and with a negative step starts past the last
\* item instead of at it.
StartPastEnd(n, item) ==
    LET s == Given(item.start, 0) IN
    CASE item.start = {} -> IF StepOf(item) < 0 THEN n ELSE 0
      [] item.start # {} /\ s < 0 -> Max({s + n, 0})
      [] item.start # {} /\ s >= n -> IF StepOf(item) < 0 THEN n - 1 ELSE n
      [] OTHER -> s

StartOf(n, item) ==
    LET s == Given(item.start, 0) IN
    CASE item.start = {} -> IF StepOf(item) < 0 THEN n - 1 ELSE 0
      [] item.start # {} /\ s < 0 -> Max({s + n, 0})
      [] item.start # {} /\ s >= n -> IF StepOf(item) < 0 THEN n - 1 ELSE n
      [] OTHER -> s

StopOf(n, item) ==
    LET s == Given(item.stop, 0) IN
    CASE item.stop = {} -> IF StepOf(item) < 0 THEN -1 ELSE n
      [] item.stop # {} /\ s < 0 -> Max({s + n, 0})
      [] OTHER -> Min({s, n})

\* The quotient is truncated, and one is added if the division leaves a
\* remainder: also below zero, where truncation has rounded up already.
Extent(start, stop, step) ==
    LET q == TruncDiv(stop - start, step) IN
    Max({0, IF stop - start - step * q # 0 THEN q + 1 ELSE q})

\* Where an axis of extent n is entered, which is refused out of bounds, or for
\* a step of 0.
EntryOf(n, item) ==
    IF item.kind = "slice" THEN StartOf(n, item)
    ELSE IF item.at < 0 THEN item.at + n ELSE item.at
CanEnter(n, item) ==
    IF item.kind = "slice" THEN StepOf(item) # 0
    ELSE EntryOf(n, item) \in 0..(n - 1)

\* The axis a slice item leaves in the result.
KeepAxis(dst, axis, item) ==
    IF item.kind # "slice" THEN dst
    ELSE [dst EXCEPT
            !.shape = Append(@, Extent(StartOf(axis.extent, item),
                                       StopOf(axis.extent, item), StepOf(item))),
            !.strides = Append(@, axis.stride * StepOf(item)),
            !.suboffsets = Append(@, axis.suboffset)]

\* The entry point moves the data pointer, or, behind a pointer axis that is
\* kept, the suboffset of that axis (dst.behind, 0 when there is none).
MoveEntry(dst, offset) ==
    IF dst.behind = 0 THEN [dst EXCEPT !.data = @ + offset]
    ELSE [dst EXCEPT !.suboffsets[dst.behind] = @ + offset]

\* A pointer axis that is indexed is followed at once; one that is kept makes
\* later entries move its suboffset.
CrossPointer(ptr, kept, axis, item) ==
    CASE axis.suboffset < 0 -> kept
      [] axis.suboffset >= 0 /\ item.kind = "slice" -> [kept EXCEPT !.behind = Rank(kept)]
      [] OTHER -> [kept EXCEPT !.data = Follow(ptr, @, axis.suboffset)]

SliceAxis(ptr, dst, axis, item) ==
    CrossPointer(ptr, MoveEntry(KeepAxis(dst, axis, item),
                                EntryOf(axis.extent, item) * axis.stride), axis, item)

\* Following a pointer at once needs every axis before it to be indexed too.
CanSlice(dst, axis, item) ==
    /\ CanEnter(axis.extent, item)
    /\ axis.suboffset >= 0 /\ item.kind # "slice" => Rank(dst) = 0

----------------------------------------------------------------------------
(* memview_slice and get_item_pointer.                                      *)

Axis(s, k) == [extent |-> s.shape[k], stride |-> s.strides[k],
               suboffset |-> s.suboffsets[k]]

\* The result refers to the memoryview object its source refers to.  A slice
\* without axes cannot be cut.
MemviewSlice(ptr, src, items) ==
    LET cut[k \in 0..Rank(src)] ==
            IF k = 0 THEN [data |-> src.data, shape |-> <<>>, strides |-> <<>>,
                           suboffsets |-> <<>>, behind |-> 0]
            ELSE SliceAxis(ptr, cut[k - 1], Axis(src, k), items[k])
        made == cut[Rank(src)]
    IN  IF Rank(src) > 0 /\ \A k \in 1..Rank(src) : CanSlice(cut[k - 1], Axis(src, k), items[k])
        THEN {[data |-> made.data, shape |-> made.shape, strides |-> made.strides,
               suboffsets |-> made.suboffsets, owner |-> src.owner]}
        ELSE {}

\* The address of the item an index tuple names: pybuffer_index axis by axis.
Entered(ptr, s, i) ==
    LET at[k \in 0..Rank(s)] ==
            IF k = 0 THEN s.data
            ELSE Follow(ptr, at[k - 1] + i[k] * s.strides[k], s.suboffsets[k])
    IN  at[Rank(s)]

\* {} when an index is out of bounds.
GetItemPointer(ptr, view, items) ==
    IF \A k \in 1..Rank(view) : CanEnter(view.shape[k], items[k])
    THEN {Entered(ptr, view, [k \in 1..Rank(view) |-> EntryOf(view.shape[k], items[k])])}
    ELSE {}

----------------------------------------------------------------------------
(* The other shapes a slice is read in.                                     *)

\* slice_copy: the slice of a whole memoryview object refers to that object.
SliceCopy(view) == [view EXCEPT !.owner = Rank(view)]

\* transpose_memslice swaps the ends of as many axes as the *owner* has.  The
\* arrays of a slice are longer than its rank; "rest" is what they hold there.
SwapEnds(q, m, rest) ==
    [k \in DOMAIN q |->
        IF k > m THEN q[k] ELSE IF m + 1 - k \in DOMAIN q THEN q[m + 1 - k] ELSE rest]

\* Only the axes that change places are looked at.
Transposable(s, rest) ==
    LET entry(k) == IF k <= Rank(s) THEN s.suboffsets[k] ELSE rest
    IN  \A k \in 1..(s.owner \div 2) : entry(k) < 0 /\ entry(s.owner + 1 - k) < 0

TransposeMemslice(s, rest) ==
    IF Transposable(s, rest)
    THEN {[s EXCEPT !.shape = SwapEnds(@, s.owner, rest),
                    !.strides = SwapEnds(@, s.owner, rest)]}
    ELSE {}

IsDirect(s) == \A k \in 1..Rank(s) : s.suboffsets[k] < 0

\* fill_contig_strides_array: from the first axis on, or from the last one back.
ContigStrides(shape, order) ==
    [k \in DOMAIN shape |->
        ItemSize * (IF order = "F" THEN ProductTo(shape, k - 1)
                    ELSE ProductTo(Reverse(shape), Len(shape) - k))]

IsContig(s, order) == IsDirect(s) /\ s.strides = ContigStrides(s.shape, order)

\* get_best_order: by the innermost axis of each order that is longer than one.
StrideAt(s, k) == IF k = 0 THEN 0 ELSE Abs(s.strides[k])

BestOrder(s) ==
    LET long == { k \in 1..Rank(s) : s.shape[k] > 1 }
        c == StrideAt(s, Max({0} \union long))
        f == StrideAt(s, IF long = {} THEN 0 ELSE Min(long))
    IN  IF c <= f THEN "C" ELSE "F"
=============================================================================

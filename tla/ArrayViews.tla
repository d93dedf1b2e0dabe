----------------------------- MODULE ArrayViews -----------------------------
(* What views of an array promise, without addresses and strides: a view is *)
(* a shape and a cell for every index tuple; indexing selects positions as  *)
(* Python does, and an assignment reads all its values before it writes     *)
(* any.  "direct" says of each axis that it follows no pointer.             *)
EXTENDS IndexTuples, FiniteSetsExt

CONSTANTS Indices, Values, Fills, ItemSize

VARIABLES
    cells,      \* what each cell holds
    views,      \* the views made so far
    told,       \* what each of them tells of itself
    outcome     \* how the last operation ended, and the item it read

vars == <<cells, views, told, outcome>>

Ended(kind) == outcome' = [kind |-> kind, item |-> {}]
\* Every view tells of itself.
Made == DOMAIN told' # DOMAIN told

----------------------------------------------------------------------------
(* Which positions of an axis of extent n an item of an index selects.      *)

\* A bound off the axis is moved to the end it lies behind: a walk backwards
\* starts at the last position at most, and ends before the first at least.
Bound(b, n, step) ==
    LET lowest == IF step < 0 THEN -1 ELSE 0
        highest == IF step < 0 THEN n - 1 ELSE n
    IN  IF b < 0 THEN Max({b + n, lowest}) ELSE Min({b, highest})

Given(bound) == CHOOSE b \in bound : TRUE

SliceStep(item) == IF item.step = {} THEN 1 ELSE Given(item.step)
SliceFirst(n, item) ==
    IF item.start # {} THEN Bound(Given(item.start), n, SliceStep(item))
    ELSE IF SliceStep(item) < 0 THEN n - 1 ELSE 0
SliceEnd(n, item) ==
    IF item.stop # {} THEN Bound(Given(item.stop), n, SliceStep(item))
    ELSE IF SliceStep(item) < 0 THEN -1 ELSE n

\* The position a step lands on after k steps, and how many of them come before
\* the end.
PositionOf(n, item, k) ==
    IF item.kind = "slice" THEN SliceFirst(n, item) + k * SliceStep(item)
    ELSE IF item.at < 0 THEN item.at + n ELSE item.at
BeforeEnd(n, item, p) ==
    IF SliceStep(item) > 0 THEN p < SliceEnd(n, item) ELSE p > SliceEnd(n, item)
SliceLength(n, item) ==
    CHOOSE m \in 0..n : \A k \in 0..(n - 1) : k < m <=> BeforeEnd(n, item, PositionOf(n, item, k))

Everything == [kind |-> "slice", start |-> {}, stop |-> {}, step |-> {}]

IsDots(item) == item.kind \in {"ellipsis", "bare"}
DotsOf(index) == { j \in DOMAIN index : IsDots(index[j]) }

\* An index has one meaning when it has at most one "..." and names no more axes
\* than there are.
IsPlain(index, ndim) ==
    /\ \A j, l \in DotsOf(index) : j = l
    /\ Len(index) <= (IF DotsOf(index) = {} THEN ndim ELSE ndim + 1)

\* One item per axis: "..." stands for the axes no item names, and so does the
\* end of a short index.
Expanded(index, ndim) ==
    LET before == IF DotsOf(index) = {} THEN Len(index) ELSE (CHOOSE j \in DotsOf(index) : TRUE) - 1
        after == IF DotsOf(index) = {} THEN 0 ELSE Len(index) - before - 1
    IN  [k \in 1..ndim |->
            IF k <= before THEN index[k]
            ELSE IF k > ndim - after THEN index[k - ndim + Len(index)] ELSE Everything]

\* An index without one meaning may be refused, or be read as any choice of its
\* items.
Readings(index, ndim) ==
    IF IsPlain(index, ndim) THEN {Expanded(index, ndim)}
    ELSE [1..ndim -> {Everything} \union { index[j] : j \in DOMAIN index \ DotsOf(index) }]

Legal(shape, items) ==
    \A k \in DOMAIN shape :
        IF items[k].kind = "slice" THEN items[k].step # {0}
        ELSE PositionOf(shape[k], items[k], 0) \in 0..(shape[k] - 1)

IsDirect(view) == \A k \in DOMAIN view.direct : view.direct[k]

IsItem(shape, index) ==
    /\ Len(index) = Len(shape)
    /\ \A k \in 1..Len(index) : index[k].kind = "index"

\* How many of the first k axes stay axes, and which axis becomes the j-th.
Kept(items, k) ==
    SumTo([l \in DOMAIN items |-> IF items[l].kind = "slice" THEN 1 ELSE 0], k)
AxisOf(items, j) ==
    CHOOSE k \in DOMAIN items : items[k].kind = "slice" /\ Kept(items, k) = j

\* The view that one item for each axis selects.
Select(view, items) ==
    LET ndim == Len(view.shape)
        axes == [j \in 1..Kept(items, ndim) |-> AxisOf(items, j)]
        shape == [j \in DOMAIN axes |-> SliceLength(view.shape[axes[j]], items[axes[j]])]
        Source(i) == [k \in 1..ndim |->
            PositionOf(view.shape[k], items[k],
                       IF items[k].kind = "slice" THEN i[Kept(items, k)] ELSE 0)]
    IN  [view EXCEPT !.shape = shape,
                     !.direct = [j \in DOMAIN axes |-> @[axes[j]]],
                     !.at = [i \in Tuples(shape) |-> @[Source(i)]]]

ImageOf(view) == { view.at[i] : i \in DOMAIN view.at }

----------------------------------------------------------------------------
\* A view without axes has nothing to slice, but v[()] is its item.
GetItem(view, index) ==
    LET item == IsItem(view.shape, index) IN
    \/ \E items \in Readings(index, Len(view.shape)) :
          \/ /\ Ended("done") /\ Made /\ UNCHANGED cells
             /\ Legal(view.shape, items) /\ ~item /\ view.shape # <<>>
             /\ views' = Append(views, Select(view, items))
          \/ /\ outcome'.kind = "item" /\ UNCHANGED <<cells, views>>
             /\ Legal(view.shape, items) /\ item
             /\ outcome' = [kind |-> "item",
                            item |-> {cells[Select(view, items).at[<<>>]]}]
          \/ /\ Ended("refused") /\ UNCHANGED <<cells, views>>
             /\ ~Legal(view.shape, items) \/ (view.shape = <<>> /\ ~item)
    \/ Ended("refused") /\ ~IsPlain(index, Len(view.shape)) /\ UNCHANGED <<cells, views>>

\* The transpose of a view that follows pointers may be refused, and its items
\* are not promised.
Turn(view) ==
    \/ /\ Ended("done") /\ Made /\ UNCHANGED cells
       /\ views' = Append(views, Last(views'))
       /\ LET turned == Last(views') IN
          /\ turned.shape = Reverse(view.shape)
          /\ turned.writable = view.writable /\ DOMAIN turned.at = Tuples(turned.shape)
          /\ IsDirect(view) => /\ IsDirect(turned)
                               /\ \A i \in DOMAIN turned.at : turned.at[i] = view.at[Reverse(i)]
    \/ Ended("refused") /\ ~IsDirect(view) /\ UNCHANGED <<cells, views>>

\* A copy has cells of its own, one for each index, with the same contents.
IsCopy(made, view) ==
    /\ made.shape = view.shape /\ IsDirect(made) /\ made.writable
    /\ DOMAIN made.at = Tuples(view.shape)
    /\ \A i, j \in DOMAIN made.at : made.at[i] = made.at[j] => i = j
    /\ DOMAIN cells' = DOMAIN cells \union { made.at[i] : i \in DOMAIN made.at }
    /\ \A i \in DOMAIN made.at :
          made.at[i] \notin DOMAIN cells /\ cells'[made.at[i]] = cells[view.at[i]]
    /\ \A c \in DOMAIN cells : cells'[c] = cells[c]

Copy(view) ==
    LET copyable == IsDirect(view) /\ view.shape # <<>> /\ Tuples(view.shape) # {}
    IN
    \/ /\ Ended("done") /\ Made
       /\ views' = Append(views, Last(views'))
       /\ copyable /\ IsCopy(Last(views'), view)
    \/ Ended("refused") /\ ~copyable /\ UNCHANGED <<cells, views>>
    \/ Ended("memory") /\ UNCHANGED <<cells, views>>

\* The axes are matched from the last one; a source axis of extent one, or
\* one the source lacks, is repeated.
Fits(src, dst) ==
    LET ndim == Max({Len(src.shape), Len(dst.shape)})
        ExtentOf(view, k) ==
            LET axis == k - (ndim - Len(view.shape)) IN IF axis < 1 THEN 1 ELSE view.shape[axis]
    IN  \A k \in 1..ndim : ExtentOf(src, k) \in {1, ExtentOf(dst, k)}

CellFor(src, dst, i) ==
    src.at[[j \in 1..Len(src.shape) |->
        LET k == j + Len(dst.shape) - Len(src.shape) IN
        IF k < 1 \/ src.shape[j] = 1 THEN 0 ELSE i[k]]]

OthersKept(dst) ==
    /\ DOMAIN cells' = DOMAIN cells
    /\ \A c \in DOMAIN cells \ ImageOf(dst) : cells'[c] = cells[c]

\* A cell the selection names twice gets one of the values meant for it.
Assigned(src, dst) ==
    /\ OthersKept(dst)
    /\ \A c \in ImageOf(dst) : \E i \in DOMAIN dst.at :
          dst.at[i] = c /\ cells'[c] = cells[CellFor(src, dst, i)]

\* A selection of no axis takes a number, through an index that names every
\* axis, and never a view.
AssignFrom(src, view, dst, legal) ==
    LET allowed == view.writable /\ legal /\ dst.shape # <<>> /\ IsDirect(src) /\ Fits(src, dst) IN
    \/ Ended("done") /\ ~Made /\ allowed /\ Assigned(src, dst) /\ UNCHANGED views
    \/ Ended("refused") /\ ~allowed /\ UNCHANGED <<cells, views>>

Assign(view, index) ==
    \/ \E items \in Readings(index, Len(view.shape)) :
          LET dst == Select(view, items)
              legal == Legal(view.shape, items)
          IN  \E src \in Range(views) : AssignFrom(src, view, dst, legal)
    \/ Ended("refused") /\ ~IsPlain(index, Len(view.shape)) /\ UNCHANGED <<cells, views>>
    \/ Ended("memory") /\ UNCHANGED <<cells, views>>

\* Filling a slice needs every axis of the view itself to be direct.
Fill(view, index, x) ==
    \/ \E items \in Readings(index, Len(view.shape)) :
          LET allowed == /\ view.writable /\ Legal(view.shape, items)
                         /\ \/ IsItem(view.shape, index)
                            \/ IsDirect(view) /\ Select(view, items).shape # <<>>
          IN
          \/ /\ Ended("done") /\ ~Made /\ allowed
             /\ OthersKept(Select(view, items))
             /\ \A c \in ImageOf(Select(view, items)) : cells'[c] = x
             /\ UNCHANGED views
          \/ Ended("refused") /\ ~allowed /\ UNCHANGED <<cells, views>>
    \/ Ended("refused") /\ ~IsPlain(index, Len(view.shape)) /\ UNCHANGED <<cells, views>>

\* v[...] is v.
Itself == Ended("done") /\ ~Made /\ UNCHANGED <<cells, views>>

----------------------------------------------------------------------------
\* A view that calls itself contiguous has its items one behind the other.
Truthful(view, report) ==
    LET first == view.at[[k \in DOMAIN view.shape |-> 0]] IN
    /\ report.size = Cardinality(DOMAIN view.at) /\ report.bytes = ItemSize * report.size
    /\ report.length = (IF view.shape = <<>> THEN 0 ELSE Head(view.shape))
    /\ \A order \in report.contig : \A i \in DOMAIN view.at :
          view.at[i] - first = ItemSize * Place(view.shape, i, order)

Told == Len(told) = Len(views) /\ Truthful(Last(views), Last(told))

Init ==
    /\ Len(views) = 1 /\ ImageOf(views[1]) \subseteq DOMAIN cells
    /\ \A c \in DOMAIN cells : cells[c] \in Values
    /\ outcome = [kind |-> "none", item |-> {}]
    /\ Told

Next ==
    /\ LET made == Range(views) IN
       \E view \in made :
          \/ Itself \/ Turn(view) \/ Copy(view)
          \/ \E index \in Indices :
                \/ GetItem(view, index)
                \/ \E x \in Fills : Fill(view, index, x)
                \/ Assign(view, index)
    /\ Made => Told'

Spec == Init /\ [][Next]_vars
=============================================================================

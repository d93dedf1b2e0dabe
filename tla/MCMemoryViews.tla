--------------------------- MODULE MCMemoryViews ---------------------------
(* Small buffers for MemoryViews: a 2 by 2 array in Fortran order, the      *)
(* middle columns of a wider one in C order, a row of three, rows reached   *)
(* through pointers and a 3-D array in Fortran order.                       *)
EXTENDS MemoryViews

\* Every item differs, so that an item out of its place shows.
MCValues == 0..9
MCFills == {9}
MCStray == 8
\* Callers that keep to "ranks" never see it.
MCLeftovers == {-1}

Buffer(first, n) == [x \in first..(first + n - 1) |-> x]
NoPtr == [x \in {} |-> 0]
Direct(n) == [k \in 1..n |-> -1]

View(data, shape, strides) ==
    [data |-> data, shape |-> shape, strides |-> strides,
     suboffsets |-> Direct(Len(shape)), owner |-> Len(shape)]
Export(slice, writable, mem0, ptr0) ==
    [slice |-> slice, writable |-> writable, mem |-> mem0, ptr |-> ptr0]

FOrder == Export(View(0, <<2, 2>>, <<1, 2>>), TRUE, Buffer(0, 4), NoPtr)
Middle == Export(View(1, <<2, 2>>, <<4, 1>>), TRUE, Buffer(0, 8), NoPtr)
Row == Export(View(0, <<3>>, <<1>>), TRUE, Buffer(0, 3), NoPtr)
Cube == Export(View(0, <<2, 1, 2>>, <<1, 2, 2>>), TRUE, Buffer(0, 4), NoPtr)
\* Two rows of three items, each reached through a pointer and starting at its
\* second item.
Rows == Export([data |-> 20, shape |-> <<2, 2>>, strides |-> <<1, 1>>,
                suboffsets |-> <<1, -1>>, owner |-> 2],
               FALSE, Buffer(0, 6), 20 :> 3 @@ 21 :> 0)

MCExports == {FOrder, Middle, Row, Cube, Rows}

UpTo(stop) == Range3({}, {stop}, {})
Backwards == Range3({}, {}, {-1})

\* v[...], v[..., -1], v[::-1], v[:-2, 0:1], v[0], v[1, 0], v[2:0:-2], v[3:2:2];
\* the last is outside "slices" for an extent of three.
MCIndices ==
    { Bare, <<Dots, At(-1)>>, <<Backwards>>, <<UpTo(-2), Range3({0}, {1}, {})>>,
      <<At(0)>>, <<At(1), At(0)>>, <<Range3({2}, {0}, {-2})>>, <<Range3({3}, {2}, {2})>> }
============================================================================

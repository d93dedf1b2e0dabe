---------------------------- MODULE IndexTuples ----------------------------
(* Arithmetic of shapes and index tuples, as the loops over axes in the     *)
(* memoryview type of src/pystamps/kernels/_stage2_native.c do it: sums and *)
(* products over the first axes, and the tuples a nest of loops visits.     *)
EXTENDS Integers, Sequences, SequencesExt

SumTo(q, n) ==
    LET sum[k \in 0..n] == IF k = 0 THEN 0 ELSE sum[k - 1] + q[k] IN sum[n]

ProductTo(q, n) ==
    LET product[k \in 0..n] == IF k = 0 THEN 1 ELSE product[k - 1] * q[k] IN product[n]

\* The index tuples of a shape: axes count from 1, positions from 0.
Tuples(shape) ==
    { i \in [DOMAIN shape -> UNION { 0..(shape[k] - 1) : k \in DOMAIN shape }] :
        \A k \in DOMAIN shape : i[k] < shape[k] }

\* How many items come before one when the first axis varies fastest ("F"), or
\* the last one ("C").
PlaceF(shape, i) ==
    SumTo([k \in DOMAIN shape |-> i[k] * ProductTo(shape, k - 1)], Len(shape))
Place(shape, i, order) ==
    IF order = "F" THEN PlaceF(shape, i) ELSE PlaceF(Reverse(shape), Reverse(i))
=============================================================================

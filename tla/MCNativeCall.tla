---------------------------- MODULE MCNativeCall ----------------------------
(* Two threads and small arrays for NativeCall.                             *)
EXTENDS NativeCall

Format(order, code) == [order |-> order, code |-> code]
Arr(order, code, shape, data) ==
    [format |-> Format(order, code), shape |-> shape, writable |-> TRUE, data |-> data]
Arg(name) == <<"arg", name>>

\* Both rows of "ph" go to cell 0 by "grid"; one is outside by "wide".
MCArrays ==
       Arg("ph") :> Arr("@", "Zf", <<2, 2>>, <<>>)
    @@ Arg("frozen") :> [Arr("@", "Zf", <<2, 2>>, <<>>) EXCEPT !.writable = FALSE]
    @@ Arg("bare") :> Arr("@", "Zf", <<2, 0>>, <<>>)
    @@ Arg("grid") :> Arr("@", "l", <<2>>, <<0, 0>>)
    @@ Arg("wide") :> Arr("=", "q", <<2>>, <<3, 1>>)
    @@ Arg("packed") :> Arr("=", "l", <<2>>, <<0, 1>>)
    @@ Arg("cpx") :> Arr("@", "Zd", <<2, 2>>, <<>>)
    @@ Arg("bperp") :> Arr("@", "d", <<2, 2>>, <<>>)
    @@ Arg("bperp_vec") :> Arr("<", "d", <<2>>, <<>>)
    @@ Arg("samples") :> Arr("@", "d", <<3>>, <<{1}, {5}, {9}>>)
    @@ Arg("with_nan") :> Arr("@", "d", <<5>>, <<{10}, {49}, {70}, {90}, {}>>)
    @@ Arg("halves") :> Arr("@", "d", <<3>>, <<0, 50, 100>>)
    @@ Arg("centers") :> Arr("@", "d", <<4>>, <<0, 2, 6, 8>>)
    @@ Arg("one") :> Arr("@", "d", <<1>>, <<4>>)
    @@ Arg("none") :> Arr("@", "d", <<0>>, <<>>)

A(name) == [kind |-> "array", array |-> Arg(name), int |-> 0]
I(n) == [kind |-> "int", int |-> n, array |-> <<>>]
Other == [kind |-> "other", int |-> 0, array |-> <<>>]
K(name, value) == [name |-> name, value |-> value]
C(fn, pos, kw) == [fn |-> fn, pos |-> pos, kw |-> kw]

Grid(ph, grid, n_i, n_j, kw) ==
    C("accumulate_weighted_grid", <<A(ph), A(grid), I(n_i), I(n_j)>>, kw)
Hist(values, centers) == C("histogram_with_centers", <<A(values), A(centers)>>, <<>>)

Single == Grid("ph", "grid", 1, 2, <<>>)
Coherence == C("ps_topofit_coh_row_invariant", <<A("cpx"), A("bperp_vec"), I(1), I(2)>>, <<>>)

Plan(one, two) == [c \in Callers |-> IF c = "a" THEN one ELSE two]
MCPlans ==
    { \* Two workers beside another grid; a row outside the grid.
      Plan(Grid("ph", "grid", 1, 2, <<K("threads", I(2))>>), Single),
      Plan(Grid("ph", "wide", 1, 2, <<>>), Hist("samples", "centers")),
      \* Arrays that do not suit: read-only, and with items of another size.
      Plan(Grid("frozen", "grid", 1, 2, <<>>), Hist("samples", "one")),
      Plan(Grid("ph", "packed", 1, 2, <<>>), Hist("samples", "none")),
      \* A product that wraps round, and one too large for the columns.
      Plan(Grid("ph", "grid", 3, 3, <<>>), Coherence),
      \* No columns, and as many cells again.
      Plan(Grid("bare", "grid", 2, 2, <<>>), Grid("bare", "grid", 3, 3, <<>>)),
      \* The functions that hand over to Python.
      Plan(C("ps_topofit_batch_generic", <<A("cpx"), A("bperp")>>,
             <<K("threads", I(2)), K("n_trial_wraps", I(1))>>),
           C("ps_topofit_batch_row_invariant", <<A("cpx"), A("bperp_vec"), I(1)>>, <<>>)),
      \* A parameter filled twice, an unknown keyword, too many values, too
      \* few, an int out of range and no int.
      Plan(Grid("ph", "grid", 1, 2, <<K("n_i", I(1))>>),
           Grid("ph", "grid", 1, 2, <<K("order", I(1))>>)),
      Plan(C("histogram_with_centers", <<A("samples"), A("one"), I(1)>>, <<>>),
           C("histogram_with_centers", <<A("samples")>>, <<>>)),
      Plan(Grid("ph", "grid", 1, 4, <<>>), Grid("ph", "grid", 1, 2, <<K("threads", Other)>>)) }

\* The samples and centres, in hundredths, of the histogram in
\* tests/test_kernels_accelerated.py whose last sample is not a number.
MCNaNPlans == {Plan(Hist("with_nan", "halves"), Single)}
=============================================================================

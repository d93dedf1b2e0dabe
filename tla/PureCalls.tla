----------------------------- MODULE PureCalls -----------------------------
(* What the functions of the native Stage 2 extension promise their Python  *)
(* callers: a call ends with the value the arguments determine, whatever    *)
(* other threads call meanwhile; it is refused exactly when its arguments   *)
(* are not what the function takes; and it fails otherwise only if          *)
(* something around it failed.                                              *)
EXTENDS Integers, Sequences, FiniteSets

CONSTANTS
    Callers, Calls,
    Arrays,     \* the arrays calls are made with
    Signature,  \* function -> its parameters, in order
    IntLimit    \* an int is in -IntLimit .. IntLimit - 1

VARIABLES
    called,     \* caller -> its call, once made
    ended,      \* caller -> how it ended, once it has
    faults      \* how often something around the calls has failed

vars == <<called, ended, faults>>

----------------------------------------------------------------------------
(* Arguments, as the interpreter matches them to parameters.                *)

Sources(call, k) ==
    { call.pos[j] : j \in { j \in {k} : j <= Len(call.pos) } }
        \union { call.kw[j].value : j \in { j \in 1..Len(call.kw) :
                                              call.kw[j].name = Signature[call.fn][k].name } }

Givers(call, k) ==
    Cardinality({ j \in {k} : j <= Len(call.pos) })
      + Cardinality({ j \in 1..Len(call.kw) : call.kw[j].name = Signature[call.fn][k].name })

Bindable(call) ==
    LET params == Signature[call.fn] IN
    /\ Len(call.pos) <= Len(params)
    /\ \A j \in 1..Len(call.kw) : \E k \in 1..Len(params) : call.kw[j].name = params[k].name
    /\ \A k \in 1..Len(params) :
          Givers(call, k) \in (IF params[k].needed THEN {1} ELSE {0, 1})

\* The formats that hold the items of a dtype.
FormatsOf(dtype) ==
    CASE dtype = "complex64" -> {"@", "=", "<"} \X {"Zf"}
      [] dtype = "complex128" -> {"@", "=", "<"} \X {"Zd"}
      [] dtype = "float64" -> {"@", "=", "<"} \X {"d"}
      [] dtype = "int64" -> {<<"@", "l">>} \union ({"@", "=", "<"} \X {"q"})

Suits(value, param) ==
    CASE param.takes = "int" ->
            value.kind = "int" /\ -IntLimit <= value.int /\ value.int < IntLimit
      [] param.takes = "double" -> value.kind = "int"
      [] param.takes = "array" ->
            /\ value.kind = "array"
            /\ LET array == Arrays[value.array] IN
               /\ <<array.format.order, array.format.code>> \in FormatsOf(param.dtype)
               /\ Len(array.shape) = param.ndim
               /\ param.viewed => array.writable

Well(call) ==
    /\ Bindable(call)
    /\ \A k \in 1..Len(Signature[call.fn]) :
          \A value \in Sources(call, k) : Suits(value, Signature[call.fn][k])

ValueOf(call, name) ==
    LET k == CHOOSE k \in 1..Len(Signature[call.fn]) : Signature[call.fn][k].name = name
    IN  CHOOSE value \in Sources(call, k) : TRUE
ArrayOf(call, name) == Arrays[ValueOf(call, name).array]

----------------------------------------------------------------------------
(* Results.                                                                 *)

\* The grid has a sum for every cell and every interferogram, over the rows
\* whose index is the cell, in the order of the rows.
CellCount(call) == ValueOf(call, "n_i").int * ValueOf(call, "n_j").int
RowsOf(call, cell) ==
    LET index == ArrayOf(call, "grid_lin").data IN
    { r \in 1..Len(index) : index[r] = cell }
InOrder(rows) ==
    [j \in 1..Cardinality(rows) |->
        CHOOSE r \in rows : Cardinality({ q \in rows : q < r }) = j - 1]
GridSums(call) ==
    LET cols == ArrayOf(call, "ph_weight").shape[2] IN
    [at \in (0..(CellCount(call) - 1)) \X (1..cols) |-> InOrder(RowsOf(call, at[1]))]

\* The grid is not made of more cells than an int counts.  One without columns
\* may be made of more, or be refused.
GridFits(call) == CellCount(call) < IntLimit
GridIsBare(call) == ArrayOf(call, "ph_weight").shape[2] = 0

\* A sample belongs to the first bin whose upper edge, midway to the next
\* centre, is not below it.
BinOf(centers, sample) ==
    1 + Cardinality({ k \in 1..(Len(centers) - 1) : centers[k] + centers[k + 1] < 2 * sample })

\* A sample that is not a number, {}, is in no bin.
Counts(call) ==
    LET values == ArrayOf(call, "values").data
        centers == ArrayOf(call, "centers").data
        In(b) == { j \in 1..Len(values) : \E sample \in values[j] : BinOf(centers, sample) = b }
    IN  [b \in 1..Len(centers) |-> Cardinality(In(b))]

\* The other functions hand over to the Python implementation; the baselines
\* that do not vary by row are repeated for every row.
Delegated(call, implementation, bperp, repeats, item) ==
    [implementation |-> implementation, item |-> item,
     phase |-> ValueOf(call, "cpxphase").array,
     baselines |-> <<ValueOf(call, bperp).array, repeats>>,
     wraps |-> ValueOf(call, "n_trial_wraps").int]
PhaseRows(call) == {ArrayOf(call, "cpxphase").shape[1]}

Results(call) ==
    CASE call.fn = "accumulate_weighted_grid" -> {[sums |-> GridSums(call)]}
      [] call.fn = "histogram_with_centers" -> {[counts |-> Counts(call)]}
      [] call.fn = "ps_topofit_batch_generic" ->
            {Delegated(call, "_ps_topofit_batch_generic", "bperp", {}, {})}
      [] call.fn = "ps_topofit_batch_row_invariant" ->
            {Delegated(call, "_ps_topofit_batch_row_invariant", "bperp_vec", PhaseRows(call), {})}
      [] call.fn = "ps_topofit_coh_row_invariant" ->
            {Delegated(call, "_ps_topofit_batch_row_invariant", "bperp_vec", PhaseRows(call), {2})}

IsGrid(call) == call.fn = "accumulate_weighted_grid"
MayReturn(call) == Well(call) /\ (IsGrid(call) => GridFits(call) \/ GridIsBare(call))
MustReturn(call) == Well(call) /\ (IsGrid(call) => GridFits(call))

----------------------------------------------------------------------------
End(c, kind, value) == ended' = [ended EXCEPT ![c] = {[kind |-> kind, value |-> value]}]

Call(c, call) ==
    /\ called[c] = {} /\ called' = [called EXCEPT ![c] = {call}]
    /\ UNCHANGED <<ended, faults>>

Return(c, call) ==
    /\ MayReturn(call) /\ \E result \in Results(call) : End(c, "value", {result})
    /\ UNCHANGED <<called, faults>>
Refuse(c, call) ==
    /\ ~MustReturn(call) /\ End(c, "refused", {}) /\ UNCHANGED <<called, faults>>

\* Something around a call fails, at once or before the call notices.
Fault == faults' = faults + 1 /\ UNCHANGED <<called, ended>>
Fail(c, call) == faults > 0 /\ End(c, "failed", {}) /\ UNCHANGED <<called, faults>>

Init ==
    /\ called = [c \in Callers |-> {}] /\ ended = [c \in Callers |-> {}]
    /\ faults = 0

Next ==
    \/ Fault
    \/ \E c \in Callers : \E call \in Calls[c] : Call(c, call)
    \/ \E c \in Callers : ended[c] = {} /\ \E call \in called[c] :
          Return(c, call) \/ Refuse(c, call) \/ Fail(c, call)

Spec == Init /\ [][Next]_vars
=============================================================================

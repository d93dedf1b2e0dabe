----------------------------- MODULE NativeCall -----------------------------
(* Threads that call the functions exported by _stage2_native.c, from the   *)
(* import of the extension to the value: arguments matched to parameters,   *)
(* buffers and views taken, Python called on the way, the grid accumulated  *)
(* outside the interpreter lock by a team of workers, and everything given  *)
(* back on every way out.                                                   *)
(*                                                                          *)
(* A thread moves only while it holds the interpreter lock (gil), which it  *)
(* gives up where the code runs Python or says nogil.  What may be missing  *)
(* is a set: {} or a singleton.                                             *)
EXTENDS NativeBuffers, SequencesExt, FiniteSetsExt

CONSTANTS
    Callers,    \* the threads; each makes one call
    Plans,      \* the calls they make: each plan gives every caller its call
    Arrays,     \* id -> array [format, shape, writable, data]
    IntLimit,   \* an int is in -IntLimit .. IntLimit - 1
    MaxFaults   \* bound: how often the surroundings of a call fail

ASSUME IntLimitAssumption == IntLimit \in Nat \ {0}
ASSUME MaxFaultsAssumption == MaxFaults \in Nat

VARIABLES
    module,     \* the extension: exists (__pyx_m), the steps of its initialisation
                \* done, listed in sys.modules, who imports it, and whether
                \* accelerated.py caches it (_STAGE2_NATIVE_MODULE)
    gil,        \* the caller that holds the interpreter lock, if any
    callers,    \* what each caller is doing
    heap,       \* buffers and memoryview objects, see NativeBuffers
    work,       \* caller -> the sums and the workers of its parallel region
    faults

vars == <<module, gil, callers, heap, work, faults>>

----------------------------------------------------------------------------
(* Parameters of the exported functions, in order.                          *)

Param(name, takes, dtype, item, ndim, viewed) ==
    [name |-> name, takes |-> takes, dtype |-> dtype, item |-> item, ndim |-> ndim,
     viewed |-> viewed, needed |-> TRUE]
Number(name, takes) == Param(name, takes, "", [group |-> "", size |-> 0], 0, FALSE)
Optional(param) == [param EXCEPT !.needed = FALSE]

Complex64 == [group |-> "C", size |-> 8]
Complex128 == [group |-> "C", size |-> 16]
Float64 == [group |-> "R", size |-> 8]
Int64 == [group |-> "I", size |-> 8]

AccumulateParams ==
    << Param("ph_weight", "array", "complex64", Complex64, 2, TRUE),
       Param("grid_lin", "array", "int64", Int64, 1, TRUE),
       Number("n_i", "int"), Number("n_j", "int"), Optional(Number("threads", "int")) >>
TopofitParams(bperp, ndim) ==
    << Param("cpxphase", "array", "complex128", Complex128, 2, FALSE),
       Param(bperp, "array", "float64", Float64, ndim, FALSE),
       Number("n_trial_wraps", "double"), Optional(Number("threads", "int")) >>
GenericParams == TopofitParams("bperp", 2)
RowInvariantParams == TopofitParams("bperp_vec", 1)
CoherenceParams == TopofitParams("bperp_vec", 1)
HistogramParams ==
    << Param("values", "array", "float64", Float64, 1, TRUE),
       Param("centers", "array", "float64", Float64, 1, TRUE) >>

Signature ==
    [accumulate_weighted_grid |-> AccumulateParams,
     ps_topofit_batch_generic |-> GenericParams,
     ps_topofit_batch_row_invariant |-> RowInvariantParams,
     ps_topofit_coh_row_invariant |-> CoherenceParams,
     histogram_with_centers |-> HistogramParams]

\* The type of items and the rank of the arrays a function makes.
Want(fn, name) ==
    LET given == { p \in ToSet(Signature[fn]) : p.name = name } IN
    IF given # {} THEN CHOOSE p \in given : TRUE
    ELSE Param(name, "array", "", IF fn = "accumulate_weighted_grid" THEN Complex64 ELSE Float64,
               IF fn = "accumulate_weighted_grid" THEN 2 ELSE 1, TRUE)

Given(call) ==
    { call.pos[j] : j \in 1..Len(call.pos) } \union { call.kw[j].value : j \in 1..Len(call.kw) }

\* Calls are of exported functions; the interpreter hands over no keyword twice.
ASSUME PlansAssumption ==
    \A plan \in Plans, c \in Callers :
        LET kw == plan[c].kw IN
        /\ plan[c].fn \in DOMAIN Signature
        /\ Len(plan[c].pos) \in Nat /\ Len(kw) \in Nat
        /\ \A j, k \in 1..Len(kw) : kw[j].name = kw[k].name => j = k
        /\ \A value \in Given(plan[c]) : value.kind = "int" => value.int \in Int

\* The calls are made with arrays there are, whose extents are naturals and
\* whose formats are numpy's.
ASSUME ArraysAssumption ==
    /\ \A id \in DOMAIN Arrays :
          /\ Arrays[id].shape \in Seq(Nat) /\ Arrays[id].writable \in BOOLEAN
          /\ Arrays[id].format.order \in {"@", "=", "<", ">"}
          /\ Arrays[id].format.code \in DOMAIN TypeCharToGroup
    /\ \A plan \in Plans, c \in Callers : \A value \in Given(plan[c]) :
          value.kind = "array" => value.array \in DOMAIN Arrays

----------------------------------------------------------------------------
(* Arguments: a call is a function, positional values and keywords.         *)

\* __Pyx_MatchKeywordArg_str: the place of a keyword among the parameters the
\* positional values left over; {} for one they have filled, or no parameter.
MatchKeywordArg(params, npos, name) ==
    { k \in (npos + 1)..Len(params) : params[k].name = name }

\* __Pyx_ParseKeywords: a keyword without a place ends the call.  The
\* interpreter hands over no keyword twice.
ParseKeywords(params, npos, kw) ==
    IF \E j \in 1..Len(kw) : MatchKeywordArg(params, npos, kw[j].name) = {} THEN {}
    ELSE {[k \in 1..Len(params) |->
             { kw[j].value : j \in { j \in 1..Len(kw) :
                                       k \in MatchKeywordArg(params, npos, kw[j].name) } }]}

Positional(call, k) == { call.pos[j] : j \in {k} \intersect 1..Len(call.pos) }
Values(params, call) ==
    { [k \in 1..Len(params) |-> Positional(call, k) \union named[k]] :
        named \in IF Len(call.pos) > Len(params) THEN {}
                  ELSE ParseKeywords(params, Len(call.pos), call.kw) }

\* __Pyx_PyLong_As_int, __Pyx_PyFloat_AsDouble and __Pyx_ArgTypeTest.
AsInt(value) == value.kind = "int" /\ value.int \in -IntLimit..(IntLimit - 1)
AsDouble(value) == value.kind = "int"
ArgTypeTest(value) == value.kind = "array"
Converts(param, value) ==
    CASE param.takes = "int" -> AsInt(value)
      [] param.takes = "double" -> AsDouble(value)
      [] param.takes = "array" -> ArgTypeTest(value)

\* The wrapper of a function: its arguments, {} when it refuses them.
Bind(call) ==
    LET params == Signature[call.fn] IN
    { v \in Values(params, call) :
        \A k \in 1..Len(params) :
            /\ params[k].needed => v[k] # {}
            /\ \A value \in v[k] : Converts(params[k], value) }

\* What the implementation in Python, which takes the same calls, needs as well:
\* the sides of a grid are counts (np.zeros), and there is one index for every
\* row of weights (np.add.at).
GridInput(args) ==
    /\ \A side \in args[3] \union args[4] : side.int >= 0
    /\ \A ph \in args[1], grid \in args[2] :
          Len(Arrays[ph.array].shape) = 2 /\ Len(Arrays[grid.array].shape) = 1
            => Len(Arrays[grid.array].data) = Arrays[ph.array].shape[1]

\* Samples are numbers or not, and centres are numbers that ascend
\* (np.searchsorted).
HistogramInput(args) ==
    \A v \in args[1], m \in args[2] :
        LET samples == Arrays[v.array]
            centers == Arrays[m.array]
        IN  Len(samples.shape) = 1 /\ Len(centers.shape) = 1 =>
            /\ Len(samples.data) = samples.shape[1] /\ Len(centers.data) = centers.shape[1]
            /\ \A j \in 1..Len(samples.data) :
                  /\ samples.data[j] \subseteq Int
                  /\ \A x, y \in samples.data[j] : x = y
            /\ \A j, k \in 1..Len(centers.data) :
                  /\ centers.data[j] \in Int
                  /\ j <= k => centers.data[j] <= centers.data[k]

ASSUME ArgumentsAssumption ==
    \A plan \in Plans, c \in Callers : \A args \in Bind(plan[c]) :
        /\ plan[c].fn = "accumulate_weighted_grid" => GridInput(args)
        /\ plan[c].fn = "histogram_with_centers" => HistogramInput(args)

ArgOf(c, name) ==
    LET params == Signature[callers[c].call.fn]
        k == CHOOSE k \in 1..Len(params) : params[k].name = name
    IN  callers[c].args[k]
IntOf(c, name, default) ==
    IF ArgOf(c, name) = {} THEN default ELSE (CHOOSE v \in ArgOf(c, name) : TRUE).int
GivenArray(c, name) == (CHOOSE v \in ArgOf(c, name) : TRUE).array

\* Arrays the call makes are its own.
IdOf(c, name) == IF name \in {"out", "mids"} THEN <<c, name>> ELSE GivenArray(c, name)
NativeFormat(fn) ==
    [order |-> "@", code |-> IF fn = "accumulate_weighted_grid" THEN "Zf" ELSE "d"]
MadeArray(fn) ==
    [format |-> NativeFormat(fn), writable |-> TRUE,
     shape |-> IF fn = "accumulate_weighted_grid" THEN <<0, 0>> ELSE <<0>>]
TheArray(c, name) ==
    IF name \in {"out", "mids"} THEN MadeArray(callers[c].call.fn) ELSE Arrays[GivenArray(c, name)]

----------------------------------------------------------------------------
(* The bodies, as the steps they take in order.                             *)

Buf(name) == [do |-> "buffer", of |-> name]
Python(name) == [do |-> "python", of |-> name]
View(name) == [do |-> "view", of |-> name]
Region == [do |-> "region", of |-> "sums"]
Fill(name) == [do |-> "fill", of |-> name]

AccumulateBody ==
    << Buf("ph_weight"), Buf("grid_lin"), Python("zeros"), Buf("out"),
       View("ph_weight"), View("grid_lin"), View("out"), Region, Python("reshape") >>

GenericBody ==
    << Buf("cpxphase"), Buf("bperp"), Python("import"), Python("asarray"),
       Python("asarray"), Python("call") >>
RowInvariantBody ==
    << Buf("cpxphase"), Buf("bperp_vec"), Python("import"), Python("asarray"),
       Python("asarray"), Python("asarray"), Python("tile"), Python("call") >>
CoherenceBody == RowInvariantBody \o <<Python("item")>>

HistogramStart ==
    << Buf("values"), Buf("centers"), Python("zeros"), Buf("out"),
       View("values"), View("centers"), View("out") >>
HistogramBody(bins) ==
    CASE bins = 0 -> HistogramStart
      [] bins = 1 -> HistogramStart \o <<Fill("single")>>
      [] OTHER -> HistogramStart \o
            << Python("empty"), Buf("mids"), View("mids"), Fill("midpoints"), Fill("counts") >>

Body(c) ==
    CASE callers[c].call.fn = "accumulate_weighted_grid" -> AccumulateBody
      [] callers[c].call.fn = "ps_topofit_batch_generic" -> GenericBody
      [] callers[c].call.fn = "ps_topofit_batch_row_invariant" -> RowInvariantBody
      [] callers[c].call.fn = "ps_topofit_coh_row_invariant" -> CoherenceBody
      [] callers[c].call.fn = "histogram_with_centers" ->
            HistogramBody(TheArray(c, "centers").shape[1])

----------------------------------------------------------------------------
(* Moving through a call.                                                   *)

Holds(c) == gil = {c}
Is(c, stage) == callers[c].stage = stage
To(c, stage) == callers' = [callers EXCEPT ![c].stage = stage]
KeepGil == UNCHANGED gil
DropGil == gil' = {}

\* The way out: what is held goes back in Leave.
Out(c, kind, value) ==
    callers' = [callers EXCEPT ![c].stage = "leaving",
                               ![c].outcome = {[kind |-> kind, value |-> value]}]
Refuse(c) == Out(c, "refused", {})
Fail(c) == faults < MaxFaults /\ faults' = faults + 1 /\ Out(c, "failed", {})

Step(c) == Body(c)[callers[c].step]
At(c, do) ==
    /\ Holds(c) /\ Is(c, "running")
    /\ callers[c].step <= Len(Body(c)) /\ Step(c).do = do
Advance(c) == callers' = [callers EXCEPT ![c].step = @ + 1]

\* PyEval_RestoreThread, and the turns the interpreter gives its threads.  A
\* thread that waits for the import lock does not wait for this one.
TakeGil(c) ==
    /\ gil = {} /\ ~Is(c, "ended") /\ ~Is(c, "outside")
    /\ Is(c, "importing") => module.by \in {{}, {c}}
    /\ gil' = {c} /\ UNCHANGED <<module, callers, heap, work, faults>>

----------------------------------------------------------------------------
(* The import: _load_stage2_native_module and the initialisation of the     *)
(* extension.  importlib holds a lock per module, and drops a module whose  *)
(* initialisation failed from sys.modules.                                  *)

\* Run Python, so that another thread may get its turn.
PythonInit == {"import types", "sequence", "register", "import numpy"}
InitSteps ==
    << "state", "constants", "types", "import types", "sequence", "enums", "locks",
       "register", "import numpy", "functions" >>
\* An exception is swallowed, or none can be raised.
Unfailing == {"sequence", "locks", "register"}

Whole == module.exists /\ module.done = InitSteps

Ask(c) ==
    /\ Holds(c) /\ Is(c, "idle")
    /\ callers' = [callers EXCEPT ![c].stage = IF module.cached THEN "returning" ELSE "importing"]
    /\ DropGil /\ UNCHANGED <<module, heap, work, faults>>

Imported(c, found) ==
    /\ callers' = [callers EXCEPT ![c].found = found, ![c].stage = "assigning"]
    /\ DropGil

ImportListed(c) ==
    /\ Holds(c) /\ Is(c, "importing") /\ module.by = {} /\ module.listed
    /\ Imported(c, TRUE) /\ UNCHANGED <<module, heap, work, faults>>

\* __pyx_pymod_create hands out a module that exists already, and
\* __pyx_pymod_exec has nothing to do for it.
PymodCreate(c) ==
    /\ Holds(c) /\ Is(c, "importing") /\ module.by = {} /\ ~module.listed
    /\ IF module.exists
       THEN module' = [module EXCEPT !.listed = TRUE] /\ Imported(c, TRUE)
       ELSE /\ module' = [module EXCEPT !.exists = TRUE, !.by = {c}, !.done = <<>>]
            /\ KeepGil /\ UNCHANGED callers
    /\ UNCHANGED <<heap, work, faults>>

InitDone(c, done) ==
    IF done = InitSteps
    THEN /\ module' = [module EXCEPT !.done = done, !.listed = TRUE, !.by = {}]
         /\ Imported(c, TRUE)
    ELSE /\ module' = [module EXCEPT !.done = done] /\ UNCHANGED callers
         /\ gil' = IF Last(done) \in PythonInit THEN {} ELSE gil

\* A lock that cannot be allocated leaves its place in the pool empty.
ThreadLocks(step, pool) ==
    heap' = IF step = "locks" THEN [heap EXCEPT !.pool = pool, !.used = 0] ELSE heap
Pools == {NewPool} \union { [NewPool EXCEPT ![k] = {}] : k \in {1} \intersect 1..PoolSize }

PymodExec(c) ==
    /\ Holds(c) /\ Is(c, "importing") /\ module.by = {c}
    /\ LET step == InitSteps[Len(module.done) + 1] IN
       /\ InitDone(c, Append(module.done, step))
       /\ \E pool \in Pools :
             /\ ThreadLocks(step, pool)
             /\ faults' = IF step = "locks" /\ pool # NewPool THEN faults + 1 ELSE faults
             /\ faults' <= MaxFaults
    /\ UNCHANGED work

\* Mutant: the half-made module stays.
ClearedKeeping == module' = [module EXCEPT !.by = {}]

\* The error exit: Py_CLEAR(__pyx_m).
Cleared == module' = [module EXCEPT !.by = {}, !.exists = FALSE, !.done = <<>>]

PymodExecFails(c) ==
    /\ Holds(c) /\ Is(c, "importing") /\ module.by = {c}
    /\ InitSteps[Len(module.done) + 1] \notin Unfailing
    /\ faults < MaxFaults /\ faults' = faults + 1
    /\ Cleared /\ Imported(c, FALSE) /\ UNCHANGED <<heap, work>>

\* The module, or None after an exception, becomes _STAGE2_NATIVE_MODULE.
Assign(c) ==
    /\ Holds(c) /\ Is(c, "assigning")
    /\ module' = [module EXCEPT !.cached = callers[c].found]
    /\ To(c, "returning") /\ DropGil /\ UNCHANGED <<heap, work, faults>>

\* The global is read once more for the return; None is "unavailable".
ReturnModule(c) ==
    /\ Holds(c) /\ Is(c, "returning")
    /\ \/ module.cached /\ To(c, "binding")
       \/ ~module.cached /\ Out(c, "failed", {})
    /\ KeepGil /\ UNCHANGED <<module, heap, work, faults>>

----------------------------------------------------------------------------
(* The steps of a body, with the interpreter lock.                          *)

\* A wrapper that refuses its arguments holds nothing yet.
BindArguments(c) ==
    /\ Holds(c) /\ Is(c, "binding")
    /\ \/ \E args \in Bind(callers[c].call) :
             callers' = [callers EXCEPT ![c].args = args, ![c].step = 1, ![c].stage = "running"]
       \/ Bind(callers[c].call) = {} /\ Refuse(c)
    /\ KeepGil /\ UNCHANGED <<module, heap, work, faults>>

GetBuffer(c) ==
    /\ At(c, "buffer")
    /\ LET name == Step(c).of
           fits == Validated(TheArray(c, name), Want(callers[c].call.fn, name)) IN
       /\ heap' = GetBufferAndValidate(heap, IdOf(c, name), fits)
       /\ \/ /\ fits
             /\ callers' = [callers EXCEPT ![c].step = @ + 1, ![c].buffers = @ \union {name}]
          \/ ~fits /\ Refuse(c)
    /\ KeepGil /\ UNCHANGED <<module, work, faults>>

\* Products of ints wrap: the interpreter's compiler flags say so (-fwrapv).
Wrap(x) == ((x + IntLimit) % (2 * IntLimit)) - IntLimit
GridSize(c) == Wrap(IntOf(c, "n_i", 0) * IntOf(c, "n_j", 0))
Columns(c) == TheArray(c, "ph_weight").shape[2]

\* numpy refuses a negative size, and a reshape to another number of items.
NumpyRefuses(c, name) ==
    /\ callers[c].call.fn = "accumulate_weighted_grid"
    /\ \/ name = "zeros" /\ GridSize(c) < 0
       \/ /\ name = "reshape"
          /\ GridSize(c) * Columns(c) # IntOf(c, "n_i", 0) * IntOf(c, "n_j", 0) * Columns(c)

CallPython(c) ==
    /\ At(c, "python")
    /\ \/ ~NumpyRefuses(c, Step(c).of) /\ Advance(c) /\ UNCHANGED faults
       \/ NumpyRefuses(c, Step(c).of) /\ Refuse(c) /\ UNCHANGED faults
       \/ Fail(c)
    /\ DropGil /\ UNCHANGED <<module, heap, work>>

\* __Pyx_PyObject_to_MemoryviewSlice with PyBUF_WRITABLE: a new memoryview
\* object, and the slice that acquires it.
ToMemoryviewSlice(c) ==
    /\ At(c, "view")
    /\ LET name == Step(c).of
           id == <<c, name>>
           array == TheArray(c, name)
           made == Cinit(heap, id, IdOf(c, name), TRUE)
       IN  \/ /\ ~array.writable /\ Refuse(c) /\ UNCHANGED <<heap, faults>>
           \/ /\ array.writable /\ UNCHANGED faults
              /\ IF Validated(array, Want(callers[c].call.fn, name))
                 THEN /\ heap' = InitMemviewslice(made, id)
                      /\ callers' = [callers EXCEPT ![c].step = @ + 1,
                                                    ![c].views = @ \union {name}]
                 ELSE heap' = Dealloc(made, id) /\ Refuse(c)
           \* PyThread_allocate_lock found no memory.
           \/ LET lockless == Cinit(heap, id, IdOf(c, name), FALSE) IN
              /\ array.writable /\ ~Atomics /\ lockless.objects[id].lock = {}
              /\ heap' = Dealloc(lockless, id) /\ Fail(c)
    /\ KeepGil /\ UNCHANGED <<module, work>>

----------------------------------------------------------------------------
(* The parallel region of accumulate_weighted_grid.  The columns are dealt  *)
(* out in blocks (schedule(static)); a worker adds its columns row by row,  *)
(* and an addition reads a sum and writes it back.  A sum is the sequence   *)
(* of the rows added to it.                                                 *)

Rows(c) == TheArray(c, "ph_weight").shape[1]
ThreadCount(c) == Max({1, IntOf(c, "threads", 1)})

\* The iterations 0 .. n - 1 that libgomp deals to worker w of a team of t.
BlockStart(n, t, w) == (w - 1) * (n \div t) + Min({w - 1, n % t})
BlockLength(n, t, w) == (n \div t) + (IF w <= n % t THEN 1 ELSE 0)

\* Mutant: the rows are dealt out, and every worker adds to every column.
RowIterations(rows, cols, t, w) ==
    [k \in 1..(cols * BlockLength(rows, t, w)) |->
        <<BlockStart(rows, t, w) + ((k - 1) \div cols) + 1, ((k - 1) % cols) + 1>>]

\* What a worker does, in order: row by row for each of its columns.
Iterations(rows, cols, t, w) ==
    [k \in 1..(rows * BlockLength(cols, t, w)) |->
        <<((k - 1) % rows) + 1, BlockStart(cols, t, w) + ((k - 1) \div rows) + 1>>]

\* Mutant: the interpreter lock is kept.
GoOutsideLocked(c) == To(c, "outside") /\ KeepGil

GoOutside(c) == To(c, "outside") /\ DropGil

\* PyEval_SaveThread, and the start of the team; OpenMP may grant fewer
\* workers than asked for.
SaveThread(c) ==
    /\ At(c, "region")
    /\ \E t \in 1..ThreadCount(c) :
          work' = [work EXCEPT
              ![c].sums = [at \in (0..(GridSize(c) - 1)) \X (1..Columns(c)) |-> <<>>],
              ![c].team = [w \in 1..t |-> [left |-> Iterations(Rows(c), Columns(c), t, w),
                                          read |-> {}]]]
    /\ GoOutside(c) /\ UNCHANGED <<module, heap, faults>>

Worker(c, w) == work[c].team[w]
Next1(c, w) == Head(Worker(c, w).left)
Index(c, row) == TheArray(c, "grid_lin").data[row]
InGrid(c, row) == 0 <= Index(c, row) /\ Index(c, row) < GridSize(c)
CellOf(c, at) == <<Index(c, at[1]), at[2]>>

\* "idx" is private to the worker; a row outside the grid is left out.
ReadSum(c, w) ==
    /\ Is(c, "outside") /\ Worker(c, w).left # <<>> /\ Worker(c, w).read = {}
    /\ work' = IF InGrid(c, Next1(c, w)[1])
               THEN [work EXCEPT ![c].team[w].read = {work[c].sums[CellOf(c, Next1(c, w))]}]
               ELSE [work EXCEPT ![c].team[w].left = Tail(@)]
    /\ UNCHANGED <<module, gil, callers, heap, faults>>

WriteSum(c, w) ==
    /\ Is(c, "outside") /\ Worker(c, w).read # {}
    /\ \E sum \in Worker(c, w).read :
          work' = [work EXCEPT ![c].sums[CellOf(c, Next1(c, w))] = Append(sum, Next1(c, w)[1]),
                               ![c].team[w] = [left |-> Tail(@.left), read |-> {}]]
    /\ UNCHANGED <<module, gil, callers, heap, faults>>

\* The team joins; PyEval_RestoreThread waits for the interpreter lock.
RestoreThread(c) ==
    /\ Is(c, "outside") /\ \A w \in DOMAIN work[c].team : Worker(c, w).left = <<>>
    /\ gil = {} /\ gil' = {c}
    /\ callers' = [callers EXCEPT ![c].stage = "running", ![c].step = @ + 1]
    /\ UNCHANGED <<module, heap, work, faults>>

----------------------------------------------------------------------------
(* histogram_with_centers: centres and samples are integers, the midpoints  *)
(* twice their value.  A sample that is not a number is {}.                 *)

Samples(c) == TheArray(c, "values").data
Centers(c) == TheArray(c, "centers").data

Midpoints(centers) == [k \in 1..(Len(centers) - 1) |-> centers[k] + centers[k + 1]]

\* One turn of "while lo < hi"; places count from zero.
Halve(range, mids, sample) ==
    LET mid == (range.lo + range.hi) \div 2 IN
    IF range.lo >= range.hi THEN range
    ELSE IF mids[mid + 1] < 2 * sample THEN [range EXCEPT !.lo = mid + 1]
    ELSE [range EXCEPT !.hi = mid]

\* The search ends within as many turns as there are bins.
Search(mids, sample) ==
    LET range[turn \in 0..(Len(mids) + 1)] ==
            IF turn = 0 THEN [lo |-> 0, hi |-> Len(mids)]
            ELSE Halve(range[turn - 1], mids, sample)
    IN  range[Len(mids) + 1].lo

\* A value that is no number goes into the last bin.
BinFor(mids, value) ==
    IF value = {} THEN Len(mids) + 1 ELSE 1 + Search(mids, CHOOSE s \in value : TRUE)

Counted(mids, values) ==
    LET bins == [j \in 1..Len(values) |-> BinFor(mids, values[j])] IN
    [b \in 1..(Len(mids) + 1) |-> Cardinality({ j \in 1..Len(values) : bins[j] = b })]

FillArray(c) ==
    /\ At(c, "fill")
    /\ LET name == Step(c).of IN
       work' = CASE name = "single" -> [work EXCEPT ![c].counts = <<Len(Samples(c))>>]
                 [] name = "midpoints" -> [work EXCEPT ![c].mids = Midpoints(Centers(c))]
                 [] name = "counts" ->
                       [work EXCEPT ![c].counts = Counted(work[c].mids, Samples(c))]
    /\ Advance(c) /\ KeepGil /\ UNCHANGED <<module, heap, faults>>

----------------------------------------------------------------------------
(* The way out.                                                             *)

Delegated(c, implementation, bperp, repeats, item) ==
    [implementation |-> implementation, item |-> item,
     phase |-> GivenArray(c, "cpxphase"),
     baselines |-> <<GivenArray(c, bperp), repeats>>,
     wraps |-> IntOf(c, "n_trial_wraps", 0)]

\* np.tile(bperp_vec, (np.asarray(cpxphase).shape[0], 1)).
Tiled(c) == {TheArray(c, "cpxphase").shape[1]}

ResultOf(c) ==
    LET fn == callers[c].call.fn IN
    CASE fn = "accumulate_weighted_grid" -> [sums |-> work[c].sums]
      [] fn = "histogram_with_centers" -> [counts |-> work[c].counts]
      [] fn = "ps_topofit_batch_generic" ->
            Delegated(c, "_ps_topofit_batch_generic", "bperp", {}, {})
      [] fn = "ps_topofit_batch_row_invariant" ->
            Delegated(c, "_ps_topofit_batch_row_invariant", "bperp_vec", Tiled(c), {})
      [] fn = "ps_topofit_coh_row_invariant" ->
            Delegated(c, "_ps_topofit_batch_row_invariant", "bperp_vec", Tiled(c), {2})

ReturnValue(c) ==
    /\ Holds(c) /\ Is(c, "running") /\ callers[c].step > Len(Body(c))
    /\ Out(c, "value", {ResultOf(c)})
    /\ KeepGil /\ UNCHANGED <<module, heap, work, faults>>

\* Both exits release the buffers, then clear the views.
GiveBuffer(c, name) ==
    /\ heap' = SafeReleaseBuffer(heap, IdOf(c, name))
    /\ callers' = [callers EXCEPT ![c].buffers = @ \ {name}] /\ KeepGil
GiveView(c, name) ==
    /\ heap' = XclearMemview(heap, <<c, name>>)
    /\ callers' = [callers EXCEPT ![c].views = @ \ {name}] /\ KeepGil

Leave(c) ==
    /\ Holds(c) /\ Is(c, "leaving")
    /\ LET held == callers[c].buffers
           viewed == callers[c].views
       IN  CASE held # {} -> GiveBuffer(c, CHOOSE name \in held : TRUE)
             [] held = {} /\ viewed # {} -> GiveView(c, CHOOSE name \in viewed : TRUE)
             [] OTHER -> To(c, "ended") /\ DropGil /\ UNCHANGED heap
    /\ UNCHANGED <<module, work, faults>>

----------------------------------------------------------------------------
ArrayIds == DOMAIN Arrays \union (Callers \X {"out", "mids"})

Idle(call) ==
    [stage |-> "idle", call |-> call, args |-> <<>>, step |-> 0, found |-> FALSE,
     buffers |-> {}, views |-> {}, outcome |-> {}]
NoWork == [sums |-> <<>>, team |-> <<>>, mids |-> <<>>, counts |-> <<>>]

Init ==
    /\ module = [exists |-> FALSE, done |-> <<>>, listed |-> FALSE, by |-> {}, cached |-> FALSE]
    /\ gil = {} /\ faults = 0
    /\ \E plan \in Plans : callers = [c \in Callers |-> Idle(plan[c])]
    /\ heap = NewHeap(ArrayIds)
    /\ work = [c \in Callers |-> NoWork]

Import(c) ==
    \/ ImportListed(c) \/ PymodCreate(c) \/ PymodExec(c) \/ PymodExecFails(c)
    \/ Assign(c) \/ ReturnModule(c)

Serve(c) ==
    \/ BindArguments(c) \/ GetBuffer(c) \/ CallPython(c) \/ ToMemoryviewSlice(c)
    \/ SaveThread(c) \/ FillArray(c) \/ ReturnValue(c) \/ Leave(c)

Next ==
    \E c \in Callers :
        \/ TakeGil(c) \/ RestoreThread(c) \/ Ask(c) \/ Import(c) \/ Serve(c)
        \/ \E w \in DOMAIN work[c].team : ReadSum(c, w) \/ WriteSum(c, w)

\* The program does not stop while a thread can go on.  No choice among the
\* threads is assumed to be fair.
Fairness == WF_vars(Next)

Spec == Init /\ [][Next]_vars /\ Fairness

----------------------------------------------------------------------------
(* Properties.                                                              *)

Stages == {"idle", "importing", "assigning", "returning", "binding", "running", "outside",
           "leaving", "ended"}

\* Counts of buffers and acquisitions never run below what is held, and at
\* most one thread has the interpreter lock.
TypeOK ==
    /\ Cardinality(gil) <= 1 /\ faults \in 0..MaxFaults
    /\ module.done = SubSeq(InitSteps, 1, Len(module.done))
    /\ \A a \in ArrayIds : heap.exports[a] \in Nat
    /\ heap.used \in 0..Len(heap.pool)
    /\ \A id \in DOMAIN heap.objects : heap.objects[id].acquired = 1
    /\ \A c \in Callers : callers[c].stage \in Stages

Held == UNION { {c} \X callers[c].buffers : c \in Callers }
ArrayOfHeld(held) == IdOf(held[1], held[2])

\* Whatever the interleaving, and on every way out: an array has exported as
\* many buffers as calls and memoryview objects hold on it, so that numpy lets
\* go of it after the calls; an object lives as long as a call has a view of
\* it; no two objects share a lock and none uses a lock the pool would hand
\* out; and no call runs in a module that is not initialised to the end.
BooksBalance ==
    /\ \A a \in ArrayIds :
          heap.exports[a] = Cardinality({ held \in Held : ArrayOfHeld(held) = a })
            + Cardinality({ id \in DOMAIN heap.objects : heap.objects[id].array = a })
    /\ DOMAIN heap.objects = UNION { {c} \X callers[c].views : c \in Callers }
    /\ \A id, jd \in DOMAIN heap.objects :
          /\ heap.objects[id].lock = {} <=> Atomics
          /\ heap.objects[id].lock = heap.objects[jd].lock => Atomics \/ id = jd
          /\ \A k \in (heap.used + 1)..Len(heap.pool) :
                heap.pool[k] # {} => heap.objects[id].lock # heap.pool[k]
    /\ \A c \in Callers : callers[c].stage \in {"binding", "running", "outside"} => Whole

Promised == INSTANCE PureCalls WITH
    Calls <- [c \in Callers |-> { plan[c] : plan \in Plans }],
    called <- [c \in Callers |-> IF Is(c, "idle") THEN {} ELSE {callers[c].call}],
    ended <- [c \in Callers |-> IF Is(c, "ended") THEN callers[c].outcome ELSE {}]

\* Calls that run side by side, share their arrays, and add up a grid with as
\* many workers as they please end as if each ran alone on one thread: with
\* the sums in the order of the rows, with every sample in the bin of its
\* nearest centre and one that is not a number in none, refused exactly for
\* arguments the function does not take, and failed only after something around
\* them failed.  Samples that are not numbers break it: BinFor counts them.
ImplementsPureCalls == Promised!Spec

\* Every call ends: nobody waits for the interpreter lock, the import lock or
\* the workers for ever.
EveryCallEnds == \A c \in Callers : <>Is(c, "ended")
=============================================================================

# A TLA+ model of the RustaMPS pipeline

RustaMPS runs the eight stages of StaMPS persistent-scatterer processing as a
native Rust program. Each stage reads MAT files, computes for minutes to hours
and publishes new MAT files; the next stage, the next run and the user all go by
which files exist. What makes it correct is therefore less the arithmetic of a
stage than the discipline around it: what is published when, what a crash
leaves behind, what is removed before a stage is run again, what resume mode
trusts, and how Stage 6 keeps hours of parallel solves through failures. Beside
it lives a Python implementation with a compiled extension for Stage 2, by far
the longest file of the repository, where the difficulties are others: threads,
buffers, reference counts and strided memory. These modules model both, check
them with TLC on small instances and prove the most important properties with
TLAPS for all instances.

Paths below are relative to `src/crates/` for Rust and to
`src/pystamps/kernels/` for the extension.

## 1. The system

The production runtime is the Rust workspace in `crates/`. The Python tree, the
PyO3 bindings and the notebooks are kept as a historical reference
(`docs/architecture.md`, "Development oracle boundary"). Of them the native
Stage 2 extension is modelled, which `accelerated.py` loads and calls: the C file
`_stage2_native.c` as it is committed, which Cython 3.2.4 wrote from an earlier
state of `_stage2_native.pyx`.

| Part | State it keeps | Operations | Used by |
| --- | --- | --- | --- |
| Stage runner `rustamps-pipeline/src/runner.rs` | the run: range, resume mode, dry run, position, report | `run_pipeline`, `run_one` | the command line |
| Invalidation `invalidation.rs` | none; removes products from the stage directories | `invalidate_downstream`, `remove_products` | the runner, before each stage it executes |
| Status `status.rs` | none; reads completion artifacts | `collect_status`, `infer_stage` | the command line |
| Native stages `native/` | their products in the patch and root directories | load the inputs, compute, commit one bundle | the runner through `NativeExecutor` |
| Stage transaction `rustamps-io/src/transaction.rs` | a staging directory and, while it commits, a backup of each old file | `begin`, `path`, `commit`, `commit_with_removals`, `rollback`, `drop` | every native stage |
| File replacement `rustamps-io/src/mat/mod.rs`, `transaction.rs` | a temporary file and a backup file | `write_mat`, `write_mat_with_format`, `atomic_write` | staged files, caches, checkpoints, reports |
| Stage 6 caches `native/stage6/grid.rs`, `interp.rs`, `space_time.rs`, `cache_meta.rs` | `uw_grid.mat`, `uw_interp.mat`, `uw_space_time.mat` | `load_or_build` of each | a Stage 6 run |
| Stage 6 solves `native/stage6/output.rs`, `solve.rs`, `schedule.rs`, `solve_checkpoint.rs` | checkpoints under `.pystamps-stage6/<fingerprint>/`, a result channel, worker tasks | `choose`, `run_batch`, `receive_results`, `load`, `write`, `write_outputs` | a Stage 6 run |
| Unwrap kernels `rustamps-core/src/stage6/unwrap/` | per solve: deltas and flows of the edges, two spanning trees, labels | residues, first routing, tree cycles, cycle search, phases; labels, component shifts | a solve |
| Stage kernels `rustamps-core/src/stages/`, `stage7/`, `stage8/` | none | numeric functions | native stages |
| Configuration `rustamps-pipeline/src/config*.rs` | none | parse, normalise aliases, reject inert options | the command line |
| Dataset discovery `rustamps-io/src/dataset.rs` | none | find and order the patches | runner, status |
| SNAP preparation `rustamps-io/src/snap/`, `rustamps-core/src/prep/` | a new dataset directory | split a scene into patches, select candidates | the command line |
| Verifier `rustamps-verify/` | none | pair artifacts, compare under a policy | the command line |
| Native Stage 2 extension `_stage2_native.c`, loaded by `accelerated.py` | the module object and its initialisation, the loader's global, buffers, memoryview objects and a pool of locks | the import; `accumulate_weighted_grid`, `histogram_with_centers`, three `ps_topofit_*` functions that delegate to Python | threads of the Python pipeline |
| Compiled memoryview type, also in `_stage2_native.c` | slices (address, extents, strides, suboffsets), the objects they are of | index, slice, transpose, copy, assign, fill, getters | the extension's functions, and any holder of such a view |
| MAT and raw codecs `rustamps-io/src/mat/`, `raw.rs` | none | encode, decode | everything |

**How the parts meet.** The runner visits units (a stage of a patch or of the
root) in a fixed order. For each one it looks at the completion artifact
(resume mode only), removes downstream products, and lets the native stage run.
The stage writes its files into the staging directory of a transaction, each
through a file replacement, and commits them. The only memory from one run to
the next are the files. Stage 6 adds two layers of its own below the
transaction: derived caches with one name each, and solve checkpoints in a
directory per input fingerprint. In the extension, a call goes through the
loader (importing the module at the first call), the argument parser, buffers and
views on its arrays, the loops, and the release of all it holds; other threads
run whenever the call runs Python or has let go of the interpreter lock.

**What is hard.** *Failure:* the process may be killed between any two file
operations, and each operation may fail, including those of the error path.
*Ordering:* the completion artifact must come last when publishing and go first
when withdrawing. *Long sequences:* the user may run any range in any order
with any number of kills, and a later resume believes what it finds.
*Concurrency:* the solves of a Stage 6 batch end in any order, fail or panic
while their peers are running, and share a bounded pool with the caller that
waits for them. *Bounds:* the number of concurrent solves is derived from a
memory budget, a pool size, a request and a product that may overflow.
*Termination:* the flow optimizer of a solve repeats passes and phases without a
limit, on prices that are rounded and saturated. *Threads of the extension:* they
import it at the same time, share arrays, and the grid is added up outside the
interpreter lock by several workers without a lock of their own. *Strided
memory:* a view is four numbers per axis, cut, turned round and copied in
shortcuts whose preconditions depend on the layout and on overlap. There
are no network messages and no timeouts.

**What makes each part correct.**

- Transaction: the marker never vouches for a bundle that is not whole, two
  versions never mix, no old file is lost before the new marker is there, an
  error restores the old bundle or keeps the only copy of it, a retry succeeds.
- File replacement: the content changes at once, results are true.
- Runner and invalidation: no completion artifact survives a change of what it
  was computed from; resume keeps the order, skips only what is complete and
  finishes; reports and status tell the truth; earlier stages stay untouched.
- Stage 6 caches: a run sees caches of one input, and only damage from outside
  can make it stop.
- Stage 6 solves: only whole results are published, no finished solve is lost
  or repeated, nobody waits for ever, reruns get there.
- Flow optimizer: no residue comes back, trees stay trees, every increment is a
  gain, every phase and the whole loop end, and what they end with is optimal.
- Schedule: concurrent solves fit the budget and the pool, and work is started
  whenever there is some.
- Extension: calls that run side by side end as if each ran alone; a call fails
  only if something around it failed; everything taken is given back on every
  way out; every call ends.
- Memoryview type: a view shows the items that Python's indexing promises,
  whatever its layout; an assignment reads all values before it writes any.

## 2. Modules

| Module | Models | Composes with |
| --- | --- | --- |
| `AtomicBundle` | abstract: a directory holds no bundle or one whole version | refined by `StageTransaction` |
| `StageTransaction` | `transaction.rs`, `StageTransaction` | |
| `AtomicFile` | abstract: a file changes at once | refined by `AtomicReplace` |
| `AtomicReplace` | `write_mat_with_format`, `atomic_write` | |
| `Pipeline` | `runner.rs`, `invalidation.rs`, `status.rs`, inputs and bundles of `native/` | uses the outcomes of `StageTransaction` for a commit |
| `Scheduling` | `schedule.rs` as operators | used by the next |
| `Stage6Solve` | `output.rs`, `solve.rs`, `solve_checkpoint.rs` | extends `Scheduling`; checkpoints are replaced as in `AtomicReplace` |
| `Stage6Caches` | the three `load_or_build` and `cache_meta.rs` | files are replaced as in `AtomicReplace` |
| `UnwrapGrid` | cells, edges, plaquettes, arcs, residues, decoding, costs | |
| `ResidualGraph` | first routing, spanning trees, tree cycles, cycle search, windows, as operators | extends `UnwrapGrid` |
| `FlowOptimizer` | `optimize_edge_flows_with_parallel` as a state machine | extends `ResidualGraph` |
| `PureCalls` | abstract: a call ends with the value its arguments determine | refined by `NativeCall` |
| `NativeBuffers` | format check, buffers, memoryview objects, lock pool of `_stage2_native.c`, as operators | used by `NativeCall` |
| `NativeCall` | the loader, the module's initialisation and the exported functions | extends `NativeBuffers` |
| `IndexTuples` | the arithmetic of shapes and index tuples: sums and products over axes, the tuples of a shape, places | used by the next four |
| `ArrayViews` | abstract: a view is a cell for every index tuple | refined by `MemoryViews` |
| `MemviewSlices` | `unellipsify`, `slice_memviewslice`, `memview_slice`, `pybuffer_index`, `transpose_memslice`, contiguity, as operators | used by the next two |
| `MemviewCopy` | `memoryview_copy_contents` and its helpers, `slice_assign_scalar` | extends `MemviewSlices` |
| `MemoryViews` | memoryview objects: `__getitem__`, `__setitem__`, `T`, `copy`, `copy_fortran`, getters, the arrays made for copies | extends `MemviewCopy` |
| `MC*` | instances for TLC | |
| `*Proofs` | theorems | |

A higher module takes from the lower one what the lower one is shown to do:
`Pipeline` lets a failed or killed commit leave the old bundle, or files of one
version without the marker, which is what `MarkerVouchesForBundle` and
`NeverMixed` of `StageTransaction` say; `Stage6Caches` and `Stage6Solve` let a
killed write leave the old file, the new one or none, which is what
`ImplementsAtomicFile` says of a reader that does not look at backups.

### StageTransaction

State: the files of the stage directory, of the staging directory and the
backups of old files, as functions from names to versions, and the position in
`commit_with_removals`. One action per file
operation: `begin` (creation of the staging directory), writing the staged
files, one rename per old file to its backup, one per new file,
the marker last, the removal of the staging directory, the renames of
`rollback`, the removal in `Drop`. Each has a failing variant that follows the
code's error path and a `Killed` action that may follow any of them.

### AtomicReplace

State: destination, temporary file and backup, and the position in the
function. `writer` tells the two functions apart, which differ when writing the
temporary file fails (only `write_mat` removes it) and when removing the backup
fails (only `atomic_write` returns the error).

### Pipeline

State: for each unit the set of its files that exist, grouped into what the
code tells apart. `marker` is the completion artifact in `PATCH_ARTIFACTS` or
`MERGED_ARTIFACTS`; `data` are the files of the bundle that come before it in
`PATCH_PRODUCTS` or `ROOT_PRODUCTS`, `more` those after it. The history
variable `stale` records that a unit's present files were computed from inputs
rewritten since. Actions: `Start` (any range, dry or not) and `StartResume`;
`Skip`, `Plan`, `Invalidate` for the decisions of `run_one`; `RemoveProduct`
for one step of `remove_products`; `Execute`, `ExecuteFails`; `Finish`; `Killed`
and `RemoveFails` for faults. The history variable `cut` records that a fault
struck a removal, so that a property can say what holds when none did.

### Stage6Solve

State: the input in the directory, the checkpoints by input and interferogram,
the published result, the grid in memory and the state of each solve of the
batch. `StartSolve` is enabled while the pool has a free thread, which is where
the pool the caller blocks in matters (`Threads`). The channel has room for the
whole batch, so sending never blocks, and it is modelled by the set of solves
that are done. `Tamper` and `ChangeInput` act between runs.

### Stage6Caches

State: the three files with fingerprint, payload and what the checksum was
computed from, and what the run has loaded. A payload is the set of inputs it
was computed from, directly or through earlier caches, so that a mixture would
show.

### Scheduling

`Workers` is `choose_for_rayon`; the bound `UsizeMax` stands for the width of
`usize`, and the checked product saturates there as in the code.

### UnwrapGrid, ResidualGraph, FlowOptimizer

`UnwrapGrid` numbers cells, edges and arcs as the code does. A missing edge is
one outside the domain of `cost`. A phase is a number of steps of a turn
(`Turn`, odd, so that no difference is exactly half a turn); costs are integers
as in the code, prices included with their rounding and their saturation.
`desired_delta` is a float in the code that only holds integers; it is one here.

`ResidualGraph` defines what the data structures are for instead of how they
work: two nodes are joined if no set of nodes separates them (the disjoint set),
an arc is in a spanning tree if the arcs before it in the order do not join its
ends (Kruskal), an edge is on the path of a tree if the tree without it
separates the ends (parents, depths and lowest common ancestors in the code).
The Bellman-Ford search is modelled relaxation by relaxation, since what it
finds depends on their order.

`FlowOptimizer` has one action per step of the nested loops: `Route`; in a pass,
for each tree, `SelectTreeCycles`, `Push` (one increment), `EndOfCycle` (pivot
included) and `LeaveTree`; then `SelectFoundCycle` and `NextWindow` for the
search; `EndOfPass`; `CheckObjective` after a phase. The sizes that switch
between the branches (`ExactNodes`, `RebaseNodes`, `BatchLimit`, `WindowRadius`)
are constants, so that small grids reach all of them. The search in parallel
returns what the sequential one does (ties are broken by the arc) and is not told
apart.

### NativeCall, NativeBuffers, PureCalls

State: the module object and the steps of its initialisation done (`module`),
the interpreter lock (`gil`), what each caller is doing (`callers`), the buffers,
memoryview objects and locks (`heap`), the sums and workers of a parallel region
(`work`). A caller makes one call:

| In the model | In the code |
| --- | --- |
| `Ask`, `ImportListed`, `Assign`, `ReturnModule` | `_load_stage2_native_module`: the global is read, written and read again; the import lock of `importlib` is external |
| `PymodCreate`, `PymodExec`, `PymodExecFails` | `__pyx_pymod_create`, `__pyx_pymod_exec`, and its error exit, step by step (`InitSteps`) |
| `BindArguments` | the wrappers: positional values, keywords, conversions, type tests |
| `GetBuffer`, `ToMemoryviewSlice` | `__Pyx_GetBufferAndValidate`, `__Pyx_PyObject_to_MemoryviewSlice` with the format check `__Pyx_BufFmt_CheckString` |
| `CallPython` | numpy and imports: another thread may run, the call may fail or refuse |
| `SaveThread`, `ReadSum`, `WriteSum`, `RestoreThread` | the `prange` of `accumulate_weighted_grid` |
| `FillArray` | the loops of `histogram_with_centers` |
| `ReturnValue`, `Leave` | the result, and both exits with the release of what is held |

The body of a function is the sequence of its steps (`AccumulateBody`, ...), as
the wrappers of the five functions differ in nothing else. An addition in the
parallel loop is a read and a write, and a sum is the sequence of the rows added,
so that a lost or misplaced addition shows although rounding is not modelled.
Samples and centres are integers, and a sample that is not a number is `{}`.
Memoryview objects use the lock pool when the build has no atomics, which is how
the run is configured, since the other case only drops the pool.

Calls are made as `accelerated.py` makes them: arrays are never None, their extents
are naturals and their formats numpy's (`ArraysAssumption`), and nobody writes to them
meanwhile. The arguments are such that the implementation in Python, which takes the
same calls, works on them too (`ArgumentsAssumption`): the sides of a grid are counts,
there is one grid index per row (`GridInput`), and centres are numbers that ascend
(`HistogramInput`). A negative `n_i` and `n_j` whose product is positive are left out
with that. Ints wrap, as the flags of the interpreter's compiler say (`-fwrapv`). The
build is little-endian.

`PureCalls` says what each call ends with, from its arguments alone. A sample that is
not a number is in no bin, as the test of the native backend, the `.pyx` and the Python
fallback have it; the C file counts it (section 3), so that the plans of `native_call`
and the theorem keep to numbers, and `native_call_nan` shows the rest.
Calls that must return (`MustReturn`) and calls
that may (`MayReturn`) differ in one case, a grid without columns and with more cells
than an int counts: `np.zeros` refuses it when the product of its sides wraps to a
negative number, and otherwise the reshape of no items to no items passes. The run has
both: the sides are 2 by 2, which wraps to a negative number, and 3 by 3, which wraps
to a positive one.

### MemviewSlices, MemviewCopy, MemoryViews, ArrayViews

A slice is its address, its extents, strides and suboffsets, and the rank of the
object it refers to (`owner`), which `transpose_memslice` uses whatever the rank of
the slice. Memory is a function from addresses to items. Operators return the set of
possible results, empty for an exception. `MemoryViews` has the objects as state
and one action per operation of the type; a copy makes an array at addresses
nobody has, may run out of memory, and is refused by `array.__cinit__` for a shape
with no axis or an empty one.

Two things a copy reads are not determined by the slices, and are constants. What an
item holds that a copy finds off the memory, or in a cell the same copy has written,
is `Stray`, any value. The arrays of a slice have room for eight axes, and when a slice
is transposed over the axes of an owner with more of them than it has itself, what it
holds beyond its own is looked at: zeros for the slices the code clears, anything
(`Leftovers`) for the temporary slice of `copy_data_to_temp`.

`ArrayViews` knows no addresses and strides: a view gives a cell for every index
tuple, indexing selects positions as Python does (`Bound` clamps as `slice.indices`), an
assignment reads all values before it writes any and puts them where Python's would, and
what a view tells (`told`: length, size, bytes, contiguity) is true of its cells. The
refinement mapping (`Views`, `Tells`) computes the cell of an index tuple by walking
strides and pointers, as `pybuffer_index` does. The abstract views also carry which axes
follow no pointer, because some of what the code refuses depends on that (section 3).

The code departs from that promise in two ways, and callers keep to the limits named in
the constant `Limits`, which are guards of `Make` and `Write`:

- `"slices"` (`AsPython`): no slice ends before its start by less than a step, and none that
  walks backwards has a bound before the axis;
- `"ranks"` (`OwnRanks`): when the destination of an assignment is best copied in Fortran
  order, both slices have as many axes as the objects they were cut from.

Neither limit can be left out: with `Limits = {"ranks"}` in `MCMemoryViews.cfg`, TLC finds
`TypeOK` violated by `v[3:2:2]` of three items, and with `Limits = {"slices"}` it finds
`ImplementsArrayViews` violated by an assignment to the 3-D buffer (section 3). The
extension's own functions cut and assign no views, and keep to both.

Items are numbers of one size; axes that follow pointers occur in a read-only
buffer, since the code does not look at the suboffsets of a destination.

## 3. Runs

| Run | Asks | Bounds |
| --- | --- | --- |
| `stage_transaction` | is a commit atomic under errors and kills, and does a retry succeed | marker and two other names (one of them optional), four versions, two faults: one fault in the commit and one in its error path |
| `atomic_replace` | is replacing a file atomic, is its result true | four calls of either function, three faults: a failing rename, its failing restore, and a kill later |
| `pipeline` | does anything stale survive, are report and status true, is the order kept, does resume finish | two patches, two arbitrary runs and any number of resumes, one fault anywhere |
| `stage6_keeps_scla2` | documented promise, refuted | one patch, no faults |
| `cut_bundle_is_skipped` | documented promise, refuted | one patch, one run, one fault |
| `stage6_solve` | whole results, limits kept, kept checkpoints, no deadlock, convergence | two inputs with different solve sets, one just within the cell budget and one whose cell count exceeds `usize`; four interferograms of which three or two are solved; pools of one and of six threads (one and two concurrent solves); two faults, one change of the input |
| `stage6_caches` | one input, no blocking, convergence | two inputs, two changes, two faults, one damaged file |
| `flow_optimizer` | do residues stay away, do trees stay trees, is every increment a gain in spite of batches, does it end, in an optimum | three by three cells, 108 interferograms, some without the last cell: 72 of measured edges, 36 with noisy ones; each taken as a small and as a large graph (`ExactNodes` of 5 and 2), batches of three, windows of one plaquette, two cycles per pass; 8,751 states |
| `flow_endless` | documented promise, refuted | two by three cells, one interferogram |
| `native_call` | do calls end as if alone, is everything given back, does every call end | two threads with one call each, ten pairs of calls (a second worker, a row outside the grid, arrays that do not suit, products that wrap, delegation, keywords that do not match), ints of -4 to 3, a pool of two locks, one failure anywhere |
| `native_call_nan` | the repository's test of the histogram, refuted | two threads, the samples and centres of that test, no failure |
| `native_views` | do views show and assign what Python's indexing says, and stay in memory | five buffers of three to eight items (a writable 3-D one in Fortran order and one of rows behind pointers among them), eight indices (full, from the end, reversed, cut at both ends, numbers, out of range, and `v[3:2:2]`, which `"slices"` excludes for three items), three views, one write, both limits; 5,586 states |

*Why the bounds are enough.* Versions and inputs are only compared for
equality, so that two suffice to mix them, and the others of
`stage_transaction` leave debris of a version that is neither old nor new. Two patches are the fewest in which
one patch is done and another is not. Faults interact in pairs (a failure and
the failure of its handler; a kill and another kill of the retry), which is why
most runs allow two; `pipeline` allows one because the second run and the
resumes already act on what the first left, and so does `native_call`, where a
call ends at its first failure. Three solves give a batch
of two followed by another batch. Three by three cells have cycles that are not just two
ways across one border, several windows and batches in which a later cycle is no longer
negative; several pushes of one cycle and cycles that only the search finds occur there
too. Two threads are the fewest that race for the
import, the loader's global and the parallel region. Three views are a view of a
view beside the first, so that all pairs of source and destination, overlapping
ones included, occur; two by two items differ in every order, and the 3-D buffer
has an axis of extent one in the middle. A second write would act on memory that
only differs in which items are where. The proofs below remove the bounds for the
properties they cover.

*Every property has a mutant*: an operator next to the definition it replaces,
with a comment `Mutant:` that names the plausible bug, under which the run finds
the property violated.

### Where the documents and the code disagree

1. `stage6_keeps_scla2`: a merged Stage 6 rerun keeps `scla2.mat`, the
   completion artifact of Stage 7, because `invalidation.rs` files it under
   group 6; `docs/architecture.md` says that downstream products are
   invalidated "so an old success marker cannot survive changed upstream data".
   The comment in `invalidation.rs` shows that the estimate is kept on purpose
   for the next iteration; the effect on a later resume, which skips Stage 7, is
   what the document does not say. `TrustedMarkersAreFresh` shows that this is
   the only exception: Stages 1-6 never keep a stale marker.
2. `cut_bundle_is_skipped`: `remove_products` deletes `ps2.mat` before the
   marker of the same bundle. A kill or an error in between leaves a marker over
   an incomplete bundle, which resume mode reports as `skipped_existing`,
   described as "a complete stage". `ReportIsTrue` in `pipeline` shows that
   nothing else leads there.

3. `flow_endless`: `stage6_max_flow_passes: 0` is said to let the flow optimizer
   converge. Beside noisy edges (above 1.3 rad, whose price has a shelf) the
   phases of increment 1 and 2 can undo each other for ever: each counts as
   progress, and the objective returns to its minimum, so that neither exit of
   the loop is taken. Of random interferograms of this size with noisy edges
   about one in a thousand does it. `flow_optimizer` ends on each of its interferograms,
   those with noisy edges included.

4. `native_call_nan`: `histogram_with_centers` in `_stage2_native.c` counts a NaN in the
   last bin (line 23089: `value != value`). `tests/test_kernels_accelerated.py:1335`
   demands `[1.0, 2.0, 1.0]` of the native backend for four numbers and a NaN, where this
   file gives 1, 2, 2; `_stage2_native.pyx` and the Python fallback in `accelerated.py`
   leave the NaN out. The committed C file is older than the `.pyx`. It also counts
   infinities in the outer bins, which are left out of the model.

What the memoryview type does outside the two limits of `Limits` is wrong as an array, and
no run is kept for it:

- `slice_memviewslice` truncates the quotient of a slice's length and its step and adds one
  for any remainder (lines 12559-12624). A slice that ends before its start by less than a
  step, such as `v[3:2:2]` or `v[0:1:-2]`, then has one item where Python has none;
  `v[3:2:2]` of three items has it behind the last one.
- A bound below zero is moved to zero also when the slice walks backwards (lines 12279 and
  12459), where Python moves it to minus one: `v[2:-9:-1]` of three items shows two of them.
  `"slices"` leaves out both.
- `memoryview_copy_contents` transposes source and destination before it copies in Fortran
  order (lines 16188-16212), and `transpose_memslice` exchanges as many axes as the owner of
  the slice has (line 13162). With `v` of shape 2 x 1 x 2 and `w = v[..., -1].T`, assigning
  `w` to `v[...]` pairs axes that do not correspond and leaves 2, 3, 2, 3 where 2, 2, 3, 3
  was assigned. In other cases the assignment is refused because of what lies behind the
  axes of a slice. `"ranks"` leaves out all of it, and with it some assignments that go right.

Some of what the type accepts or refuses differs from Python's arrays without a
document that says otherwise; `ArrayViews` says it as the code does. A tuple with two
"..." or with too many items may be read as any choice of its items (`Readings`); a view
without axes cannot be sliced, not even by `v[...,]`; filling a slice with a number
needs every axis of the view itself to be direct; a transpose of a view that follows
pointers may be refused.

The search of the flow optimizer has a limit of its own, which no document denies: it does not go
straight back over an edge, whatever other way there is to its tail, and beside
noisy edges it can so end a phase although a negative cycle is left. No flow is
wrong then, only dearer; `ConvergedIsOptimal` is checked for small graphs of measured
edges.

## 4. Fairness

- `StageTransaction`: weak fairness of the steps of a commit (straight-line code
  that only stops by a kill) and of a retry, as the user runs the stage again.
  Faults are bounded, which is the assumption behind "in the end".
- `Pipeline`: weak fairness of `RunStep` for the same reason, and of
  `StartResume` as long as the dataset is incomplete.
- `Stage6Solve`: weak fairness of `RunStep`. Any step that is enabled is some
  thread's next one, and fairness only asks that one of them happens, which
  holds of threads that are not starved all together. A blocked caller, or a
  task without a free thread, contributes no enabled step, so that a deadlock
  would show as a run that does not end. Weak fairness of `Start` while the
  current input has no published result is the user's.
- `Stage6Caches`: as `Stage6Solve`.
- `FlowOptimizer`: the code is one sequential loop that runs until it is done.
  `Runs` says so without naming the actions; TLC's check for deadlock shows that
  one of them is enabled until then, so this is the weak fairness of `Next`.

- `NativeCall`: weak fairness of `Next`. The program does not stop while some thread
  can go on; that each thread gets its turn is not assumed and, as a call takes
  finitely many steps, not needed.

`CHECK_DEADLOCK FALSE` is set where the calls are bounded by the set of
versions: `stage_transaction` and `atomic_replace` stop when each was used; in
`native_call`, where every caller makes one call; and in `native_views`, where
the number of views and of writes is bounded. That no thread of `native_call`
waits for ever is `EveryCallEnds`.

## 5. Theorems

All are proved for arbitrary constants under the named assumptions
(`BundleAssumption`, `ReplaceAssumption`, `UsizeAssumption`,
`SolveAssumption`, `ValuesAssumption`, `CachesAssumption`, `FilesAssumption`,
`GridAssumption`, `PipelineAssumption`, `AtomicsAssumption`,
`PoolSizeAssumption`, `IntLimitAssumption`, `MaxFaultsAssumption`,
`PlansAssumption`, `ArraysAssumption`, `ArgumentsAssumption`, `ResidualAssumption`,
`OptimizerAssumption`, `InputsAssumption`, `ItemSizeAssumption`, `ExportsAssumption`,
`IndicesAssumption`, `OtherAssumptions`), which only say that special values
differ from ordinary ones, that bounds are naturals, of the extension, that
calls name functions and arrays there are, each keyword once, that arrays have natural
extents and numpy's formats, and what section 3 says of the arguments, of the
optimizer, that phases and costs are integers, and of views, that a buffer lies in
memory whose items do not overlap and that an index is "..." or a tuple of numbers,
slices and "...".

The theorems of `MemoryViewsProofs` have hypotheses beside. `StartsDirect`: no
axis of the buffer follows a pointer. The arrays the extension is called with have
none, and behind pointers a transpose and a copy of a view promise less; these are
left to `native_views`, four of whose five buffers are direct. `"slices" \in Limits`,
and for `ViewsAreArrays` `"ranks" \in Limits` too: without them the theorems would be
false, by the counterexamples of section 3. `CallsArePure` has the
hypothesis `NumbersOnly`, that no sample given to the histogram is a NaN, without which it would be
false, as `native_call_nan` shows.

| Module | Theorem | Property |
| --- | --- | --- |
| `StageTransactionProofs` | `TypeCorrect`, `BundlesStayWhole`, `VersionsNeverMix`, `NoOldFileIsLost`, `ErrorsAreSafe`, `CommitIsAtomic` | `TypeOK`, `MarkerVouchesForBundle`, `NeverMixed`, `OldFilesRecoverable`, `ErrorRestoresOrKeepsStaging`, `ImplementsAtomicBundle` |
| `AtomicReplaceProofs` | `TypeCorrect`, `ResultsAreTrue`, `ReplacementIsAtomic` | `TypeOK`, `ResultIsTrue`, `ImplementsAtomicFile` |
| `Stage6SolveProofs` | `TypeCorrect`, `OnlyWholeResultsArePublished`, `PeersKeepTheirCheckpoints`, `CheckpointsAreOfUse`, `SolvesAreLimited` | `TypeOK`, `PublishedIsWhole`, `PeersAreCheckpointed`, `CheckpointsSpareWork`, `SolvesFitLimits` |
| `Stage6CachesProofs` | `TypeCorrect`, `OneInputIsSolved`, `OnlyDamageBlocks`, `CompleteCachesSurvive` | `TypeOK`, `SolvesSeeOneInput`, `InterruptionsDoNotBlock`, `CompleteCachesAreKept` |
| `PipelineProofs` | `TypeCorrect`, `MarkersAreFresh`, `ResumeIsOrdered`, `ReportsAreTrue`, `MergedIsBacked` | `TypeOK`, `TrustedMarkersAreFresh`, `ResumeKeepsOrder`, `ReportIsTrue`, `MergedStatusIsBacked` |
| | `RunsStayInScope` | `OnlyDownstreamChanges`, defined there: a step changes the files of the unit of the run and of what is downstream of it, nothing else |
| `NativeCallProofs` | `TypeCorrect`, `BooksAreBalanced` | `TypeOK`, `BooksBalance` |
| | `AdditionsAreKept`, `GridsAreSequential` | `NoLostAddition` and `SequentialGrids`, defined there: what a worker has read is the sum still; the grid returned is the one that a single thread adds up |
| | `CallsArePure` | `ImplementsPureCalls` |
| `FlowOptimizerProofs` | `TypeCorrect`, `TreesSpan`, `PushesLowerPotential`, `ResiduesStayClear` | `TypeOK`, `TreesKeepSpanning`, `PushLowersPotential`, `ResiduesVanish` |
| | `UndoingCostsTheGain` | the price of an increment and of taking it back are opposite |
| `MemoryViewsProofs` | `TypeCorrect`, `ViewsAreArrays` | `TypeOK`, `ImplementsArrayViews` |

The arguments:

- *Transaction.* None of the properties is inductive: that the marker vouches
  for the bundle in the next state depends on where the commit is. The invariant
  says, for each position, which names have been moved so far: while the old
  bundle is backed up, every name is in place or in the backup; while the new
  one is published, what is in place is new and what is staged is the rest; in
  the rollback the reverse. The refinement follows: each step is the atomic
  replacement (the marker's rename), the loss of the bundle, or a stutter.
- *File replacement.* The invariant relates the position to what can be
  recovered: before the publishing rename the old content, after it the new.
- *Limits of concurrent solves.* The product of workers and cells is bounded by the quotient's
  definition; the saturated product is either the true one or exceeds the
  budget, so that the limit is one either way. A batch is at most as large as the
  number of workers, while it is collected.
- *Stage 6 solves.* The invariant says that a column of the grid in memory is
  zero or the solve's own result for the current input, that exactly the columns
  neither missing nor in the batch are filled, and that what was accepted has a
  valid checkpoint.
- *Stage 6 caches.* What a checksum was computed from is always one input and
  the payload of that input, because a cache is only written from payloads the
  run obtained, and those are of the run's input. A file that is accepted
  agrees with its checksum, hence is of the run's input.

- *Sums and searches.* Sums, rounds of a search and walks are defined by recursive
  functions, and an induction over them is a minimal counterexample: a set of
  numbers has a least member (`LeastOf`), a set of finite sets a smallest one
  (`SmallestOf`), both from `WFMin` of the library, which has no operator as a parameter. With them
  a fold exists (`FoldExists`), a sum does not depend on the order in which `CHOOSE` takes its
  elements (`SumRemove`), and changes in some places change a sum by their sum
  (`SumGains`).
- *Potential.* The scaled price is an odd function of the difference of two edge
  costs: it rounds away from zero and saturates alike on both sides. Taking back
  an increment swaps the two costs. So each price is a difference of one
  potential, in either direction (`PotentialRises`, `ArcRaisesPotential`), and a
  cycle that crosses no edge both ways changes the potential by its cost, which
  is negative when it is pushed. That what is pushed is such a cycle is the
  invariant: of a tree cycle because the path misses the edge that closes it,
  of a found cycle because the search only keeps arcs and `IsSaturable` rejects an edge
  crossed twice, and of the later cycles of a batch because they are taken from the same tree.
- *Trees.* A forest is a set of arcs whose ends are apart without the arc, and
  two nodes are apart if a set of nodes that no arc leaves or enters, a cut, separates
  them; unions and symmetric differences of cuts are cuts. This is enough for
  all that trees are used for: the greedy trees are forests (the last arc of a
  way around is the one the order rejects), a forest with one arc less than there are
  nodes spans the graph (each arc goes to its node away from the root, and two
  roots would be left over), the path between two nodes leaves and enters each
  node on it once, and the pivot is a forest again.
- *Residues.* A plaquette is the head of four arcs and the tail of four. A cycle
  has one of each or none, so it changes no residue. The settled nodes of the shortest
  paths are a forest that leads to the root, and when nothing more is reached they are
  closed under the arcs of the graph, hence all nodes of a connected one.
  On the way to the root a charge leaves its own node and enters the root, and passes
  through all others; the charges add up to zero, so the root is cleared as
  well. Later steps keep `SomeTreeSpans` false or the residues zero: a tree is
  pivoted only when it spans the graph already.

- *Runner.* The order in which units are visited, with any number of patches,
  comes first: all that a unit depends on is visited before it. The invariant then
  says that a marker is backed by its bundle and, up to Stage 5, by the
  markers upstream, except for a unit whose marker is about to be removed: while
  `invalidate_downstream` is at work, what it has still to visit, and when the unit
  is computed, nothing. What it removes is compared with what is downstream:
  the two agree, except that Stage 7 is spared when Stage 6 is run again, which
  is why `TrustedMarkersAreFresh` is about Stages 1-6. The attempt also showed
  that two arms of the `CASE` in `InputsPresent` applied to Stage 5 of a patch;
  TLC takes the first, the semantics either, and the definition now asks where
  the unit is before it asks for its stage.
- *Calls of the extension.* The invariant counts: the exports of an array are the
  calls that hold its buffer and the memoryview objects over it; a held buffer or
  view was got in an earlier step of the body, and no body asks for the same
  twice; a lock is its object's own or one in use in the pool, and of one object.
  Taking and returning locks keeps the part in use at the front of the pool.
  Hence what a call has released leaves the count of all others as it was.
- *Parallel region.* The blocks of the static schedule are disjoint and cover
  the columns (lemmas `BlocksApart`, `BlocksCover`), for a team of any size, also
  one with more workers than columns. Workers are in different columns, each goes
  through its own in the order of the rows, and at any moment a sum consists of
  the rows of its cell that its column is through with. So a sum that has been read
  cannot change before it is written, and when all workers are done each sum has
  the rows of its cell, each once and in order. `NoLostAddition` and
  `SequentialGrids` are stated with the proofs.
- *Pure calls.* The larger part needs no state. The promise counts who gives a
  parameter its value, the code fills slots; the two agree (`ArgumentsMatch`), and a
  call that is well is not refused by the wrapper (`WellBinds`). A step of
  a body that does not pass shows why the call need not return
  (`UnfoundIsRefused`), and if all pass the call may (`FoundIsTaken`): a product
  that wraps is caught by numpy or is the true one (`Wraps`). What is returned then is
  promised: rows that grow and are those of a cell are its rows in order
  (`GrowingIsInOrder`); the bisection, whose interval keeps the first midpoint that is
  not below the sample (`HalveKeeps`) and shrinks in each turn, finds it within as many turns as there
  are bins (`SearchFinds`), and as many midpoints are below the sample as come before it,
  since midpoints ascend. The invariant, `PromiseInv`, then says of each caller that
  the steps before its own have passed, what its arrays hold at this step, and why
  a call that is leaving ends as it does. A fault that a caller notices later, a
  failed import that another caller finds as a module that is not cached, needs the faults to be
  counted when they happen, as `PureCalls` does. The attempt corrected the promise: it
  refused a grid exactly when its cells exceed an int, which bare grids belie.

- *Views.* The larger part again needs no state. Sums and products over axes are
  recursive functions, and inductions over them minimal counterexamples; the place of
  an index tuple is a number with the extents as bases, so that the tuples of a shape
  are as many as its product (`TuplesCounted`) and a dense slice has its items one
  behind the other (`DenseItem`). An index: walking the tuple, `unellipsify` has placed,
  after each item, what the specification expands (`PlainListIs`); a slice within the limit
  shows the positions Python names, all on the axis (`SliceShows`), and the slice cut
  axis by axis is the view selected (`SelectIs`). A copy: what each way of copying leaves
  is stated once as `Right`, the destination's items are what the source had; bytes between
  dense slices (`BytesRight`), items (`StridedRight`), both transposed (`TurnedRight`), and
  through the temporary slice, which holds the source's items (`TempHolds`). Slices whose
  intervals of addresses are apart have no item in common (`ApartCells`), so the direct way
  reads nothing it has written. The transposed way needs the owners to have all the
  axes, which `"ranks"` says of every destination that is best copied in Fortran order
  (`NotLoose`). The invariant, `Inv`, is that memory holds items that do not overlap
  and every object a direct slice of it; `TypeOK` alone is not inductive, as an index may be
  entered anywhere. Each operation then maps to the one of the same name, with
  `unellipsify`'s result as the reading and the slice cut as the view. The attempt corrected
  the promise several times: what is refused without axes, the extents of
  slices, and how much of a copy depends on the axes of the owners. The last two are the
  limits.

Only model-checked: the liveness properties (`RetryPublishes`,
`ResumeCompletes`, `EveryRunEnds`, `EventuallyPublished`, `RerunsConverge`,
`Converges`, `EveryCallEnds`), which need fairness and `ENABLED`;
`ConvergedIsOptimal`, which is not true of all costs (section 3) and is checked for small
graphs of measured edges; and the views of buffers whose axes follow pointers.

## 6. Not modelled, and why

- Power loss and unsynced file systems: `docs/native_runtime.md` limits the
  promise to renames on one volume. A kill is a kill of the process.
- Two runs at the same time in one dataset: the code takes no lock and the
  documents do not claim it.
- Fingerprints and checksums are taken to be injective.
- Floating-point kernels: their properties are numeric.
- Codecs, parsing of YAML and of StaMPS text files, command line, bindings and
  the Python reference.
- `max_flow_passes`: modelled as `MaxPasses`, but no run sets it, since
  `config.rs` rejects every positive limit.
- In the extension: the numbers of the topographic fit (`_topofit_row` and its core,
  which the exported functions do not reach), rounding of sums, objects as items of
  views, the buffer a view exports, `repr`, the refusal to pickle, the tables of
  strings, code objects and types, and Cython's support code for tracebacks,
  imports and attribute lookup.
- `accelerated.py` beyond the loader, and the second importer of the extension,
  `prep/mt_prep_backend.py`, which is one more caller of the import.
- Labels (reading them off the deltas, refining them, component shifts, cuts and
  patches): planned, see below.
- The timing report of Stage 6: its failure is a warning and nothing reads it.

## 7. Plan

Done, in this order: `AtomicBundle` and `StageTransaction` with proofs;
`Pipeline`; `Scheduling` and `Stage6Solve` with proofs; `AtomicFile` and
`AtomicReplace` with proofs; `Stage6Caches` with proofs; `UnwrapGrid`,
`ResidualGraph` and `FlowOptimizer`; the extension, `NativeBuffers`, `NativeCall`
with `PureCalls`, and its memoryview type, `MemviewSlices`, `MemviewCopy`,
`MemoryViews` with `ArrayViews`; the proofs of `Pipeline`, of `NativeCall` with
`PureCalls`, of `FlowOptimizer`, and of `MemoryViews` with `ArrayViews`.

Next. The new parts come as further properties of the present runs where they
share a state space (the labels belong to `flow_optimizer`), and the pure
algorithms of point 3 share one run:

1. The labels of Stage 6: `reseed_labels_from_edge_deltas` (independent of the
   walk, by `ResiduesVanish`), `refine_labels`, line shifts, component shifts and
   their cuts (each accepted shift is a gain), absorption into the flow (the
   energy of the labels equals the objective of the flow).
2. `Stage6Run`: `Stage6Caches` and `Stage6Solve` composed under the runner's
   Stage 6, shown to implement the commit `Pipeline` assumes.
3. Configuration (alias precedence and normalisation is idempotent), dataset
   discovery (order, duplicates, pointer files), verifier (pairing is
   symmetric, scientific mode never accepts what its hard cap forbids), SNAP
   patch grid (patches cover the scene, overlaps as configured).
4. Selection and merge bookkeeping of Stages 3-5 (weeding, duplicates between
   patches).
5. An abstract specification of a dataset whose stages complete in order, and
   `Pipeline` shown to implement it.
6. Proofs that are left: views of buffers whose axes follow pointers, and conditions
   on costs under which `ConvergedIsOptimal` holds for every grid.

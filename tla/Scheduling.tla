----------------------------- MODULE Scheduling -----------------------------
(***************************************************************************)
(* crates/rustamps-pipeline/src/native/stage6/schedule.rs: how many        *)
(* interferograms Stage 6 solves at the same time.                         *)
(***************************************************************************)
EXTENDS Naturals

CONSTANT UsizeMax   \* the largest usize

AUTO_MAX_IFG_WORKERS == 4
THREADS_PER_ACTIVE_SOLVE == 3
TOTAL_ACTIVE_CELL_BUDGET == 9000000

ASSUME UsizeAssumption ==
    /\ UsizeMax \in Nat
    /\ UsizeMax >= TOTAL_ACTIVE_CELL_BUDGET

AtLeastOne(n) == IF n = 0 THEN 1 ELSE n
Lesser(m, n) == IF m <= n THEN m ELSE n

RequestedLimit(requested) ==
    IF requested = 0 THEN AUTO_MAX_IFG_WORKERS ELSE Lesser(requested, AUTO_MAX_IFG_WORKERS)

WorkerLimit(rayon) == AtLeastOne(AtLeastOne(rayon) \div THREADS_PER_ACTIVE_SOLVE)

\* Mutant: the product wraps around instead of being checked.
CellsWrapping(rows, cols) == AtLeastOne((rows * cols) % (UsizeMax + 1))

\* rows.checked_mul(cols).unwrap_or(usize::MAX).max(1)
Cells(rows, cols) == AtLeastOne(Lesser(rows * cols, UsizeMax))

MemoryLimit(rows, cols) == AtLeastOne(TOTAL_ACTIVE_CELL_BUDGET \div Cells(rows, cols))

\* Mutant: no limit by the threads of the pool.
WorkersForAnyPool(requested, rayon, rows, cols, count) ==
    IF count = 0 THEN 0
    ELSE Lesser(RequestedLimit(requested), Lesser(MemoryLimit(rows, cols), count))

\* choose_for_rayon: effective_ifg_workers
Workers(requested, rayon, rows, cols, count) ==
    IF count = 0 THEN 0
    ELSE Lesser(Lesser(RequestedLimit(requested), WorkerLimit(rayon)),
                Lesser(MemoryLimit(rows, cols), count))
=============================================================================

-------------------------- MODULE Stage6SolveProofs --------------------------
(***************************************************************************)
(* Theorems of Stage6Solve, for any inputs, solve sets, pools and number   *)
(* of failures.                                                            *)
(***************************************************************************)
EXTENDS Stage6Solve, FiniteSetTheorems, TLAPS

-----------------------------------------------------------------------------
(* What choose_for_rayon returns, for every width of usize.                *)

\* The quotient of a division rounded down, times the divisor, fits in the
\* dividend.
LEMMA QuotientFits ==
    ASSUME NEW a \in Nat, NEW b \in Nat, b > 0
    PROVE  /\ a \div b \in Nat
           /\ (a \div b) * b <= a
  BY SMT

\* A product grows with its factors.
LEMMA ProductGrows ==
    ASSUME NEW m \in Nat, NEW n \in Nat, NEW k \in Nat, m <= n
    PROVE  m * k <= n * k
  BY SMT

\* Several workers fit the budget: their number times the cells of one grid.
LEMMA MemoryLimitFits ==
    ASSUME NEW rows \in Nat, NEW cols \in Nat, MemoryLimit(rows, cols) > 1
    PROVE  /\ MemoryLimit(rows, cols) \in Nat
           /\ MemoryLimit(rows, cols) * (rows * cols) <= TOTAL_ACTIVE_CELL_BUDGET
<1> DEFINE cells == Cells(rows, cols)
           quotient == TOTAL_ACTIVE_CELL_BUDGET \div cells
<1>1. rows * cols \in Nat
  BY SMT
<1>2. cells \in Nat /\ cells > 0
  BY <1>1, UsizeAssumption DEF Cells, AtLeastOne, Lesser
<1>3. quotient \in Nat /\ quotient * cells <= TOTAL_ACTIVE_CELL_BUDGET
  BY <1>2, QuotientFits DEF TOTAL_ACTIVE_CELL_BUDGET
<1>4. MemoryLimit(rows, cols) = quotient /\ quotient > 1
  BY <1>3 DEF MemoryLimit, AtLeastOne
<1>5. rows * cols <= cells
  <2>1. SUFFICES ASSUME rows * cols > UsizeMax PROVE FALSE
    BY <1>1, UsizeAssumption DEF Cells, AtLeastOne, Lesser
  <2>2. cells = UsizeMax
    BY <2>1, <1>1, UsizeAssumption DEF Cells, AtLeastOne, Lesser, TOTAL_ACTIVE_CELL_BUDGET
  <2>3. 2 * cells <= quotient * cells
    BY <1>2, <1>3, <1>4, ProductGrows
  <2> QED
    BY <1>2, <1>3, <2>2, <2>3, UsizeAssumption DEF TOTAL_ACTIVE_CELL_BUDGET
<1>6. quotient * (rows * cols) <= quotient * cells
  BY <1>1, <1>2, <1>3, <1>5
<1> QED
  BY <1>1, <1>2, <1>3, <1>4, <1>6 DEF TOTAL_ACTIVE_CELL_BUDGET

\* Several workers have three threads of the pool each.
LEMMA WorkerLimitFits ==
    ASSUME NEW rayon \in Nat, WorkerLimit(rayon) > 1
    PROVE  /\ WorkerLimit(rayon) \in Nat
           /\ WorkerLimit(rayon) * THREADS_PER_ACTIVE_SOLVE <= rayon
  BY QuotientFits DEF WorkerLimit, AtLeastOne, THREADS_PER_ACTIVE_SOLVE

LEMMA LimitsArePositive ==
    ASSUME NEW requested \in Nat, NEW rayon \in Nat, NEW rows \in Nat, NEW cols \in Nat
    PROVE  /\ RequestedLimit(requested) \in Nat \ {0}
           /\ requested > 0 => RequestedLimit(requested) <= requested
           /\ WorkerLimit(rayon) \in Nat \ {0}
           /\ MemoryLimit(rows, cols) \in Nat \ {0}
<1>1. /\ RequestedLimit(requested) \in Nat \ {0}
      /\ requested > 0 => RequestedLimit(requested) <= requested
  BY DEF RequestedLimit, Lesser, AUTO_MAX_IFG_WORKERS
<1>2. WorkerLimit(rayon) \in Nat \ {0}
  BY QuotientFits DEF WorkerLimit, AtLeastOne, THREADS_PER_ACTIVE_SOLVE
<1>3. rows * cols \in Nat
  BY SMT
<1>4. Cells(rows, cols) \in Nat /\ Cells(rows, cols) > 0
  BY <1>3, UsizeAssumption DEF Cells, AtLeastOne, Lesser
<1>5. MemoryLimit(rows, cols) \in Nat \ {0}
  BY <1>4, QuotientFits DEF MemoryLimit, AtLeastOne, TOTAL_ACTIVE_CELL_BUDGET
<1> QED
  BY <1>1, <1>2, <1>5

\* What one call of choose_for_rayon returns.
LEMMA WorkersFit ==
    ASSUME NEW requested \in Nat, NEW rayon \in Nat, NEW rows \in Nat, NEW cols \in Nat,
           NEW count \in Nat, NEW w,
           w = Workers(requested, rayon, rows, cols, count)
    PROVE  /\ w \in Nat
           /\ w > 1 => w * rows * cols <= TOTAL_ACTIVE_CELL_BUDGET
           /\ w > 1 => w * THREADS_PER_ACTIVE_SOLVE <= rayon
           /\ count > 0 => w \in 1..count
           /\ requested > 0 => w <= requested
<1>1. CASE count = 0
  BY <1>1 DEF Workers
<1>2. CASE count # 0
  <2>0. /\ RequestedLimit(requested) \in Nat \ {0}
        /\ requested > 0 => RequestedLimit(requested) <= requested
        /\ WorkerLimit(rayon) \in Nat \ {0}
        /\ MemoryLimit(rows, cols) \in Nat \ {0}
    BY LimitsArePositive
  <2>1. /\ w \in Nat \ {0}
        /\ w <= RequestedLimit(requested)
        /\ w <= WorkerLimit(rayon)
        /\ w <= MemoryLimit(rows, cols)
        /\ w <= count
    BY <1>2, <2>0 DEF Workers, Lesser
  <2>2. ASSUME w > 1 PROVE w * rows * cols <= TOTAL_ACTIVE_CELL_BUDGET
    <3>1. /\ MemoryLimit(rows, cols) \in Nat
          /\ MemoryLimit(rows, cols) * (rows * cols) <= TOTAL_ACTIVE_CELL_BUDGET
      BY <2>0, <2>1, <2>2, MemoryLimitFits
    <3>2. rows * cols \in Nat
      BY SMT
    <3>3. w * (rows * cols) <= MemoryLimit(rows, cols) * (rows * cols)
      BY <2>1, <3>1, <3>2, ProductGrows
    <3>4. w * rows * cols = w * (rows * cols) /\ w * (rows * cols) \in Nat
      BY <2>1
    <3>5. MemoryLimit(rows, cols) * (rows * cols) \in Nat
      BY <3>1, <3>2
    <3> QED
      BY <3>1, <3>3, <3>4, <3>5 DEF TOTAL_ACTIVE_CELL_BUDGET
  <2>3. ASSUME w > 1 PROVE w * THREADS_PER_ACTIVE_SOLVE <= rayon
    <3>1. WorkerLimit(rayon) > 1
      BY <2>0, <2>1, <2>3
    <3>2. WorkerLimit(rayon) * THREADS_PER_ACTIVE_SOLVE <= rayon
      BY <3>1, WorkerLimitFits
    <3> QED
      BY <2>0, <2>1, <3>2 DEF THREADS_PER_ACTIVE_SOLVE
  <2>4. requested > 0 => w <= requested
    BY <2>0, <2>1
  <2> QED
    BY <1>2, <2>1, <2>2, <2>3, <2>4
<1> QED
  BY <1>1, <1>2

-----------------------------------------------------------------------------
(* The inductive invariant: what a run has left to do.                     *)

\* A solve whose result has not reached the grid.
Unfinished == {g \in Batch : job[g] # "accepted"}

\* While a run is going on, missing and the batch divide what is left to do;
\* grid and checkpoints hold exactly the rest.
WorkIsDivided ==
    /\ missing \subseteq Unwrap[input]
    /\ Batch \subseteq Unwrap[input]
    /\ missing \cap Batch = {}
    /\ pc = "run" => Batch = {}
    /\ result = "none"

GridHoldsTheRest ==
    \A g \in Ifgs :
        grid[g] = IF g \in Unwrap[input] \ (missing \cup Unfinished)
                    THEN Solution(input, g)
                    ELSE Zero

CheckpointsHoldTheRest ==
    /\ \A g \in missing \cup Unfinished : ~Valid(input, g)
    /\ \A g \in InState("accepted") : Valid(input, g)

IInv ==
    /\ TypeOK
    /\ PublishedIsWhole
    /\ pc # "idle" => WorkIsDivided /\ GridHoldsTheRest /\ CheckpointsHoldTheRest

-----------------------------------------------------------------------------
LEMMA UnwrapIsIfgs == \A i \in Inputs : Unwrap[i] \subseteq Ifgs
  BY SolveAssumption

LEMMA SolutionIsNoFailure ==
    ASSUME NEW i \in Inputs, NEW g \in Ifgs
    PROVE  /\ Solution(i, g) \in Solutions
           /\ Solution(i, g) \notin {NoFile, Bad, Zero}
  BY ValuesAssumption DEF Solution, Solutions

LEMMA SizesAreNatural ==
    ASSUME NEW s \in SUBSET Ifgs
    PROVE  Cardinality(s) \in Nat
  BY SolveAssumption, FS_Subset, FS_CardinalityType

LEMMA InitEstablishes == Init => IInv
  BY SolveAssumption DEF Init, IInv, TypeOK, PublishedIsWhole, NoJobs, JobStates

LEMMA StartPreserves == IInv /\ Start => IInv'
<1> SUFFICES ASSUME IInv, Start PROVE IInv'
  OBVIOUS
<1> USE UnwrapIsIfgs DEF IInv
<1> DEFINE loaded == {g \in Unwrap[input] : Valid(input, g)}
<1>1. /\ pc' = "run" /\ result' = "none"
      /\ missing' = Unwrap[input] \ loaded
      /\ grid' = [g \in Ifgs |-> IF g \in loaded THEN Solution(input, g) ELSE Zero]
      /\ job' = NoJobs
      /\ UNCHANGED <<input, ckpt, published, faults, changes>>
  BY DEF Start, Load, disk, Valid
<1>2. Batch' = {}
  BY <1>1 DEF Batch, NoJobs
<1>3. workers' \in Nat
  <2>1. missing' \in SUBSET Ifgs
    BY <1>1 DEF TypeOK
  <2>2. Cardinality(missing') \in Nat /\ pool' \in Nat
    BY <2>1, SizesAreNatural, SolveAssumption DEF Start
  <2>3. workers' = Workers(Requested, pool', Rows[input], Cols[input], Cardinality(missing'))
    BY DEF Start, Load
  <2> QED
    BY <2>2, <2>3, WorkersFit, SolveAssumption DEF TypeOK
<1>4. TypeOK'
  <2>1. \A g \in Ifgs : Solution(input, g) \in Solutions
    BY SolutionIsNoFailure DEF TypeOK
  <2> QED
    BY <1>1, <1>3, <2>1 DEF TypeOK, Start, NoJobs, JobStates
<1>5. PublishedIsWhole'
  BY <1>1 DEF PublishedIsWhole
<1>6. WorkIsDivided'
  BY <1>1, <1>2 DEF WorkIsDivided
<1>7. GridHoldsTheRest'
  BY <1>1, <1>2 DEF GridHoldsTheRest, Unfinished, Solution
<1>8. CheckpointsHoldTheRest'
  BY <1>1, <1>2 DEF CheckpointsHoldTheRest, Unfinished, InState, NoJobs, Valid, Solution
<1> QED
  BY <1>4, <1>5, <1>6, <1>7, <1>8

LEMMA BeginBatchPreserves == IInv /\ BeginBatch => IInv'
<1> SUFFICES ASSUME IInv, BeginBatch PROVE IInv'
  OBVIOUS
<1> USE UnwrapIsIfgs DEF IInv
<1>1. PICK b \in SUBSET missing :
         /\ job' = [g \in Ifgs |-> IF g \in b THEN "queued" ELSE "none"]
         /\ missing' = missing \ b
  BY DEF BeginBatch
<1>2. /\ pc = "run" /\ pc' = "collect"
      /\ UNCHANGED <<input, ckpt, published, pool, custom, workers, grid, result, faults, changes>>
  BY DEF BeginBatch, disk, run
<1>3. WorkIsDivided /\ GridHoldsTheRest /\ CheckpointsHoldTheRest
  BY <1>2
<1>4. Batch' = b /\ Unfinished' = b /\ InState("accepted")' = {}
  BY <1>1, <1>3 DEF Batch, Unfinished, InState, TypeOK
<1>5. Unfinished = {}
  BY <1>2, <1>3 DEF WorkIsDivided, Unfinished
<1>6. TypeOK'
  BY <1>1, <1>2 DEF TypeOK, JobStates
<1>7. PublishedIsWhole'
  BY <1>2 DEF PublishedIsWhole
<1>8. WorkIsDivided'
  BY <1>1, <1>2, <1>3, <1>4 DEF WorkIsDivided
<1>9. GridHoldsTheRest'
  BY <1>1, <1>2, <1>3, <1>4, <1>5 DEF GridHoldsTheRest, Solution
<1>10. CheckpointsHoldTheRest'
  BY <1>1, <1>2, <1>3, <1>4, <1>5 DEF CheckpointsHoldTheRest, Valid, Solution
<1> QED
  BY <1>6, <1>7, <1>8, <1>9, <1>10

\* A step of one solve leaves the batch what it is.
LEMMA StepKeepsBatch ==
    ASSUME TypeOK, NEW g \in Ifgs, NEW from, NEW to \in JobStates,
           from # "none", to # "none", Step(g, from, to)
    PROVE  /\ job' \in [Ifgs -> JobStates]
           /\ g \in Batch
           /\ Batch' = Batch
           /\ to # "accepted" /\ from # "accepted" =>
                 Unfinished' = Unfinished /\ InState("accepted")' = InState("accepted")
           /\ to = "accepted" /\ from # "accepted" =>
                 /\ Unfinished' = Unfinished \ {g}
                 /\ InState("accepted")' = InState("accepted") \cup {g}
           /\ from # "accepted" => g \in Unfinished
  BY DEF Step, Batch, Unfinished, InState, TypeOK

\* Steps of a solve that touch neither the grid nor the checkpoints.
LEMMA QuietStepPreserves ==
    ASSUME IInv, NEW g \in Ifgs, NEW from \in JobStates, NEW to \in JobStates,
           {from, to} \cap {"none", "accepted"} = {}, Step(g, from, to),
           faults' \in 0..MaxFaults,
           UNCHANGED <<disk, pc, run, grid, missing, result, changes>>
    PROVE  IInv'
<1> USE DEF IInv
<1>1. /\ UNCHANGED <<input, ckpt, published, pc, pool, custom, workers, grid, missing, result, changes>>
      /\ pc = "collect"
  BY DEF disk, run, Step
<1>2. /\ job' \in [Ifgs -> JobStates] /\ Batch' = Batch
      /\ Unfinished' = Unfinished /\ InState("accepted")' = InState("accepted")
  BY StepKeepsBatch
<1>3. TypeOK'
  BY <1>1, <1>2 DEF TypeOK
<1>4. PublishedIsWhole'
  BY <1>1 DEF PublishedIsWhole
<1>5. WorkIsDivided' /\ GridHoldsTheRest' /\ CheckpointsHoldTheRest'
  BY <1>1, <1>2 DEF WorkIsDivided, GridHoldsTheRest, CheckpointsHoldTheRest, Valid, Solution
<1> QED
  BY <1>3, <1>4, <1>5

LEMMA QuietStepsPreserve ==
    ASSUME IInv, NEW g \in Ifgs,
           StartSolve(g) \/ Solve(g) \/ SolveFails(g) \/ ReceiveError(g)
    PROVE  IInv'
<1>1. faults' \in 0..MaxFaults
  BY SolveAssumption DEF IInv, TypeOK, StartSolve, Solve, SolveFails, ReceiveError, Fault
<1>2. CASE StartSolve(g)
  <2>1. Step(g, "queued", "running")
    BY <1>2 DEF StartSolve
  <2> QED
    BY <1>1, <1>2, <2>1, QuietStepPreserves DEF StartSolve, JobStates
<1>3. CASE Solve(g)
  <2>1. Step(g, "running", "solved")
    BY <1>3 DEF Solve
  <2> QED
    BY <1>1, <1>3, <2>1, QuietStepPreserves DEF Solve, JobStates
<1>4. CASE SolveFails(g) /\ Step(g, "running", "unsolved")
  BY <1>1, <1>4, QuietStepPreserves DEF SolveFails, JobStates
<1>5. CASE SolveFails(g) /\ Step(g, "running", "panicked")
  BY <1>1, <1>5, QuietStepPreserves DEF SolveFails, JobStates
<1>6. CASE ReceiveError(g)
  <2>1. Step(g, "unsolved", "reported")
    BY <1>6 DEF ReceiveError
  <2> QED
    BY <1>1, <1>6, <2>1, QuietStepPreserves DEF ReceiveError, JobStates
<1> QED
  BY <1>2, <1>3, <1>4, <1>5, <1>6 DEF SolveFails

LEMMA AcceptPreserves ==
    ASSUME IInv, NEW g \in Ifgs, Accept(g)
    PROVE  IInv'
<1> USE UnwrapIsIfgs DEF IInv
<1>1. /\ UNCHANGED <<input, published, pc, pool, custom, workers, missing, result, faults, changes>>
      /\ ckpt' = [ckpt EXCEPT ![input][g] = Solution(input, g)]
      /\ grid' = [grid EXCEPT ![g] = Solution(input, g)]
      /\ Step(g, "solved", "accepted") /\ pc = "collect"
  BY DEF Accept, run, Step
<1>2. /\ job' \in [Ifgs -> JobStates] /\ Batch' = Batch /\ g \in Batch
      /\ Unfinished' = Unfinished \ {g} /\ g \in Unfinished
      /\ InState("accepted")' = InState("accepted") \cup {g}
  BY <1>1, StepKeepsBatch DEF JobStates
<1>3. WorkIsDivided /\ GridHoldsTheRest /\ CheckpointsHoldTheRest
  BY <1>1
<1>4. TypeOK'
  BY <1>1, <1>2, SolutionIsNoFailure DEF TypeOK
<1>5. PublishedIsWhole'
  BY <1>1 DEF PublishedIsWhole
<1>6. WorkIsDivided'
  BY <1>1, <1>2, <1>3 DEF WorkIsDivided
<1>7. g \in Unwrap[input] /\ g \notin missing
  BY <1>2, <1>3 DEF WorkIsDivided
<1>8. GridHoldsTheRest'
  BY <1>1, <1>2, <1>3, <1>7 DEF GridHoldsTheRest, Solution, TypeOK
<1>9. \A h \in Ifgs : Valid(input, h)' <=> (h = g \/ Valid(input, h))
  BY <1>1 DEF Valid, Solution, TypeOK
<1>10. CheckpointsHoldTheRest'
  BY <1>1, <1>2, <1>3, <1>7, <1>9 DEF CheckpointsHoldTheRest, TypeOK, Unfinished, Batch, InState
<1> QED
  BY <1>4, <1>5, <1>6, <1>8, <1>10

LEMMA AcceptFailsPreserves ==
    ASSUME IInv, NEW g \in Ifgs, AcceptFails(g)
    PROVE  IInv'
<1> USE UnwrapIsIfgs DEF IInv
<1>1. PICK c \in {ckpt[input][g], NoFile} : ckpt' = [ckpt EXCEPT ![input][g] = c]
  BY DEF AcceptFails
<1>2. /\ UNCHANGED <<input, published, pc, pool, custom, workers, grid, missing, result, changes>>
      /\ Step(g, "solved", "rejected") /\ pc = "collect"
      /\ faults' \in 0..MaxFaults
  BY SolveAssumption DEF AcceptFails, run, Step, Fault, TypeOK
<1>3. /\ job' \in [Ifgs -> JobStates] /\ Batch' = Batch /\ g \in Batch
      /\ Unfinished' = Unfinished /\ InState("accepted")' = InState("accepted")
      /\ g \in Unfinished
  BY <1>2, StepKeepsBatch DEF JobStates
<1>4. WorkIsDivided /\ GridHoldsTheRest /\ CheckpointsHoldTheRest
  BY <1>2
<1>5. TypeOK'
  BY <1>1, <1>2, <1>3 DEF TypeOK
<1>6. PublishedIsWhole'
  BY <1>2 DEF PublishedIsWhole
<1>7. WorkIsDivided' /\ GridHoldsTheRest'
  BY <1>2, <1>3, <1>4 DEF WorkIsDivided, GridHoldsTheRest, Solution
<1>8. ~Valid(input, g)
  BY <1>3, <1>4 DEF CheckpointsHoldTheRest
<1>9. \A h \in Ifgs : Valid(input, h)' <=> Valid(input, h)
  BY <1>1, <1>2, <1>8, SolutionIsNoFailure DEF Valid, Solution, TypeOK
<1>10. CheckpointsHoldTheRest'
  BY <1>2, <1>3, <1>4, <1>9 DEF CheckpointsHoldTheRest, TypeOK, Unfinished, Batch, InState
<1> QED
  BY <1>5, <1>6, <1>7, <1>10

LEMMA EndBatchPreserves == IInv /\ EndBatch => IInv'
<1> SUFFICES ASSUME IInv, EndBatch PROVE IInv'
  OBVIOUS
<1> USE DEF IInv
<1>1. /\ UNCHANGED <<input, ckpt, published, pool, custom, workers, grid, missing, result, faults, changes>>
      /\ pc = "collect" /\ pc' = "run" /\ job' = NoJobs
  BY DEF EndBatch, disk, run
<1>2. Batch' = {} /\ Unfinished' = {} /\ InState("accepted")' = {}
  BY <1>1 DEF Batch, Unfinished, InState, NoJobs
<1>3. Unfinished = {}
  BY DEF EndBatch, Received, BatchFailed, Unfinished, Batch
<1>4. WorkIsDivided /\ GridHoldsTheRest /\ CheckpointsHoldTheRest
  BY <1>1
<1>5. TypeOK'
  BY <1>1 DEF TypeOK, NoJobs, JobStates
<1>6. PublishedIsWhole'
  BY <1>1 DEF PublishedIsWhole
<1>7. WorkIsDivided' /\ GridHoldsTheRest' /\ CheckpointsHoldTheRest'
  BY <1>1, <1>2, <1>3, <1>4 DEF WorkIsDivided, GridHoldsTheRest, CheckpointsHoldTheRest, Valid, Solution
<1> QED
  BY <1>5, <1>6, <1>7

\* What a run about to publish has in its grid.
LEMMA OutputIsWhole ==
    ASSUME IInv, pc = "run", missing = {}
    PROVE  /\ Output \in [input : Inputs, phase : [Ifgs -> Solutions \cup {Zero}]]
           /\ \A g \in Ifgs : Output.phase[g] = IF g \in Unwrap[Output.input]
                                                THEN Solution(Output.input, g)
                                                ELSE Zero
<1>1. WorkIsDivided /\ GridHoldsTheRest
  BY DEF IInv
<1>2. Unfinished = {}
  BY <1>1 DEF WorkIsDivided, Unfinished
<1> QED
  BY <1>1, <1>2 DEF IInv, Output, GridHoldsTheRest, TypeOK

LEMMA RunEndsPreserves ==
    ASSUME IInv, Publish \/ PublishFails \/ Killed \/ EndBatchFails
    PROVE  IInv'
<1>1. /\ pc' = "idle"
      /\ UNCHANGED <<input, pool, custom, workers, grid, missing, job, changes>>
      /\ result' \in {"published", "failed", "panicked", "killed"}
      /\ faults' \in 0..MaxFaults
  BY SolveAssumption DEF Publish, PublishFails, Killed, EndBatchFails, IInv, TypeOK, disk, run, memory, Fault
<1>2. published' = published \/ published' = Nothing \/ (published' = Output /\ pc = "run" /\ missing = {})
  BY DEF Publish, PublishFails, Killed, EndBatchFails, disk
<1>3. ckpt' \in [Inputs -> [Ifgs -> Solutions \cup {NoFile, Bad}]]
  <2>1. ckpt \in [Inputs -> [Ifgs -> Solutions \cup {NoFile, Bad}]] /\ input \in Inputs
    BY DEF IInv, TypeOK
  <2>2. ckpt' = ckpt \/ \E g \in Ifgs : ckpt' = [ckpt EXCEPT ![input][g] = NoFile]
    BY DEF Publish, PublishFails, Killed, EndBatchFails, disk, InState
  <2> QED
    BY <2>1, <2>2
<1>4. PublishedIsWhole' /\ published' \in [input : Inputs, phase : [Ifgs -> Solutions \cup {Zero}]] \cup {Nothing}
  <2>1. CASE published' = published
    BY <2>1 DEF IInv, TypeOK, PublishedIsWhole
  <2>2. CASE published' = Nothing
    BY <2>2 DEF PublishedIsWhole
  <2>3. CASE published' = Output /\ pc = "run" /\ missing = {}
    BY <2>3, OutputIsWhole DEF PublishedIsWhole
  <2> QED
    BY <1>2, <2>1, <2>2, <2>3
<1>5. TypeOK'
  BY <1>1, <1>3, <1>4 DEF IInv, TypeOK
<1> QED
  BY <1>1, <1>4, <1>5 DEF IInv

LEMMA IdleStepsPreserve ==
    ASSUME IInv, ChangeInput \/ Tamper
    PROVE  IInv'
<1>1. CASE ChangeInput
  BY <1>1, SolveAssumption DEF ChangeInput, IInv, TypeOK, PublishedIsWhole, run, memory
<1>2. CASE Tamper
  <2>1. PICK i \in Inputs, g \in Ifgs, c \in {NoFile, Bad} \cup Solutions :
           ckpt' = [ckpt EXCEPT ![i][g] = c]
    BY <1>2, UnwrapIsIfgs DEF Tamper
  <2>2. /\ pc = "idle"
        /\ UNCHANGED <<input, published, pc, pool, custom, workers, grid, missing, job, result, changes>>
        /\ faults' \in 0..MaxFaults
    BY <1>2, SolveAssumption DEF Tamper, IInv, TypeOK, Fault, run, memory
  <2> QED
    BY <2>1, <2>2, UnwrapIsIfgs DEF IInv, TypeOK, PublishedIsWhole
<1> QED
  BY <1>1, <1>2

LEMMA NextPreserves == IInv /\ [Next]_vars => IInv'
<1> SUFFICES ASSUME IInv, [Next]_vars PROVE IInv'
  OBVIOUS
<1>1. CASE Start
  BY <1>1, StartPreserves
<1>2. CASE BeginBatch
  BY <1>2, BeginBatchPreserves
<1>3. ASSUME NEW g \in Ifgs,
             StartSolve(g) \/ Solve(g) \/ SolveFails(g) \/ ReceiveError(g)
      PROVE  IInv'
  BY <1>3, QuietStepsPreserve
<1>4. ASSUME NEW g \in Ifgs, Accept(g) PROVE IInv'
  BY <1>4, AcceptPreserves
<1>5. ASSUME NEW g \in Ifgs, AcceptFails(g) PROVE IInv'
  BY <1>5, AcceptFailsPreserves
<1>6. CASE EndBatch
  BY <1>6, EndBatchPreserves
<1>7. CASE Publish \/ PublishFails \/ Killed \/ EndBatchFails
  BY <1>7, RunEndsPreserves
<1>8. CASE ChangeInput \/ Tamper
  BY <1>8, IdleStepsPreserve
<1>9. CASE UNCHANGED vars
  BY <1>9 DEF vars, disk, run, memory, IInv, TypeOK, PublishedIsWhole, WorkIsDivided,
              GridHoldsTheRest, CheckpointsHoldTheRest, Batch, Unfinished, InState, Valid, Solution
<1> QED
  BY <1>1, <1>2, <1>3, <1>4, <1>5, <1>6, <1>7, <1>8, <1>9 DEF Next, RunStep

LEMMA IInvHolds == Spec => []IInv
  BY InitEstablishes, NextPreserves, PTL DEF Spec

-----------------------------------------------------------------------------
\* Every reachable state is well typed.
THEOREM TypeCorrect == Spec => []TypeOK
<1>1. IInv => TypeOK
  BY DEF IInv
<1> QED
  BY <1>1, IInvHolds, PTL

\* phuw2.mat is never published with a solve missing, failed or of another
\* input, whatever is killed, damaged or replaced.
THEOREM OnlyWholeResultsArePublished == Spec => []PublishedIsWhole
<1>1. IInv => PublishedIsWhole
  BY DEF IInv
<1> QED
  BY <1>1, IInvHolds, PTL

\* An error or a panic in a batch never costs a peer its checkpoint.
THEOREM PeersKeepTheirCheckpoints == Spec => PeersAreCheckpointed
<1> DEFINE Kept == pc = "collect" /\ result' \in {"failed", "panicked"} =>
                      \A g \in Batch :
                          job[g] \in {"rejected", "reported", "panicked"} \/ Valid(input, g)'
<1>1. IInv /\ [Next]_vars => [Kept]_vars
  <2> SUFFICES ASSUME IInv, Next, pc = "collect", result' \in {"failed", "panicked"},
                      NEW g \in Batch
               PROVE  job[g] \in {"rejected", "reported", "panicked"} \/ Valid(input, g)'
    OBVIOUS
  <2>1. result = "none" /\ CheckpointsHoldTheRest
    BY DEF IInv, WorkIsDivided
  <2>2. EndBatchFails
    BY <2>1 DEF Next, RunStep, ChangeInput, Tamper, Start, Load, BeginBatch, StartSolve, Solve,
                Accept, ReceiveError, EndBatch, Publish, SolveFails, AcceptFails, PublishFails, Killed
  <2>3. job[g] \in {"accepted", "rejected", "reported", "panicked"}
    BY <2>2 DEF EndBatchFails, Received
  <2>4. job[g] = "accepted" => Valid(input, g)
    BY <2>1 DEF CheckpointsHoldTheRest, InState, Batch
  <2>5. Valid(input, g)' <=> Valid(input, g)
    BY <2>2 DEF EndBatchFails, disk, Valid, Solution
  <2> QED
    BY <2>3, <2>4, <2>5
<1> QED
  BY <1>1, IInvHolds, PTL DEF Spec, PeersAreCheckpointed

\* No run loses a valid checkpoint.
LEMMA CheckpointsSurvive ==
    IInv /\ [Next]_vars =>
        [pc # "idle" => \A i \in Inputs : \A g \in Unwrap[i] : Valid(i, g) => Valid(i, g)']_vars
<1> DEFINE Kept == pc # "idle" =>
                      \A i \in Inputs : \A g \in Unwrap[i] : Valid(i, g) => Valid(i, g)'
<1>1. IInv /\ [Next]_vars => [Kept]_vars
  <2> SUFFICES ASSUME IInv, Next, pc # "idle", NEW i \in Inputs, NEW g \in Unwrap[i], Valid(i, g)
               PROVE  Valid(i, g)'
    OBVIOUS
  <2> USE UnwrapIsIfgs DEF IInv
  <2>1. TypeOK /\ CheckpointsHoldTheRest /\ g \in Ifgs
    OBVIOUS
  <2>2. \A h \in Ifgs : job[h] = "solved" => ~Valid(input, h)
    BY <2>1 DEF CheckpointsHoldTheRest, Unfinished, Batch
  <2>3. ASSUME NEW h \in Ifgs, Accept(h) PROVE Valid(i, g)'
    BY <2>1, <2>3 DEF Accept, TypeOK, Valid, Solution
  <2>4. ASSUME NEW h \in Ifgs, NEW c, job[h] = "solved", ckpt' = [ckpt EXCEPT ![input][h] = c]
        PROVE  Valid(i, g)'
    BY <2>1, <2>2, <2>4 DEF TypeOK, Valid, Solution
  <2>5. ASSUME NEW h \in Ifgs, AcceptFails(h) PROVE Valid(i, g)'
    BY <2>4, <2>5 DEF AcceptFails, Step
  <2>6. ASSUME NEW h \in InState("solved"), ckpt' = [ckpt EXCEPT ![input][h] = NoFile]
        PROVE  Valid(i, g)'
    BY <2>4, <2>6 DEF InState
  <2>7. CASE UNCHANGED ckpt
    BY <2>7 DEF Valid, Solution
  <2> QED
    BY <2>3, <2>5, <2>6, <2>7
       DEF Next, RunStep, ChangeInput, Tamper, Start, BeginBatch, StartSolve, Solve, ReceiveError,
           EndBatch, EndBatchFails, Publish, SolveFails, PublishFails, Killed, disk
<1> QED
  BY <1>1

\* No solve is started that has a valid checkpoint.
LEMMA NoSolveIsRepeated ==
    IInv /\ [Next]_vars =>
        [\A g \in Ifgs : job[g] = "queued" /\ job'[g] = "running" => ~Valid(input, g)]_vars
<1> DEFINE Fresh == \A g \in Ifgs :
                       job[g] = "queued" /\ job'[g] = "running" => ~Valid(input, g)
<1>1. IInv /\ [Next]_vars => [Fresh]_vars
  <2> SUFFICES ASSUME IInv, Next, NEW g \in Ifgs, job[g] = "queued", job'[g] = "running"
               PROVE  ~Valid(input, g)
    OBVIOUS
  <2>1. CASE pc # "idle"
    BY <2>1 DEF IInv, CheckpointsHoldTheRest, Unfinished, Batch
  <2>2. CASE pc = "idle"
    BY <2>2 DEF IInv, TypeOK, Next, RunStep, ChangeInput, Tamper, Start, Load, NoJobs, BeginBatch, StartSolve,
                Solve, Accept, ReceiveError, EndBatch, EndBatchFails, Publish, SolveFails,
                AcceptFails, PublishFails, Killed, Step, memory
  <2> QED
    BY <2>1, <2>2
<1> QED
  BY <1>1

\* What is checkpointed is neither lost nor solved again, in any run.
THEOREM CheckpointsAreOfUse == Spec => CheckpointsSpareWork
<1> DEFINE Kept == pc # "idle" =>
                      \A i \in Inputs : \A g \in Unwrap[i] : Valid(i, g) => Valid(i, g)'
           Fresh == \A g \in Ifgs :
                       job[g] = "queued" /\ job'[g] = "running" => ~Valid(input, g)
<1>1. IInv /\ [Next]_vars => [Kept /\ Fresh]_vars
  BY CheckpointsSurvive, NoSolveIsRepeated
<1> QED
  BY <1>1, IInvHolds, PTL DEF Spec, CheckpointsSpareWork

-----------------------------------------------------------------------------
\* A batch is no larger than the number of workers that was chosen.
LimitsAreKept ==
    /\ pc # "idle" => \E count \in Nat :
          workers = Workers(Requested, pool, Rows[input], Cols[input], count)
    /\ pc = "collect" => Cardinality(Batch) <= AtLeastOne(workers)

LEMMA LimitsStayKept == TypeOK /\ LimitsAreKept /\ [Next]_vars => LimitsAreKept'
<1> SUFFICES ASSUME TypeOK, LimitsAreKept, [Next]_vars PROVE LimitsAreKept'
  OBVIOUS
<1>1. CASE Start
  <2>1. missing' \in SUBSET Ifgs /\ pc' = "run" /\ UNCHANGED input
    BY <1>1, UnwrapIsIfgs DEF Start, Load, disk, TypeOK
  <2>2. Cardinality(missing') \in Nat
    BY <2>1, SizesAreNatural
  <2> QED
    BY <1>1, <2>1, <2>2 DEF Start, Load, LimitsAreKept
<1>2. CASE BeginBatch
  <2>1. PICK b \in SUBSET missing :
           IsNextChunk(b) /\ job' = [g \in Ifgs |-> IF g \in b THEN "queued" ELSE "none"]
    BY <1>2 DEF BeginBatch
  <2>2. Batch' = b
    BY <2>1 DEF Batch, TypeOK
  <2>3. Cardinality(missing) \in Nat /\ AtLeastOne(workers) \in Nat
    BY SizesAreNatural DEF TypeOK, AtLeastOne
  <2>4. Cardinality(b) <= AtLeastOne(workers)
    BY <2>1, <2>3 DEF IsNextChunk, Lesser
  <2> QED
    BY <1>2, <2>2, <2>4 DEF BeginBatch, LimitsAreKept, run, disk
<1>3. ASSUME NEW g \in Ifgs, StartSolve(g) \/ Solve(g) \/ Accept(g) \/ ReceiveError(g)
                               \/ SolveFails(g) \/ AcceptFails(g)
      PROVE  LimitsAreKept'
  <2>1. Batch' = Batch
    BY <1>3 DEF TypeOK, StartSolve, Solve, Accept, ReceiveError, SolveFails, AcceptFails,
                Step, Batch
  <2> QED
    BY <1>3, <2>1 DEF StartSolve, Solve, Accept, ReceiveError, SolveFails, AcceptFails,
                      LimitsAreKept, run, disk
<1>4. CASE EndBatch
  BY <1>4 DEF EndBatch, LimitsAreKept, run, disk
<1>5. CASE ChangeInput \/ Tamper \/ EndBatchFails \/ Publish \/ PublishFails \/ Killed
  BY <1>5 DEF ChangeInput, Tamper, EndBatchFails, Publish, PublishFails, Killed, LimitsAreKept
<1>6. CASE UNCHANGED vars
  BY <1>6 DEF vars, disk, run, memory, LimitsAreKept, Batch
<1> QED
  BY <1>1, <1>2, <1>3, <1>4, <1>5, <1>6 DEF Next, RunStep

LEMMA LimitsBoundSolves == TypeOK /\ LimitsAreKept => SolvesFitLimits
<1> DEFINE together == Cardinality(Batch)
           cells == Rows[input] * Cols[input]
<1> SUFFICES ASSUME TypeOK, LimitsAreKept, pc = "collect", together > 1
             PROVE  /\ together * Rows[input] * Cols[input] <= TOTAL_ACTIVE_CELL_BUDGET
                    /\ together * THREADS_PER_ACTIVE_SOLVE <= pool
  BY DEF SolvesFitLimits
<1>1. PICK count \in Nat :
         workers = Workers(Requested, pool, Rows[input], Cols[input], count)
  BY DEF LimitsAreKept
<1>2. Rows[input] \in Nat /\ Cols[input] \in Nat /\ pool \in Nat /\ Requested \in Nat
  BY SolveAssumption DEF TypeOK
<1>3. together \in Nat /\ workers \in Nat
  BY SizesAreNatural DEF TypeOK, Batch
<1>4. workers > 1 /\ together <= workers
  BY <1>3 DEF LimitsAreKept, AtLeastOne
<1>5. workers * Rows[input] * Cols[input] <= TOTAL_ACTIVE_CELL_BUDGET
      /\ workers * THREADS_PER_ACTIVE_SOLVE <= pool
  BY <1>1, <1>2, <1>4, WorkersFit
<1>6. together * cells <= workers * cells
  <2>1. cells \in Nat
    BY <1>2
  <2> QED
    BY <1>3, <1>4, <2>1, ProductGrows
<1>7. /\ together * Rows[input] * Cols[input] = together * cells
      /\ workers * Rows[input] * Cols[input] = workers * cells
      /\ together * cells \in Nat /\ workers * cells \in Nat
  BY <1>2, <1>3
<1> QED
  BY <1>2, <1>3, <1>4, <1>5, <1>6, <1>7
     DEF TOTAL_ACTIVE_CELL_BUDGET, THREADS_PER_ACTIVE_SOLVE

\* Whatever the request, the pool, the grid and the width of usize: concurrent
\* solves fit the budget of active grid cells and have three threads each.
THEOREM SolvesAreLimited == Spec => []SolvesFitLimits
<1>1. Init => LimitsAreKept
  BY DEF Init, LimitsAreKept
<1>2. IInv => TypeOK
  BY DEF IInv
<1> QED
  BY <1>1, <1>2, IInvHolds, LimitsStayKept, LimitsBoundSolves, PTL DEF Spec
=============================================================================

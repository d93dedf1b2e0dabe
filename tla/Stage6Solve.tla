---------------------------- MODULE Stage6Solve -----------------------------
(***************************************************************************)
(* crates/rustamps-pipeline/src/native/stage6: output.rs, solve.rs and     *)
(* solve_checkpoint.rs, the solves of Stage 6.                             *)
(*                                                                         *)
(* A run loads the solve checkpoints that fit its input, solves the rest   *)
(* in batches and publishes uw_phaseuw.mat and phuw2.mat.  A batch of one  *)
(* is solved by the calling thread; a larger one by tasks of a Rayon scope *)
(* (custom pool) or by threads of their own, each sending its result over  *)
(* a channel with room for the whole batch.  The caller receives as many   *)
(* results as the batch has solves, writes a checkpoint for each and keeps *)
(* the first error; with a custom pool it occupies a thread of that pool   *)
(* while it waits.                                                         *)
(*                                                                         *)
(* A solve's result is a record of the input and the interferogram it was  *)
(* computed for; the fingerprint of an input is taken to be its identity.  *)
(* The channel is a set, as the senders are not ordered.  Runs follow each *)
(* other in one directory and may be killed; between them the input may    *)
(* change and checkpoint files may be damaged or replaced.                 *)
(***************************************************************************)
EXTENDS Scheduling, FiniteSets

CONSTANTS
    Inputs,         \* scientific inputs of Stage 6
    Ifgs,           \* columns of the interferogram stack
    Unwrap,         \* Unwrap[i]: input i's solve set, all but the master and
                    \* the dropped interferograms
    Pools,          \* thread counts of the pool
    Requested,      \* stage6_ifg_workers
    Rows, Cols,     \* Rows[i] and Cols[i]: the unwrap grid of input i
    NoFile, Bad,    \* no checkpoint; one that cannot be read or decoded
    Zero,           \* a column that no solve filled
    Nothing,        \* no published result
    MaxFaults,      \* bound on failed, killed and damaged things
    MaxChanges      \* bound on changes of the input

ASSUME SolveAssumption ==
    /\ Ifgs \subseteq Nat /\ IsFiniteSet(Ifgs)
    /\ Unwrap \in [Inputs -> SUBSET Ifgs]
    /\ \A i \in Inputs : Unwrap[i] # {}
    /\ Pools \subseteq Nat /\ 0 \notin Pools
    /\ Requested \in Nat
    /\ Rows \in [Inputs -> Nat] /\ Cols \in [Inputs -> Nat]
    /\ MaxFaults \in Nat /\ MaxChanges \in Nat

Solutions == [input : Inputs, ifg : Ifgs]

ASSUME ValuesAssumption ==
    /\ {NoFile, Bad, Zero} \cap Solutions = {}
    /\ NoFile # Bad

VARIABLES
    input,      \* the scientific input in the directory
    ckpt,       \* ckpt[i][g]: checkpoint file of ifg g in i's namespace
    published,  \* uw_phaseuw.mat and phuw2.mat with the input they are for
    pc,         \* "idle", or the run's position: "run", "collect"
    pool,       \* rayon::current_num_threads()
    custom,     \* the run is inside a pool of its own
    workers,    \* effective_ifg_workers
    grid,       \* grid_phase and selected_msd, by interferogram
    missing,    \* solves of later batches
    job,        \* solves of the current batch
    result,     \* how the last run ended
    faults, changes

disk == <<input, ckpt, published>>
run == <<pool, custom, workers>>
memory == <<grid, missing, job>>
vars == <<disk, pc, run, memory, result, faults, changes>>

Solution(i, g) == [input |-> i, ifg |-> g]

\* A solve waits, runs, and ends: its result or its error is in the channel, or
\* it panicked and sends nothing.  A received result is accepted or, when its
\* checkpoint cannot be written, rejected; a received error is reported.
JobStates == {"none", "queued", "running", "solved", "unsolved", "panicked",
              "accepted", "rejected", "reported"}

TypeOK ==
    /\ input \in Inputs
    /\ ckpt \in [Inputs -> [Ifgs -> Solutions \cup {NoFile, Bad}]]
    /\ published \in [input : Inputs, phase : [Ifgs -> Solutions \cup {Zero}]] \cup {Nothing}
    /\ pc \in {"idle", "run", "collect"}
    /\ pool \in Pools
    /\ custom \in BOOLEAN
    /\ workers \in Nat
    /\ grid \in [Ifgs -> Solutions \cup {Zero}]
    /\ missing \subseteq Ifgs
    /\ job \in [Ifgs -> JobStates]
    /\ result \in {"none", "published", "failed", "panicked", "killed"}
    /\ faults \in 0..MaxFaults
    /\ changes \in 0..MaxChanges

-----------------------------------------------------------------------------
NoJobs == [g \in Ifgs |-> "none"]
Batch == {g \in Ifgs : job[g] # "none"}
InState(s) == {g \in Ifgs : job[g] = s}

\* A checkpoint that solve_checkpoint::load accepts.
Valid(i, g) == ckpt[i][g] = Solution(i, g)

Fault == faults < MaxFaults /\ faults' = faults + 1

Current == published # Nothing /\ published.input = input

\* What write_outputs makes of the grid: the master and the dropped
\* interferograms keep zero columns.
Output == [input |-> input, phase |-> grid]

Init ==
    /\ input \in Inputs
    /\ ckpt = [i \in Inputs |-> [g \in Ifgs |-> NoFile]]
    /\ published = Nothing
    /\ pc = "idle"
    /\ pool \in Pools
    /\ custom \in BOOLEAN
    /\ workers = 0
    /\ grid = [g \in Ifgs |-> Zero]
    /\ missing = {}
    /\ job = NoJobs
    /\ result = "none"
    /\ faults = 0
    /\ changes = 0

-----------------------------------------------------------------------------
\* Between runs: parms.mat or the products of Stages 1-5 change.
ChangeInput ==
    /\ pc = "idle"
    /\ changes < MaxChanges
    /\ changes' = changes + 1
    /\ input' \in Inputs \ {input}
    /\ UNCHANGED <<ckpt, published, pc, run, memory, result, faults>>

\* A checkpoint file is lost, damaged or replaced by one of another solve.
Tamper ==
    /\ pc = "idle" /\ Fault
    /\ \E i \in Inputs : \E g \in Unwrap[i] :
          \E c \in {NoFile, Bad} \cup Solutions :
             ckpt' = [ckpt EXCEPT ![i][g] = c]
    /\ UNCHANGED <<input, published, pc, run, memory, result, changes>>

\* unwrap_and_write: load the checkpoints, choose the number of workers.
Load(loaded) ==
    /\ pc' = "run"
    /\ grid' = [g \in Ifgs |-> IF g \in loaded THEN ckpt[input][g] ELSE Zero]
    /\ missing' = Unwrap[input] \ loaded
    /\ workers' = Workers(Requested, pool', Rows[input], Cols[input], Cardinality(missing'))
    /\ job' = NoJobs
    /\ result' = "none"

\* Mutant: every checkpoint that exists is used.
StartWithAnyCheckpoint ==
    /\ pc = "idle"
    /\ pool' \in Pools
    /\ custom' \in BOOLEAN
    /\ Load({g \in Unwrap[input] : ckpt[input][g] # NoFile})
    /\ UNCHANGED <<disk, faults, changes>>

\* Mutant: a checkpoint that cannot be read is an error.
StartRejectingDamaged ==
    /\ pc = "idle"
    /\ pool' \in Pools
    /\ custom' \in BOOLEAN
    /\ \A g \in Unwrap[input] : ckpt[input][g] \in {NoFile, Solution(input, g)}
    /\ Load({g \in Unwrap[input] : Valid(input, g)})
    /\ UNCHANGED <<disk, faults, changes>>

Start ==
    /\ pc = "idle"
    /\ pool' \in Pools
    /\ custom' \in BOOLEAN
    /\ Load({g \in Unwrap[input] : Valid(input, g)})
    /\ UNCHANGED <<disk, faults, changes>>

\* missing.chunks: the next solves in ascending order.
IsNextChunk(b) ==
    /\ b \subseteq missing
    /\ Cardinality(b) = Lesser(AtLeastOne(workers), Cardinality(missing))
    /\ \A g \in b, h \in missing \ b : g < h

\* run_batch: every solve of the chunk is spawned.
BeginBatch ==
    /\ pc = "run" /\ missing # {}
    /\ \E b \in SUBSET missing :
          /\ IsNextChunk(b)
          /\ job' = [g \in Ifgs |-> IF g \in b THEN "queued" ELSE "none"]
          /\ missing' = missing \ b
    /\ pc' = "collect"
    /\ UNCHANGED <<disk, run, grid, result, faults, changes>>

\* Threads that can run solves while the caller waits for results: the caller
\* itself for a batch of one, the rest of a custom pool, or one thread each.
Threads ==
    IF Cardinality(Batch) = 1 THEN 1
    ELSE IF custom THEN pool - 1
    ELSE Cardinality(Batch)

Step(g, from, to) ==
    /\ pc = "collect"
    /\ job[g] = from
    /\ job' = [job EXCEPT ![g] = to]

StartSolve(g) ==
    /\ Step(g, "queued", "running")
    /\ Cardinality(InState("running")) < Threads
    /\ UNCHANGED <<disk, pc, run, grid, missing, result, faults, changes>>

\* solve_ifg returns and its result is sent; there is always room.
Solve(g) ==
    /\ Step(g, "running", "solved")
    /\ UNCHANGED <<disk, pc, run, grid, missing, result, faults, changes>>

SolveFails(g) ==
    /\ Step(g, "running", "unsolved") \/ Step(g, "running", "panicked")
    /\ Fault
    /\ UNCHANGED <<disk, pc, run, grid, missing, result, changes>>

\* Mutant: all inputs share one directory of checkpoints.
AcceptInOneDirectory(g) ==
    /\ Step(g, "solved", "accepted")
    /\ ckpt' = [i \in Inputs |-> [ckpt[i] EXCEPT ![g] = Solution(input, g)]]
    /\ grid' = [grid EXCEPT ![g] = Solution(input, g)]
    /\ UNCHANGED <<input, published, pc, run, missing, result, faults, changes>>

\* receive_results takes a result: the checkpoint is written, then the result
\* is scattered into the grid.
Accept(g) ==
    /\ Step(g, "solved", "accepted")
    /\ ckpt' = [ckpt EXCEPT ![input][g] = Solution(input, g)]
    /\ grid' = [grid EXCEPT ![g] = Solution(input, g)]
    /\ UNCHANGED <<input, published, pc, run, missing, result, faults, changes>>

\* The checkpoint cannot be written: first_error is set, the old file stays or
\* is lost, the grid is not touched.
AcceptFails(g) ==
    /\ Step(g, "solved", "rejected")
    /\ Fault
    /\ \E c \in {ckpt[input][g], NoFile} : ckpt' = [ckpt EXCEPT ![input][g] = c]
    /\ UNCHANGED <<input, published, pc, run, grid, missing, result, changes>>

ReceiveError(g) ==
    /\ Step(g, "unsolved", "reported")
    /\ UNCHANGED <<disk, pc, run, grid, missing, result, faults, changes>>

BatchFailed == \E g \in Batch : job[g] \in {"rejected", "reported", "panicked"}

\* Mutant: the first error ends the batch.
ReceivedOrFailed ==
    BatchFailed \/ \A g \in Batch : job[g] \in {"accepted", "rejected", "reported", "panicked"}

\* Every result was received, or no sender is left to send one.
Received ==
    \A g \in Batch : job[g] \in {"accepted", "rejected", "reported", "panicked"}

\* Mutant: the error of a batch is dropped as long as a solve succeeded.
EndBatchLenient ==
    /\ pc = "collect" /\ Received
    /\ InState("accepted") # {}
    /\ pc' = "run"
    /\ job' = NoJobs
    /\ UNCHANGED <<disk, run, grid, missing, result, faults, changes>>

EndBatch ==
    /\ pc = "collect" /\ Received
    /\ ~BatchFailed
    /\ pc' = "run"
    /\ job' = NoJobs
    /\ UNCHANGED <<disk, run, grid, missing, result, faults, changes>>

\* The scope rethrows a panic; otherwise the first error is returned and the
\* later batches are not started.
EndBatchFails ==
    /\ pc = "collect" /\ Received
    /\ BatchFailed
    /\ pc' = "idle"
    /\ result' = IF InState("panicked") # {} THEN "panicked" ELSE "failed"
    /\ UNCHANGED <<disk, run, memory, faults, changes>>

\* write_outputs commits both files.
Publish ==
    /\ pc = "run" /\ missing = {}
    /\ published' = Output
    /\ pc' = "idle"
    /\ result' = "published"
    /\ UNCHANGED <<input, ckpt, run, memory, faults, changes>>

\* An interrupted commit leaves the old result, none or the new one.
PublishFails ==
    /\ pc = "run" /\ missing = {}
    /\ Fault
    /\ published' \in {published, Nothing, Output}
    /\ pc' = "idle"
    /\ result' \in {"failed", "killed"}
    /\ UNCHANGED <<input, ckpt, run, memory, changes>>

\* The process dies; a checkpoint being replaced may be gone.
Killed ==
    /\ pc # "idle"
    /\ Fault
    /\ \/ UNCHANGED ckpt
       \/ \E g \in InState("solved") : ckpt' = [ckpt EXCEPT ![input][g] = NoFile]
    /\ pc' = "idle"
    /\ result' = "killed"
    /\ UNCHANGED <<input, published, run, memory, changes>>

RunStep ==
    \/ BeginBatch
    \/ \E g \in Ifgs : StartSolve(g) \/ Solve(g) \/ Accept(g) \/ ReceiveError(g)
    \/ EndBatch
    \/ EndBatchFails
    \/ Publish

Next ==
    \/ ChangeInput
    \/ Tamper
    \/ Start
    \/ RunStep
    \/ \E g \in Ifgs : SolveFails(g) \/ AcceptFails(g)
    \/ PublishFails
    \/ Killed

Spec == Init /\ [][Next]_vars

\* A run goes on by itself; the user runs Stage 6 until its result is there.
FairSpec == Spec /\ WF_vars(RunStep) /\ WF_vars(~Current /\ Start)

-----------------------------------------------------------------------------
\* phuw2.mat, when it is there, holds for every interferogram of the solve set
\* its own solve for the input it was published for, and zero for the master
\* and the dropped ones: no failed, killed, damaged or replaced solve shows.
PublishedIsWhole ==
    published # Nothing =>
        \A g \in Ifgs :
            published.phase[g] = IF g \in Unwrap[published.input]
                                   THEN Solution(published.input, g)
                                   ELSE Zero

\* The error or panic of one solve costs no peer of its batch: when the run
\* ends, every solve that succeeded has its checkpoint, unless writing that
\* very checkpoint failed.
PeersAreCheckpointed ==
    [][pc = "collect" /\ result' \in {"failed", "panicked"} =>
        \A g \in Batch :
            job[g] \in {"rejected", "reported", "panicked"} \/ Valid(input, g)']_vars

\* A run loses no valid checkpoint, neither of its own input nor of another, and
\* solves nothing again that has one.
CheckpointsSpareWork ==
    [][/\ pc # "idle" => \A i \in Inputs : \A g \in Unwrap[i] : Valid(i, g) => Valid(i, g)'
       /\ \A g \in Ifgs : job[g] = "queued" /\ job'[g] = "running" => ~Valid(input, g)]_vars

\* Solves that run together fit in the budget of active grid cells, so that a
\* grid beyond the budget, or one whose cells overflow usize, is solved alone;
\* and three threads of the pool stand behind each.
SolvesFitLimits ==
    LET together == Cardinality(Batch) IN
    pc = "collect" /\ together > 1 =>
        /\ together * Rows[input] * Cols[input] <= TOTAL_ACTIVE_CELL_BUDGET
        /\ together * THREADS_PER_ACTIVE_SOLVE <= pool

\* A run never waits for ever, whatever the pool.
EveryRunEnds == pc # "idle" ~> pc = "idle"

\* Rerunning Stage 6 publishes the result of the current input in the end,
\* whatever was killed, failed or damaged before.
EventuallyPublished == <>[]Current
=============================================================================

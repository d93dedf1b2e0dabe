------------------------------ MODULE Pipeline ------------------------------
(***************************************************************************)
(* crates/rustamps-pipeline: the stage runner (runner.rs), the removal of  *)
(* downstream products before a stage is run again (invalidation.rs) and   *)
(* what each native stage reads and publishes (native/).                   *)
(*                                                                         *)
(* A unit is one stage of one directory: stages 1-5 of every patch,        *)
(* stages 5-8 of the dataset root.  The user starts runs one after the     *)
(* other: a range of stages, or resume mode (start_step 0), which skips a  *)
(* unit whose completion artifact exists.  A run may be killed or hit an   *)
(* I/O error between any two file operations; the files it leaves are the  *)
(* state the next run starts from.                                         *)
(*                                                                         *)
(* Products are grouped by what the code tells apart: "marker" is the      *)
(* completion artifact, "data" the files of the bundle that invalidation   *)
(* removes before it, "more" those it removes after it.  The commit of a   *)
(* bundle is taken from StageTransaction: a whole bundle, or, interrupted, *)
(* files of one version without the marker.                                *)
(***************************************************************************)
EXTENDS Naturals, Sequences, FiniteSets

CONSTANTS
    Patches,        \* the patches in discovery order, a sequence
    Root,           \* the dataset root
    MaxFaults,      \* bound on errors and kills
    MaxRuns         \* bound on runs other than a resume

Dirs == {Patches[i] : i \in DOMAIN Patches}

ASSUME PipelineAssumption ==
    /\ Patches \in Seq(Dirs)
    /\ Patches # <<>>
    /\ Root \notin Dirs
    /\ MaxFaults \in Nat
    /\ MaxRuns \in Nat

Units == [stage : 1..5, at : Dirs] \cup [stage : 5..8, at : {Root}]

\* The files of a unit's bundle.
Kinds(u) ==
    CASE u.stage \in {2, 3, 4, 8} -> {"marker"}
      [] u.stage \in {1, 6}       -> {"data", "marker"}
      [] u.stage \in {5, 7}       -> {"data", "marker", "more"}

VARIABLES
    files,      \* files[u]: the kinds of u's files that exist
    stale,      \* history: u was computed from inputs rewritten since
    cut,        \* history: a removal of downstream products was cut short
    pc,         \* "idle" between runs, otherwise the runner's position
    pos,        \* the unit being visited, an index into Order
    scan,       \* the product being visited by invalidate_downstream
    start, end, \* the requested range; start 0 is resume mode
    dry,        \* dry_run
    status,     \* the report of the running or last run
    faults, runs

vars == <<files, stale, cut, pc, pos, scan, start, end, dry, status, faults, runs>>
disk == <<files, stale>>
request == <<start, end, dry>>

Statuses == {"none", "planned", "completed", "skipped_existing", "failed"}

TypeOK ==
    /\ files \in [Units -> SUBSET {"data", "marker", "more"}]
    /\ \A u \in Units : files[u] \subseteq Kinds(u)
    /\ stale \in [Units -> BOOLEAN]
    /\ cut \in BOOLEAN
    /\ pc \in {"idle", "visit", "invalidate", "execute"}
    /\ dry => pc \in {"idle", "visit"}
    /\ pos \in Nat
    /\ scan \in Nat
    /\ start \in 0..8
    /\ end \in 0..8
    /\ dry \in BOOLEAN
    /\ status \in [Units -> Statuses]
    /\ faults \in 0..MaxFaults
    /\ runs \in 0..MaxRuns

-----------------------------------------------------------------------------
\* The order run_pipeline_inner visits the units in: stage by stage, the
\* patches in discovery order, then the root from stage 5 on.
Order ==
    LET n == Len(Patches) IN
    [i \in 1..(5 * n + 4) |->
        IF i <= 5 * n
          THEN [stage |-> 1 + ((i - 1) \div n), at |-> Patches[1 + ((i - 1) % n)]]
          ELSE [stage |-> 4 + i - 5 * n, at |-> Root]]

InRange(i) == i \in DOMAIN Order /\ Order[i].stage <= end

\* Where a run starting at stage s begins.
FirstOf(s) ==
    IF s <= 1 THEN 1
    ELSE CHOOSE i \in DOMAIN Order :
            /\ Order[i].stage = s
            /\ \A j \in 1..(i - 1) : Order[j].stage < s

\* PATCH_PRODUCTS and ROOT_PRODUCTS: the files invalidation may remove, in the
\* order it removes them, each with its group and the stage that owns it.
PatchProducts == <<
    [group |-> 2, stage |-> 2, kind |-> "marker"],
    [group |-> 3, stage |-> 3, kind |-> "marker"],
    [group |-> 4, stage |-> 4, kind |-> "marker"],
    [group |-> 5, stage |-> 5, kind |-> "data"],     \* ps2
    [group |-> 5, stage |-> 5, kind |-> "marker"],   \* ph2
    [group |-> 5, stage |-> 5, kind |-> "more"]      \* pm2, bp2, rc2, ...
>>

RootProducts == <<
    [group |-> 5, stage |-> 5, kind |-> "data"],     \* ps2 ... inc2
    [group |-> 5, stage |-> 5, kind |-> "marker"],   \* ifgstd2
    [group |-> 5, stage |-> 5, kind |-> "more"],     \* psver
    [group |-> 6, stage |-> 6, kind |-> "data"],     \* uw_phaseuw
    [group |-> 6, stage |-> 6, kind |-> "marker"],   \* phuw2
    [group |-> 6, stage |-> 7, kind |-> "data"],     \* scla_smooth2
    [group |-> 6, stage |-> 7, kind |-> "marker"],   \* scla2.mat
    [group |-> 6, stage |-> 7, kind |-> "more"],     \* scla2.npz
    [group |-> 8, stage |-> 8, kind |-> "marker"]    \* scn2
>>

\* A patch scope scans the patch, then the root; a merged scope the root only.
Products == PatchProducts \o RootProducts
FirstProduct(u) == IF u.at = Root THEN Len(PatchProducts) + 1 ELSE 1

InPatchList(i) == i <= Len(PatchProducts)

\* Mutant: a patch rerun keeps the merged products.
KeepsMerged(u, i) ==
    IF u.at = Root
      THEN Products[i].group > u.stage
      ELSE InPatchList(i) /\ Products[i].group > u.stage

\* should_remove of invalidate_downstream for the product at i.
ShouldRemove(u, i) ==
    IF u.at = Root
      THEN Products[i].group > u.stage
      ELSE InPatchList(i) => Products[i].group > u.stage

\* The unit whose file the product at i is, when u is invalidated.
Owner(u, i) == [stage |-> Products[i].stage, at |-> IF InPatchList(i) THEN u.at ELSE Root]

-----------------------------------------------------------------------------
\* Units whose products depend on u's.  Stage 6 also reads scla_smooth2 of an
\* earlier Stage 7; that feedback is the method's and counts as no dependency.
Downstream(u) ==
    {d \in Units : d.stage > u.stage /\ d.at \in {u.at, Root}}
      \cup {d \in Units : u.at # Root /\ u.stage = 5 /\ d.stage = 5 /\ d.at = Root}

Upstream(u) == {d \in Units : u \in Downstream(d)}

Has(u, kind) == kind \in files[u]

\* Mutant: any file of the bundle counts as completion.
AnyFile(u) == files[u] # {}

Marked(u) == Has(u, "marker")

\* The files a native stage cannot run without.
InputsPresent(u) ==
    IF u.at # Root
      THEN \A d \in Upstream(u) : files[d] = Kinds(d)
      ELSE CASE u.stage = 5 -> \A p \in Dirs :
                                  files[[stage |-> 5, at |-> p]] = Kinds([stage |-> 5, at |-> p])
             [] u.stage = 6 -> Has([stage |-> 5, at |-> Root], "data")
             [] u.stage = 7 -> /\ {"data", "marker"} \subseteq files[[stage |-> 5, at |-> Root]]
                               /\ Marked([stage |-> 6, at |-> Root])
             [] u.stage = 8 -> /\ Has([stage |-> 5, at |-> Root], "data")
                               /\ Marked([stage |-> 6, at |-> Root])

\* Stage 8 runs without a Stage 7 result when there is none.
ComputedFromStale(u) ==
    \E d \in Upstream(u) : stale[d] /\ files[d] # {}

-----------------------------------------------------------------------------
Resume == start = 0
Unit == Order[pos]

Fault ==
    /\ pc # "idle" /\ faults < MaxFaults /\ faults' = faults + 1
    /\ cut' = (cut \/ pc = "invalidate")

Report(s) == status' = [status EXCEPT ![Unit] = s]

\* u's files become `fs`, written now: what was computed from the old ones is
\* stale from here on.
Rewrite(u, fs) ==
    /\ files' = [files EXCEPT ![u] = fs]
    /\ stale' = [d \in Units |->
                    IF d = u THEN fs # {} /\ ComputedFromStale(u)
                    ELSE stale[d] \/ (d \in Downstream(u) /\ files[d] # {})]

\* A failed or interrupted commit: the bundle as it was, or files of the old
\* or of the new version without the marker.
Kept(u) == UNCHANGED disk
BrokenOld(u) == \E fs \in SUBSET (files[u] \ {"marker"}) :
                    files' = [files EXCEPT ![u] = fs] /\ UNCHANGED stale

\* Mutant: the marker is published before the other files.
MarkerFirst(u) == InputsPresent(u) /\ \E fs \in SUBSET Kinds(u) : Rewrite(u, fs)

BrokenNew(u) == InputsPresent(u) /\ \E fs \in SUBSET (Kinds(u) \ {"marker"}) : Rewrite(u, fs)

Interrupted(u) == Kept(u) \/ BrokenOld(u) \/ BrokenNew(u)

-----------------------------------------------------------------------------
\* Either a dataset on which nothing was run yet, or a finished one.
Init ==
    /\ files \in {[u \in Units |-> {}], [u \in Units |-> Kinds(u)]}
    /\ stale = [u \in Units |-> FALSE]
    /\ cut = FALSE
    /\ pc = "idle"
    /\ pos = 1
    /\ scan = 1
    /\ start = 0
    /\ end = 8
    /\ dry = FALSE
    /\ status = [u \in Units |-> "none"]
    /\ faults = 0
    /\ runs = 0

\* run_pipeline: a range the code accepts; an invalid one changes nothing.
RunPipeline(s, e, d) ==
    /\ pc = "idle"
    /\ s <= e
    /\ pc' = "visit"
    /\ start' = s /\ end' = e /\ dry' = d
    /\ pos' = FirstOf(s)
    /\ status' = [u \in Units |-> "none"]
    /\ UNCHANGED <<disk, cut, scan, faults>>

Start ==
    /\ runs < MaxRuns
    /\ runs' = runs + 1
    /\ \E s \in 0..8, e \in 1..8, d \in BOOLEAN : RunPipeline(s, e, d)

\* The user finishes the dataset in resume mode.
StartResume == RunPipeline(0, 8, FALSE) /\ UNCHANGED runs

\* run_one in resume mode: the completion artifact is there.
Skip ==
    /\ pc = "visit" /\ InRange(pos)
    /\ Resume /\ Marked(Unit)
    /\ Report("skipped_existing")
    /\ pos' = pos + 1
    /\ UNCHANGED <<disk, cut, pc, scan, request, faults, runs>>

\* run_one in a dry run.
Plan ==
    /\ pc = "visit" /\ InRange(pos)
    /\ ~(Resume /\ Marked(Unit))
    /\ dry
    /\ Report("planned")
    /\ pos' = pos + 1
    /\ UNCHANGED <<disk, cut, pc, scan, request, faults, runs>>

\* Mutant: dry_run is not looked at.
InvalidateInDryRun ==
    /\ pc = "visit" /\ InRange(pos)
    /\ ~(Resume /\ Marked(Unit))
    /\ pc' = "invalidate"
    /\ scan' = FirstProduct(Unit)
    /\ UNCHANGED <<disk, cut, pos, request, status, faults, runs>>

\* run_one decides to run the stage and starts to invalidate.
Invalidate ==
    /\ pc = "visit" /\ InRange(pos)
    /\ ~(Resume /\ Marked(Unit))
    /\ ~dry
    /\ pc' = "invalidate"
    /\ scan' = FirstProduct(Unit)
    /\ UNCHANGED <<disk, cut, pos, request, status, faults, runs>>

\* remove_products visits one product; a missing file is no error.
RemoveProduct ==
    /\ pc = "invalidate" /\ scan \in DOMAIN Products
    /\ IF ShouldRemove(Unit, scan)
         THEN files' = [files EXCEPT ![Owner(Unit, scan)] = @ \ {Products[scan].kind}]
         ELSE UNCHANGED files
    /\ scan' = scan + 1
    /\ UNCHANGED <<stale, cut, pc, pos, request, status, faults, runs>>

\* Any other error stops the removal and the run.
RemoveFails ==
    /\ pc = "invalidate" /\ scan \in DOMAIN Products
    /\ ShouldRemove(Unit, scan) /\ Has(Owner(Unit, scan), Products[scan].kind)
    /\ Fault
    /\ Report("failed")
    /\ pc' = "idle"
    /\ UNCHANGED <<disk, pos, scan, request, runs>>

Invalidated ==
    /\ pc = "invalidate" /\ scan \notin DOMAIN Products
    /\ pc' = "execute"
    /\ UNCHANGED <<disk, cut, pos, scan, request, status, faults, runs>>

\* The stage computes its bundle and commits it.
Execute ==
    /\ pc = "execute"
    /\ InputsPresent(Unit)
    /\ Rewrite(Unit, Kinds(Unit))
    /\ Report("completed")
    /\ pc' = "visit"
    /\ pos' = pos + 1
    /\ UNCHANGED <<cut, scan, request, faults, runs>>

\* Mutant: the loop goes on after a failed unit.
GoesOnAfterFailure ==
    /\ pc = "execute"
    /\ \/ ~InputsPresent(Unit) /\ Kept(Unit) /\ UNCHANGED <<cut, faults>>
       \/ Interrupted(Unit) /\ Fault
    /\ Report("failed")
    /\ pc' = "visit"
    /\ pos' = pos + 1
    /\ UNCHANGED <<scan, request, runs>>

\* The stage returns an error and the run ends: an input is missing, or
\* computing or committing failed.
ExecuteFails ==
    /\ pc = "execute"
    /\ \/ ~InputsPresent(Unit) /\ Kept(Unit) /\ UNCHANGED <<cut, faults>>
       \/ Interrupted(Unit) /\ Fault
    /\ Report("failed")
    /\ pc' = "idle"
    /\ UNCHANGED <<pos, scan, request, runs>>

\* The report is returned.
Finish ==
    /\ pc = "visit" /\ ~InRange(pos)
    /\ pc' = "idle"
    /\ UNCHANGED <<disk, cut, pos, scan, request, status, faults, runs>>

\* The process is killed; there is no report.
Killed ==
    /\ Fault
    /\ IF pc = "execute" THEN Interrupted(Unit) ELSE UNCHANGED disk
    /\ status' = [u \in Units |-> "none"]
    /\ pc' = "idle"
    /\ UNCHANGED <<pos, scan, request, runs>>

RunStep ==
    \/ Skip
    \/ Plan
    \/ Invalidate
    \/ RemoveProduct
    \/ Invalidated
    \/ Execute
    \/ ExecuteFails
    \/ Finish

Next ==
    \/ Start
    \/ StartResume
    \/ RunStep
    \/ RemoveFails
    \/ Killed

Spec == Init /\ [][Next]_vars

Complete == \A u \in Units : files[u] = Kinds(u)

\* A run is straight-line code; the user resumes until the dataset is complete.
FairSpec == Spec /\ WF_vars(RunStep) /\ WF_vars(~Complete /\ StartResume)

\* infer_stage of collect_status: the last stage of the unbroken series of
\* completion artifacts.
InferStage(at) ==
    LET artifacts == {u \in Units : u.at = at}
        reached == {u.stage : u \in {v \in artifacts : \A w \in artifacts :
                                                w.stage <= v.stage => Marked(w)}}
    IN  IF reached = {} THEN 0 ELSE CHOOSE s \in reached : \A t \in reached : t <= s

-----------------------------------------------------------------------------
\* A completion artifact of Stages 1-6 that exists was computed from the
\* upstream products that exist now: whatever is rerun, killed or failed, no
\* marker resume mode would trust survives a change of its inputs.
TrustedMarkersAreFresh ==
    \A u \in Units : u.stage <= 6 /\ Marked(u) => ~stale[u]

\* In resume mode no stage is executed before every stage upstream of it has
\* its completion artifact.
ResumeKeepsOrder ==
    pc = "execute" /\ Resume => \A d \in Upstream(Unit) : Marked(d)

\* A run that ended without a kill reports the truth: what it calls completed or
\* skipped still has its completion artifact when the report is returned, and
\* the other files of its bundle too unless a removal was ever cut short.
ReportIsTrue ==
    pc = "idle" =>
        \A u \in Units : status[u] \in {"completed", "skipped_existing"} =>
            Marked(u) /\ (cut \/ files[u] = Kinds(u))

\* Resume mode finishes the dataset after any interruption, unless one hit a
\* removal of downstream products.
ResumeCompletes == [](~cut) => <>[]Complete

\* Between runs `status` never shows a merged stage for a dataset one of whose
\* patches it shows at an earlier stage than 5, unless a removal was cut short.
MergedStatusIsBacked ==
    pc = "idle" /\ ~cut /\ InferStage(Root) >= 5 => \A p \in Dirs : InferStage(p) = 5

\* architecture.md: an old success marker cannot survive changed upstream data.
NoMarkerSurvivesUpstreamChange ==
    \A u \in Units : Marked(u) => ~stale[u]

\* architecture.md: resume mode reports skipped_existing for a complete stage.
SkippedStagesAreComplete ==
    \A u \in Units : status[u] = "skipped_existing" => files[u] = Kinds(u)
=============================================================================

---------------------------- MODULE Stage6Caches ----------------------------
(***************************************************************************)
(* crates/rustamps-pipeline/src/native/stage6: the three caches Stage 6    *)
(* derives from its input before it solves anything: uw_grid.mat (grid.rs, *)
(* grid_checkpoint.rs), uw_interp.mat (interp.rs) and uw_space_time.mat    *)
(* (space_time.rs), each loaded or rebuilt, with the fingerprint and the   *)
(* checksum of cache_meta.rs.                                              *)
(*                                                                         *)
(* What a cache holds is modelled by the set of inputs it was computed     *)
(* from, directly or through the caches before it.  The fingerprint of an  *)
(* input is taken to be its identity, and a checksum to be the fingerprint *)
(* and the payload it was computed from.  A cache file is replaced as in   *)
(* AtomicReplace: a kill leaves the old file, the new one or none.         *)
(***************************************************************************)
EXTENDS Naturals, Sequences

CONSTANTS
    Inputs,         \* scientific inputs of Stage 6
    NoFile,         \* the cache does not exist
    Unreadable,     \* it is no MAT file, or its metadata are no exact integers
    OldSchema,      \* the fingerprint of a cache without today's schema
    Garbage,        \* a payload that was damaged
    MaxFaults,      \* bound on kills and failing writes
    MaxChanges,     \* bound on changes of the input
    MaxDamages      \* bound on damaged files

ASSUME CachesAssumption ==
    /\ Garbage \notin Inputs
    /\ OldSchema \notin Inputs
    /\ MaxFaults \in Nat /\ MaxChanges \in Nat /\ MaxDamages \in Nat

\* The caches in the order a run needs them.
Names == <<"grid", "interp", "space_time">>
Caches == {"grid", "interp", "space_time"}

Payloads == SUBSET (Inputs \cup {Garbage})

\* A readable cache; `over` is what its checksum was computed from.
Files == [fingerprint : Inputs \cup {OldSchema}, payload : Payloads,
          over : [fingerprint : Inputs \cup {OldSchema}, payload : Payloads]]

ASSUME FilesAssumption == NoFile # Unreadable /\ {NoFile, Unreadable} \cap Files = {}

VARIABLES
    input,      \* the fingerprint of the input in the directory
    file,       \* the cache files
    step,       \* 0 between runs, i while cache Names[i] is obtained, 4 when
                \* all are there and the solves may start
    loaded,     \* the payloads the run holds
    result,     \* how the last run ended
    faults, changes, damages

vars == <<input, file, step, loaded, result, faults, changes, damages>>

TypeOK ==
    /\ input \in Inputs
    /\ file \in [Caches -> Files \cup {NoFile, Unreadable}]
    /\ step \in 0..4
    /\ loaded \in [Caches -> Payloads]
    /\ \A i \in 1..3 : 0 < step /\ step <= i => loaded[Names[i]] = {}
    /\ result \in {"none", "ready", "failed", "killed"}
    /\ faults \in 0..MaxFaults
    /\ changes \in 0..MaxChanges
    /\ damages \in 0..MaxDamages

-----------------------------------------------------------------------------
Name == Names[step]

\* What build computes cache c from: the input for all but the interpolation,
\* which is a function of the grid alone, and the caches before it.
Build(c) ==
    CASE c = "grid"       -> {input}
      [] c = "interp"     -> loaded["grid"]
      [] c = "space_time" -> {input} \cup loaded["grid"] \cup loaded["interp"]

\* What write makes of a payload.
Sealed(p) == [fingerprint |-> input, payload |-> p,
              over |-> [fingerprint |-> input, payload |-> p]]

\* Mutant: any cache of today's schema matches.
MatchesSchemaOnly(f) == f.fingerprint # OldSchema

\* cache_meta::matches
Matches(f) == f.fingerprint = input

\* Mutant: the stored checksum is compared with the fingerprint only.
ValidFingerprintOnly(f) == f.over.fingerprint = input

\* cache_meta::validate, which stands for the checks of shapes and ranges too.
Valid(f) == f.over = [fingerprint |-> input, payload |-> f.payload]

\* Mutant: a cache is rebuilt although it is there.
MustBuildAlways(c) == TRUE

\* load gives nothing: there is no cache, or it is one of another input.
MustBuild(c) ==
    \/ file[c] = NoFile
    \/ file[c] \notin {NoFile, Unreadable} /\ ~Matches(file[c])

\* load returns an error.
Rejected(c) ==
    \/ file[c] = Unreadable
    \/ file[c] \notin {NoFile, Unreadable} /\ Matches(file[c]) /\ ~Valid(file[c])

Fault == faults < MaxFaults /\ faults' = faults + 1

Init ==
    /\ input \in Inputs
    /\ file = [c \in Caches |-> NoFile]
    /\ step = 0
    /\ loaded = [c \in Caches |-> {}]
    /\ result = "none"
    /\ faults = 0 /\ changes = 0 /\ damages = 0

\* Between runs: parms.mat, the configuration or the products of Stages 1-5
\* and 7 change.
ChangeInput ==
    /\ step = 0
    /\ changes < MaxChanges
    /\ changes' = changes + 1
    /\ input' \in Inputs \ {input}
    /\ UNCHANGED <<file, step, loaded, result, faults, damages>>

\* Between runs: the payload of a cache, its fingerprint or all of it is
\* damaged, or it was written by an older version.
Damage ==
    /\ step = 0
    /\ damages < MaxDamages
    /\ damages' = damages + 1
    /\ \E c \in Caches :
          /\ file[c] \in Files
          /\ \E f \in {Unreadable,
                       [file[c] EXCEPT !.payload = {Garbage}],
                       [file[c] EXCEPT !.fingerprint = OldSchema]}
                      \cup {[file[c] EXCEPT !.fingerprint = i] : i \in Inputs} :
                file' = [file EXCEPT ![c] = f]
    /\ UNCHANGED <<input, step, loaded, result, faults, changes>>

\* The user removes a cache that Stage 6 complains about.
Discard ==
    /\ step = 0 /\ result = "failed"
    /\ \E c \in Caches : Rejected(c) /\ file' = [file EXCEPT ![c] = NoFile]
    /\ UNCHANGED <<input, step, loaded, result, faults, changes, damages>>

\* Mutant: what an earlier run in the process held is kept.
StartWithOldCaches ==
    /\ step = 0
    /\ step' = 1
    /\ result' = "none"
    /\ UNCHANGED <<input, file, loaded, faults, changes, damages>>

\* stage6::run
Start ==
    /\ step = 0
    /\ step' = 1
    /\ loaded' = [c \in Caches |-> {}]
    /\ result' = "none"
    /\ UNCHANGED <<input, file, faults, changes, damages>>

Obtained(p) ==
    /\ loaded' = [loaded EXCEPT ![Name] = p]
    /\ step' = step + 1
    /\ result' = IF step = 3 THEN "ready" ELSE result

\* load_or_build returns what it loaded.
Load ==
    /\ step \in 1..3
    /\ ~MustBuild(Name) /\ ~Rejected(Name)
    /\ Obtained(file[Name].payload)
    /\ UNCHANGED <<input, file, faults, changes, damages>>

LoadFails ==
    /\ step \in 1..3
    /\ Rejected(Name)
    /\ step' = 0
    /\ result' = "failed"
    /\ UNCHANGED <<input, file, loaded, faults, changes, damages>>

\* load_or_build builds and writes the cache.
Rebuild ==
    /\ step \in 1..3
    /\ MustBuild(Name)
    /\ Obtained(Build(Name))
    /\ file' = [file EXCEPT ![Name] = Sealed(Build(Name))]
    /\ UNCHANGED <<input, faults, changes, damages>>

\* build fails, or write does: it puts the old file back or loses it.
RebuildFails ==
    /\ step \in 1..3
    /\ MustBuild(Name)
    /\ Fault
    /\ \E f \in {file[Name], NoFile} : file' = [file EXCEPT ![Name] = f]
    /\ step' = 0
    /\ result' = "failed"
    /\ UNCHANGED <<input, loaded, changes, damages>>

\* Mutant: the cache is written in place.
KilledInPlace ==
    /\ step # 0
    /\ Fault
    /\ \/ UNCHANGED file
       \/ /\ step \in 1..3 /\ MustBuild(Name)
          /\ \E f \in {NoFile, Unreadable, Sealed(Build(Name))} :
                file' = [file EXCEPT ![Name] = f]
    /\ step' = 0
    /\ result' = "killed"
    /\ UNCHANGED <<input, loaded, changes, damages>>

Killed ==
    /\ step # 0
    /\ Fault
    /\ \/ UNCHANGED file
       \/ /\ step \in 1..3 /\ MustBuild(Name)
          /\ \E f \in {NoFile, Sealed(Build(Name))} : file' = [file EXCEPT ![Name] = f]
    /\ step' = 0
    /\ result' = "killed"
    /\ UNCHANGED <<input, loaded, changes, damages>>

\* The solves and the output follow (Stage6Solve); the run ends.
Solve ==
    /\ step = 4
    /\ step' = 0
    /\ UNCHANGED <<input, file, loaded, result, faults, changes, damages>>

RunStep ==
    \/ Load
    \/ LoadFails
    \/ Rebuild
    \/ Solve

Next ==
    \/ ChangeInput
    \/ Damage
    \/ Discard
    \/ Start
    \/ RunStep
    \/ RebuildFails
    \/ Killed

Spec == Init /\ [][Next]_vars

Current == \A c \in Caches : file[c] = Sealed({input})

\* A run goes on by itself; the user runs Stage 6 again until its caches are
\* there, but may remove none.
FairSpec == Spec /\ WF_vars(RunStep) /\ WF_vars(~Current /\ Start)

-----------------------------------------------------------------------------
\* The solves work on a grid, an interpolation and a space-time estimate that
\* were all computed from the input of this run, whatever mixture of caches of
\* several inputs kills left behind and whichever file was damaged.
SolvesSeeOneInput == step = 4 => \A c \in Caches : loaded[c] = {input}

\* A kill or a failed write never leaves a cache that a later run rejects, for
\* no input: as long as no file was damaged, there is nothing to remove by hand.
InterruptionsDoNotBlock ==
    damages = 0 =>
        \A c \in Caches :
            \/ file[c] = NoFile
            \/ file[c] \in Files /\ file[c].over = [fingerprint |-> file[c].fingerprint,
                                                     payload |-> file[c].payload]

\* Whatever kills and changes of the input left behind, rerunning Stage 6 ends
\* with all caches those of the last input, unless a file was damaged.
RerunsConverge == <>[](damages > 0 \/ Current)

\* A run never rewrites, loses or damages a cache that is complete and current.
CompleteCachesAreKept ==
    [][step # 0 =>
        \A c \in Caches :
            file[c] = Sealed({input}) => file'[c] = file[c]]_vars
=============================================================================

-------------------------- MODULE StageTransaction --------------------------
(***************************************************************************)
(* crates/rustamps-io/src/transaction.rs: the bundle commit every stage    *)
(* publishes its products with.  The products are written to a staging     *)
(* directory; commit_with_removals first moves the old files aside, the    *)
(* completion artifact (marker) before any other, then renames the new     *)
(* ones into place, the marker after all others.  A failed rename is       *)
(* rolled back: published files are deleted, backups renamed back, the     *)
(* marker last.                                                            *)
(*                                                                         *)
(* A file's content is the version (transaction) that wrote it.  Each      *)
(* rename is one step and may fail; the process may be killed between any  *)
(* two steps, and a later process begins a new transaction over whatever   *)
(* was left.  The order of the files other than the marker is the caller's *)
(* and the model lets it be any.                                           *)
(***************************************************************************)
EXTENDS Naturals, FiniteSets

CONSTANTS
    Names,      \* every file the stage may own in the target directory
    Marker,     \* its completion artifact
    Versions,   \* transactions, named by their staging directory
    Bundle,     \* Bundle[v]: the files transaction v publishes
    Absent,     \* content of a file that does not exist
    MaxFaults   \* bound on I/O errors and crashes together

ASSUME BundleAssumption ==
    /\ Marker \in Names
    /\ Absent \notin Versions
    /\ Bundle \in [Versions -> {b \in SUBSET Names : Marker \in b}]
    /\ MaxFaults \in Nat

VARIABLES
    target,     \* target[n]: content of n in the stage directory
    staged,     \* files in cur's staging directory
    backup,     \* backup[n]: content of n under its .backup
    dirs,       \* staging directories that exist; the code never reads one
                \* that another transaction left behind
    used,       \* versions begun so far
    phase,      \* where the running commit is
    cur,        \* the running (or last) transaction
    todo,       \* names the current loop has still to visit
    backed,     \* `backed_up` of the running commit
    published,  \* `published` of the running commit
    result,     \* what the last call returned
    faults,     \* I/O errors and crashes so far
    before      \* history: target when the transaction began

vars == <<target, staged, backup, dirs, used, phase, cur, todo, backed,
          published, result, faults, before>>

Contents == Versions \cup {Absent}
NoFile == [n \in Names |-> Absent]

\* The stage directory right after v was published: its files and no other
\* product of the stage (callers list every optional file v lacks under
\* `removals`).
Image(v) == [n \in Names |-> IF n \in Bundle[v] THEN v ELSE Absent]

\* A reader trusts the directory only when the marker is there.
Coherent(t) == t[Marker] # Absent => t = Image(t[Marker])

Phases == {"idle", "staging", "backup", "publish", "cleanup",
           "unpublish", "restore", "discard"}

TypeOK ==
    /\ target \in [Names -> Contents]
    /\ staged \in SUBSET Names
    /\ backup \in [Names -> Contents]
    /\ dirs \in SUBSET Versions
    /\ used \in SUBSET Versions
    /\ phase \in Phases
    /\ cur \in Contents
    /\ phase # "idle" => cur \in dirs
    /\ todo \in SUBSET Names
    /\ backed \in SUBSET Names
    /\ published \in SUBSET Names
    /\ result \in {"none", "ok", "err", "crash"}
    /\ faults \in 0..MaxFaults
    /\ before \in [Names -> Contents]

\* The directory starts empty, with an earlier bundle, or with files of an
\* earlier bundle whose marker is gone.
Init ==
    /\ \E v \in Versions :
          /\ used = {v}
          /\ \/ target = Image(v)
             \/ \E left \in SUBSET (Bundle[v] \ {Marker}) :
                   target = [n \in Names |-> IF n \in left THEN v ELSE Absent]
    /\ staged = {}
    /\ backup = NoFile
    /\ dirs = {}
    /\ phase = "idle"
    /\ cur = Absent
    /\ todo = {}
    /\ backed = {}
    /\ published = {}
    /\ result = "none"
    /\ faults = 0
    /\ before = target

-----------------------------------------------------------------------------
Fault == faults < MaxFaults /\ faults' = faults + 1
NoFault == UNCHANGED faults

\* The call returns; the locals of the transaction are gone.
Return(r) ==
    /\ phase' = "idle"
    /\ result' = r
    /\ todo' = {} /\ backed' = {} /\ published' = {}

\* remove_dir_all of the running transaction's staging directory.
RemoveStaging ==
    /\ dirs' = dirs \ {cur}
    /\ staged' = {}
    /\ backup' = NoFile

\* remove_dir_all stopped half way: some entries are gone, the directory stays.
PartlyRemoveStaging ==
    /\ staged' \in SUBSET staged
    /\ \E keep \in SUBSET Names :
          backup' = [n \in Names |-> IF n \in keep THEN backup[n] ELSE Absent]
    /\ UNCHANGED dirs

\* The next loop of the commit visits the names in `names`.
Enter(p, names) ==
    /\ phase' = p
    /\ todo' = names

-----------------------------------------------------------------------------
\* Mutant: a staging directory left by a dead process blocks the next one.
BeginExclusive(v) ==
    /\ phase = "idle"
    /\ dirs = {}
    /\ v \in Versions \ used
    /\ used' = used \cup {v}
    /\ cur' = v
    /\ before' = target
    /\ dirs' = dirs \cup {v}
    /\ staged' = {}
    /\ backup' = NoFile
    /\ phase' = "staging"
    /\ result' = "none"
    /\ NoFault
    /\ UNCHANGED <<target, todo, backed, published>>

\* Mutant: the staging directory is not created.
BeginWithoutDirectory(v) ==
    /\ phase = "idle"
    /\ v \in Versions \ used
    /\ used' = used \cup {v}
    /\ cur' = v
    /\ before' = target
    /\ staged' = {}
    /\ backup' = NoFile
    /\ phase' = "staging"
    /\ result' = "none"
    /\ NoFault
    /\ UNCHANGED <<target, dirs, todo, backed, published>>

\* StageTransaction::begin: a fresh staging directory.
Begin(v) ==
    /\ phase = "idle"
    /\ v \in Versions \ used
    /\ used' = used \cup {v}
    /\ cur' = v
    /\ before' = target
    /\ dirs' = dirs \cup {v}
    /\ staged' = {}
    /\ backup' = NoFile
    /\ phase' = "staging"
    /\ result' = "none"
    /\ NoFault
    /\ UNCHANGED <<target, todo, backed, published>>

\* create_dir_all fails: nothing was written.
BeginFails(v) ==
    /\ phase = "idle"
    /\ v \in Versions \ used
    /\ used' = used \cup {v}
    /\ cur' = v
    /\ before' = target
    /\ staged' = {}
    /\ backup' = NoFile
    /\ result' = "err"
    /\ Fault
    /\ UNCHANGED <<target, dirs, phase, todo, backed, published>>

\* The stage writes one product under transaction.path(..).
Stage(n) ==
    /\ phase = "staging"
    /\ n \in Bundle[cur] \ staged
    /\ staged' = staged \cup {n}
    /\ NoFault
    /\ UNCHANGED <<target, backup, dirs, used, phase, cur, todo, backed,
                   published, result, before>>

\* The transaction is dropped uncommitted: a product could not be written, or
\* commit_with_removals finds a listed file missing from the staging directory.
\* Drop ignores a failed removal.
Abandon ==
    /\ phase = "staging"
    /\ \/ RemoveStaging
       \/ PartlyRemoveStaging
    /\ Return("err")
    /\ Fault
    /\ UNCHANGED <<target, used, cur, before>>

\* commit_with_removals passes its checks and sets `committed`.
StartCommit ==
    /\ phase = "staging"
    /\ Bundle[cur] \subseteq staged
    /\ Enter("backup", Names)
    /\ NoFault
    /\ UNCHANGED <<target, staged, backup, dirs, used, cur, backed, published,
                   result, before>>

\* Mutant: the marker is moved aside in its turn.
BackUpInAnyOrder(n) == n \in todo

\* `ordered` starts with the marker.
NextToBackUp(n) == n \in todo /\ (Marker \in todo => n = Marker)

\* Mutant: the old file is deleted, not moved aside.
DeleteOld(n) ==
    /\ phase = "backup"
    /\ NextToBackUp(n)
    /\ todo' = todo \ {n}
    /\ target' = [target EXCEPT ![n] = Absent]
    /\ NoFault
    /\ UNCHANGED <<staged, backup, dirs, used, phase, cur, backed, published,
                   result, before>>

\* An existing destination is renamed into .backup; a missing one is passed.
BackUp(n) ==
    /\ phase = "backup"
    /\ NextToBackUp(n)
    /\ todo' = todo \ {n}
    /\ IF target[n] = Absent
         THEN UNCHANGED <<target, backup, backed>>
         ELSE /\ backup' = [backup EXCEPT ![n] = target[n]]
              /\ target' = [target EXCEPT ![n] = Absent]
              /\ backed' = backed \cup {n}
    /\ NoFault
    /\ UNCHANGED <<staged, dirs, used, phase, cur, published, result, before>>

BackUpFails(n) ==
    /\ phase = "backup"
    /\ NextToBackUp(n)
    /\ target[n] # Absent
    /\ Enter("unpublish", published)
    /\ Fault
    /\ UNCHANGED <<target, staged, backup, dirs, used, cur, backed, published,
                   result, before>>

StartPublish ==
    /\ phase = "backup"
    /\ todo = {}
    /\ Enter("publish", Bundle[cur])
    /\ NoFault
    /\ UNCHANGED <<target, staged, backup, dirs, used, cur, backed, published,
                   result, before>>

\* Mutant: the files are published in the caller's order.
PublishInAnyOrder(n) == n \in todo

\* `publish_order` ends with the marker.
NextToPublish(n) == n \in todo /\ (n = Marker => todo = {Marker})

Publish(n) ==
    /\ phase = "publish"
    /\ NextToPublish(n)
    /\ todo' = todo \ {n}
    /\ target' = [target EXCEPT ![n] = cur]
    /\ staged' = staged \ {n}
    /\ published' = published \cup {n}
    /\ NoFault
    /\ UNCHANGED <<backup, dirs, used, phase, cur, backed, result, before>>

\* Mutant: the rollback restores the old files without deleting the new ones.
PublishFailsRestoring(n) ==
    /\ phase = "publish"
    /\ NextToPublish(n)
    /\ Enter("restore", backed)
    /\ Fault
    /\ UNCHANGED <<target, staged, backup, dirs, used, cur, backed, published,
                   result, before>>

\* Mutant: the rollback deletes only published files that replaced an old one.
PublishFailsKeepingNew(n) ==
    /\ phase = "publish"
    /\ NextToPublish(n)
    /\ Enter("unpublish", published \cap backed)
    /\ Fault
    /\ UNCHANGED <<target, staged, backup, dirs, used, cur, backed, published,
                   result, before>>

PublishFails(n) ==
    /\ phase = "publish"
    /\ NextToPublish(n)
    /\ Enter("unpublish", published)
    /\ Fault
    /\ UNCHANGED <<target, staged, backup, dirs, used, cur, backed, published,
                   result, before>>

FinishPublish ==
    /\ phase = "publish"
    /\ todo = {}
    /\ Enter("cleanup", {})
    /\ NoFault
    /\ UNCHANGED <<target, staged, backup, dirs, used, cur, backed, published,
                   result, before>>

\* The last call of commit_with_removals drops the staging directory.
Cleanup ==
    /\ phase = "cleanup"
    /\ RemoveStaging
    /\ Return("ok")
    /\ NoFault
    /\ UNCHANGED <<target, used, cur, before>>

\* Its error is returned although every file is in place.
CleanupFails ==
    /\ phase = "cleanup"
    /\ PartlyRemoveStaging
    /\ Return("err")
    /\ Fault
    /\ UNCHANGED <<target, used, cur, before>>

-----------------------------------------------------------------------------
\* rollback: delete what this commit published.
Unpublish(n) ==
    /\ phase = "unpublish"
    /\ n \in todo
    /\ todo' = todo \ {n}
    /\ target' = [target EXCEPT ![n] = Absent]
    /\ NoFault
    /\ UNCHANGED <<staged, backup, dirs, used, phase, cur, backed, published,
                   result, before>>

StartRestore ==
    /\ phase = "unpublish"
    /\ todo = {}
    /\ Enter("restore", backed)
    /\ NoFault
    /\ UNCHANGED <<target, staged, backup, dirs, used, cur, backed, published,
                   result, before>>

\* Backups return to their places, the marker after all others.
NextToRestore(n) == n \in todo /\ (n = Marker => todo = {Marker})

Restore(n) ==
    /\ phase = "restore"
    /\ NextToRestore(n)
    /\ todo' = todo \ {n}
    /\ target' = [target EXCEPT ![n] = backup[n]]
    /\ backup' = [backup EXCEPT ![n] = Absent]
    /\ NoFault
    /\ UNCHANGED <<staged, dirs, used, phase, cur, backed, published, result,
                   before>>

FinishRestore ==
    /\ phase = "restore"
    /\ todo = {}
    /\ Enter("discard", {})
    /\ NoFault
    /\ UNCHANGED <<target, staged, backup, dirs, used, cur, backed, published,
                   result, before>>

\* A delete or rename of the rollback fails: it returns at once and leaves the
\* staging directory, with the backups not yet restored, where it is.
RollbackFails ==
    /\ phase \in {"unpublish", "restore"}
    /\ todo # {}
    /\ Return("err")
    /\ Fault
    /\ UNCHANGED <<target, staged, backup, dirs, used, cur, before>>

\* The rollback is done: the cause is returned.
Discard ==
    /\ phase = "discard"
    /\ RemoveStaging
    /\ Return("err")
    /\ NoFault
    /\ UNCHANGED <<target, used, cur, before>>

DiscardFails ==
    /\ phase = "discard"
    /\ PartlyRemoveStaging
    /\ Return("err")
    /\ Fault
    /\ UNCHANGED <<target, used, cur, before>>

\* The process is killed; the file system keeps what it has.
Crash ==
    /\ phase # "idle"
    /\ Return("crash")
    /\ Fault
    /\ UNCHANGED <<target, staged, backup, dirs, used, cur, before>>

-----------------------------------------------------------------------------
CommitStep ==
    \/ \E n \in Names : Stage(n) \/ BackUp(n) \/ Publish(n) \/ Unpublish(n) \/ Restore(n)
    \/ StartCommit
    \/ StartPublish
    \/ FinishPublish
    \/ Cleanup
    \/ StartRestore
    \/ FinishRestore
    \/ Discard

FaultStep ==
    \/ \E v \in Versions : BeginFails(v)
    \/ \E n \in Names : BackUpFails(n) \/ PublishFails(n)
    \/ Abandon
    \/ CleanupFails
    \/ RollbackFails
    \/ DiscardFails
    \/ Crash

Next ==
    \/ \E v \in Versions : Begin(v)
    \/ CommitStep
    \/ FaultStep

Spec == Init /\ [][Next]_vars

\* A user who wants the stage runs it again until a commit succeeds; a running
\* commit is straight-line code and keeps stepping.
Retry == result # "ok" /\ \E v \in Versions : Begin(v)

FairSpec == Spec /\ WF_vars(CommitStep) /\ WF_vars(Retry)

-----------------------------------------------------------------------------
\* Whenever the completion artifact is in the directory, killed processes and
\* failed rollbacks included, every product of the stage comes from the same
\* transaction and no product of an earlier one is left beside them.
MarkerVouchesForBundle == Coherent(target)

\* Files of two transactions are never in the directory together, with or
\* without the marker: the old ones have all left before a new one arrives, and
\* a rollback deletes all new ones before an old one returns.  A stage that reads
\* another stage's files without looking at its marker relies on this.
SingleVersion(t) ==
    \A m, n \in Names : t[m] # Absent /\ t[n] # Absent => t[m] = t[n]
NeverMixed == SingleVersion(target)

\* Until the new marker is in place no content of the directory is lost: each
\* old file is at its place or in the staging directory's .backup, whatever
\* failed or was interrupted.
OldFilesRecoverable ==
    target[Marker] # cur =>
        \A n \in Names : before[n] # Absent => before[n] \in {target[n], backup[n]}

\* An error that leaves no staging directory behind left the stage directory
\* exactly as the call found it; otherwise the staging directory is kept.
ErrorRestoresOrKeepsStaging ==
    phase = "idle" /\ result = "err" /\ cur \notin dirs => target = before

\* As long as the user retries, a commit succeeds once the faults end, and what
\* dead or failed attempts left behind does not prevent it.
RetryPublishes == <>(result = "ok" /\ target = Image(cur))

-----------------------------------------------------------------------------
\* Readers guarded by the marker see the directory as AtomicBundle says.
CONSTANT Nothing
ASSUME NothingAssumption == Nothing \notin [Names -> Contents]

View(t) == IF t[Marker] = Absent THEN Nothing ELSE t

Abstract == INSTANCE AtomicBundle WITH view <- View(target), saved <- View(before)

\* Every step of the commit, its rollback and its crashes is a step of
\* AtomicBundle or invisible to a reader who looks for the marker first.
ImplementsAtomicBundle == Abstract!Spec
=============================================================================

--------------------------- MODULE AtomicReplace ----------------------------
(***************************************************************************)
(* The two functions of crates/rustamps-io that replace a file:            *)
(* write_mat_with_format (mat/mod.rs), which every MAT product and every   *)
(* Stage 6 checkpoint goes through, and atomic_write (transaction.rs), for *)
(* text.  Both write a temporary file, rename the existing file to a       *)
(* backup, rename the temporary file into place and remove the backup;     *)
(* they differ in what they do when an operation fails.                    *)
(*                                                                         *)
(* The names of the temporary file and of the backup are new for each      *)
(* call, so `temp` is the one of the last call and `backup` the last       *)
(* backup made; what older calls left behind is never read.  Calls follow  *)
(* each other, and the process may be killed in between two operations.    *)
(***************************************************************************)
EXTENDS Naturals

CONSTANTS
    Versions,   \* contents, one for each call
    Partial,    \* a file that was not written to its end
    Absent,
    MaxFaults   \* bound on failing operations and kills

ASSUME ReplaceAssumption ==
    /\ {Partial, Absent} \cap Versions = {}
    /\ Partial # Absent
    /\ MaxFaults \in Nat

VARIABLES
    dest, temp, backup, \* the three files
    writer,             \* the function called last
    version,            \* the content it writes
    had_destination,
    pc,                 \* the next operation of the call, "idle" between calls
    result,             \* how the last call ended
    old,                \* history: what could be read or recovered before it
    used,               \* versions written so far
    faults

files == <<dest, temp, backup>>
call == <<writer, version, old, used>>
vars == <<files, call, had_destination, pc, result, faults>>

TypeOK ==
    /\ dest \in Versions \cup {Absent}
    /\ temp \in Versions \cup {Absent, Partial}
    /\ backup \in Versions \cup {Absent}
    /\ writer \in {"write_mat", "atomic_write"}
    /\ version \in Versions \cup {Absent}
    /\ had_destination \in BOOLEAN
    /\ pc \in {"idle", "write", "aside", "publish", "restore", "discard", "cleanup"}
    /\ result \in {"none", "ok", "error", "killed"}
    /\ old \in Versions \cup {Absent}
    /\ used \subseteq Versions
    /\ faults \in 0..MaxFaults

-----------------------------------------------------------------------------
\* The file, or the backup of a file that was not put back.
Recoverable == IF dest # Absent THEN dest ELSE backup

Fault == faults < MaxFaults /\ faults' = faults + 1

Return(r) == pc' = "idle" /\ result' = r
Continue(next) == pc' = next /\ UNCHANGED result

Init ==
    /\ dest = Absent /\ temp = Absent /\ backup = Absent
    /\ writer = "write_mat"
    /\ version = Absent
    /\ had_destination = FALSE
    /\ pc = "idle"
    /\ result = "none"
    /\ old = Absent
    /\ used = {}
    /\ faults = 0

Begin(w, v) ==
    /\ pc = "idle"
    /\ v \notin used
    /\ used' = used \cup {v}
    /\ writer' = w /\ version' = v
    /\ old' = Recoverable
    /\ temp' = Absent
    /\ pc' = "write"
    /\ result' = "none"
    /\ UNCHANGED <<dest, backup, had_destination, faults>>

Write ==
    /\ pc = "write"
    /\ temp' = version
    /\ Continue("aside")
    /\ UNCHANGED <<dest, backup, call, had_destination, faults>>

\* Mutant: an error while writing is not noticed.
WriteFailsUnnoticed ==
    /\ pc = "write"
    /\ Fault
    /\ temp' = Partial
    /\ Continue("aside")
    /\ UNCHANGED <<dest, backup, call, had_destination>>

\* Creating or writing the temporary file fails.  write_mat tries to remove
\* it, atomic_write does not.
WriteFails ==
    /\ pc = "write"
    /\ Fault
    /\ temp' \in {Absent, Partial}
    /\ Return("error")
    /\ UNCHANGED <<dest, backup, call, had_destination>>

\* Mutant: the old file is removed instead of renamed.
RemoveOld ==
    /\ pc = "aside"
    /\ had_destination' = (dest # Absent)
    /\ dest' = Absent
    /\ UNCHANGED backup
    /\ Continue("publish")
    /\ UNCHANGED <<temp, call, faults>>

\* path.exists, and the rename of the existing file to the backup.
MoveAside ==
    /\ pc = "aside"
    /\ had_destination' = (dest # Absent)
    /\ IF dest # Absent
         THEN backup' = dest /\ dest' = Absent
         ELSE UNCHANGED <<backup, dest>>
    /\ Continue("publish")
    /\ UNCHANGED <<temp, call, faults>>

MoveAsideFails ==
    /\ pc = "aside" /\ dest # Absent
    /\ Fault
    /\ had_destination' = TRUE
    /\ temp' \in {Absent, temp}
    /\ Return("error")
    /\ UNCHANGED <<dest, backup, call>>

Publish ==
    /\ pc = "publish"
    /\ dest' = temp /\ temp' = Absent
    /\ IF had_destination THEN Continue("cleanup") ELSE Return("ok")
    /\ UNCHANGED <<backup, call, had_destination, faults>>

PublishFails ==
    /\ pc = "publish"
    /\ Fault
    /\ Continue("restore")
    /\ UNCHANGED <<files, call, had_destination>>

\* Mutant: the old file is not put back.
ForgetToRestore ==
    /\ pc = "restore"
    /\ backup' = Absent
    /\ Continue("discard")
    /\ UNCHANGED <<dest, temp, call, had_destination, faults>>

\* The backup is renamed back when there is one.
Restore ==
    /\ pc = "restore"
    /\ IF had_destination
         THEN dest' = backup /\ backup' = Absent
         ELSE UNCHANGED <<dest, backup>>
    /\ Continue("discard")
    /\ UNCHANGED <<temp, call, had_destination, faults>>

\* The error of that rename is ignored.
RestoreFails ==
    /\ pc = "restore" /\ had_destination
    /\ Fault
    /\ Continue("discard")
    /\ UNCHANGED <<files, call, had_destination>>

Discard ==
    /\ pc = "discard"
    /\ \/ temp' = Absent /\ UNCHANGED faults
       \/ UNCHANGED temp /\ Fault
    /\ Return("error")
    /\ UNCHANGED <<dest, backup, call, had_destination>>

Cleanup ==
    /\ pc = "cleanup"
    /\ backup' = Absent
    /\ Return("ok")
    /\ UNCHANGED <<dest, temp, call, had_destination, faults>>

\* write_mat ignores that error, atomic_write returns it.
CleanupFails ==
    /\ pc = "cleanup"
    /\ Fault
    /\ Return(IF writer = "write_mat" THEN "ok" ELSE "error")
    /\ UNCHANGED <<files, call, had_destination>>

Killed ==
    /\ pc # "idle"
    /\ Fault
    /\ IF pc = "write" THEN temp' \in {Absent, Partial} ELSE UNCHANGED temp
    /\ Return("killed")
    /\ UNCHANGED <<dest, backup, call, had_destination>>

Next ==
    \/ \E w \in {"write_mat", "atomic_write"}, v \in Versions : Begin(w, v)
    \/ Write
    \/ WriteFails
    \/ MoveAside
    \/ MoveAsideFails
    \/ Publish
    \/ PublishFails
    \/ Restore
    \/ RestoreFails
    \/ Discard
    \/ Cleanup
    \/ CleanupFails
    \/ Killed

Spec == Init /\ [][Next]_vars

-----------------------------------------------------------------------------
\* Nothing is ever lost: what is in the file or, in between the two renames or
\* after a kill or a failed rename there, in its backup changes at once from
\* the old version to the new one.
File == INSTANCE AtomicFile
            WITH content <- Recoverable,
                 writing <- IF pc = "idle" THEN Absent ELSE version

ImplementsAtomicFile == File!Spec

\* A call that returns tells the truth: on success the file is the new one;
\* an error of write_mat leaves the old one, one of atomic_write the old one or,
\* when only the backup could not be removed, the new one.
ResultIsTrue ==
    pc = "idle" =>
        /\ result = "ok" => dest = version
        /\ result = "error" =>
              \/ Recoverable = old
              \/ writer = "atomic_write" /\ dest = version
=============================================================================

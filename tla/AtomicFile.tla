----------------------------- MODULE AtomicFile ------------------------------
(***************************************************************************)
(* What replacing a file promises: its content changes at once, from what  *)
(* it was to the version being written, or not at all.                     *)
(***************************************************************************)
CONSTANTS Versions, Absent

VARIABLES
    content,    \* the file
    writing     \* the version of the call that is going on, or Absent

vars == <<content, writing>>

Init == content = Absent /\ writing = Absent

Begin ==
    /\ writing = Absent
    /\ writing' \in Versions
    /\ UNCHANGED content

\* The call may return with this step or go on to clean up.
Replace ==
    /\ writing # Absent
    /\ content' = writing
    /\ writing' \in {writing, Absent}

Return ==
    /\ writing # Absent
    /\ writing' = Absent
    /\ UNCHANGED content

Spec == Init /\ [][Begin \/ Replace \/ Return]_vars
=============================================================================

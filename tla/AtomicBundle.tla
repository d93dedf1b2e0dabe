---------------------------- MODULE AtomicBundle ----------------------------
(***************************************************************************)
(* What crates/rustamps-io/src/transaction.rs promises to whoever looks at *)
(* a stage directory through the stage's completion artifact (the runner   *)
(* and `rustamps status` do): the directory shows nothing, or one whole    *)
(* bundle.  A bundle is never seen half old and half new.                  *)
(***************************************************************************)

CONSTANTS
    Versions,   \* one name for each bundle that is ever written
    Image(_),   \* the directory contents a version stands for
    Nothing     \* seen while the completion artifact is missing

VARIABLES
    view,       \* Nothing, or the contents seen by a reader
    saved       \* the view when the running commit began

vars == <<view, saved>>

Views == {Nothing} \cup {Image(v) : v \in Versions}

Init ==
    /\ view \in Views
    /\ saved = view

\* A commit starts: it will replace the present view, or give it back.
Remember ==
    /\ saved' = view
    /\ UNCHANGED view

\* The old bundle leaves the directory before anything else changes.
Withdraw ==
    /\ view # Nothing
    /\ view = saved
    /\ view' = Nothing
    /\ UNCHANGED saved

\* A new bundle appears in one step.
Install(v) ==
    /\ view = Nothing
    /\ view' = Image(v)
    /\ UNCHANGED saved

\* A failed commit gives back the bundle it withdrew.
Restore ==
    /\ view = Nothing
    /\ view' = saved
    /\ UNCHANGED saved

Next ==
    \/ Remember
    \/ Withdraw
    \/ \E v \in Versions : Install(v)
    \/ Restore

Spec == Init /\ [][Next]_vars
=============================================================================

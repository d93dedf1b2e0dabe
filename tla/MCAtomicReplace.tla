-------------------------- MODULE MCAtomicReplace ---------------------------
(***************************************************************************)
(* Four calls one after the other, with up to three failures or kills.     *)
(***************************************************************************)
EXTENDS AtomicReplace

CONSTANTS v1, v2, v3, v4

MCVersions == {v1, v2, v3, v4}
=============================================================================

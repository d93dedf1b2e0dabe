------------------------ MODULE AtomicReplaceProofs -------------------------
(***************************************************************************)
(* Theorems of AtomicReplace, for any contents and number of failures.     *)
(***************************************************************************)
EXTENDS AtomicReplace, TLAPS

\* Before the new file is in place the old content can be recovered; the
\* rename that publishes finds a complete temporary file.
CallInvariant ==
    /\ pc # "idle" => version \in Versions
    /\ pc \in {"aside", "publish"} => temp = version
    /\ pc \in {"publish", "restore"} => dest = Absent
    /\ pc \in {"write", "aside", "publish", "restore", "discard"} => Recoverable = old
    /\ pc = "cleanup" => dest = version

IInv == TypeOK /\ CallInvariant /\ ResultIsTrue

LEMMA InitEstablishes == Init => IInv
<1> SUFFICES ASSUME Init PROVE IInv
  OBVIOUS
<1>1. TypeOK
  <2>1. used \subseteq Versions
    BY Zenon DEF Init
  <2>2. faults \in 0..MaxFaults
    BY ReplaceAssumption DEF Init
  <2> QED
    BY <2>1, <2>2 DEF Init, TypeOK
<1>2. CallInvariant
  BY DEF Init, CallInvariant
<1>3. ResultIsTrue
  BY DEF Init, ResultIsTrue
<1> QED
  BY <1>1, <1>2, <1>3 DEF IInv

\* The step of each operation: the invariant, and what the file does.
LEMMA StepPreserves ==
    ASSUME IInv, Next
    PROVE  /\ IInv'
           /\ \/ Recoverable' = Recoverable
              \/ pc = "publish" /\ Recoverable' = version /\ version' = version
<1> USE ReplaceAssumption DEF IInv, TypeOK, CallInvariant, ResultIsTrue, Recoverable, Return,
        Continue, files, call
<1>1. ASSUME NEW w \in {"write_mat", "atomic_write"}, NEW v \in Versions, Begin(w, v)
      PROVE  IInv' /\ Recoverable' = Recoverable
  BY <1>1 DEF Begin
<1>2. CASE Write
  BY <1>2 DEF Write
<1>3. CASE WriteFails
  BY <1>3 DEF WriteFails, Fault
<1>4. CASE MoveAside
  BY <1>4 DEF MoveAside
<1>5. CASE MoveAsideFails
  BY <1>5 DEF MoveAsideFails, Fault
<1>6. CASE Publish
  BY <1>6 DEF Publish
<1>7. CASE PublishFails
  BY <1>7 DEF PublishFails, Fault
<1>8. CASE Restore
  BY <1>8 DEF Restore
<1>9. CASE RestoreFails
  BY <1>9 DEF RestoreFails, Fault
<1>10. CASE Discard
  BY <1>10 DEF Discard, Fault
<1>11. CASE Cleanup
  BY <1>11 DEF Cleanup
<1>12. CASE CleanupFails
  BY <1>12 DEF CleanupFails, Fault
<1>13. CASE Killed
  BY <1>13 DEF Killed, Fault
<1> QED
  BY <1>1, <1>2, <1>3, <1>4, <1>5, <1>6, <1>7, <1>8, <1>9, <1>10, <1>11, <1>12, <1>13 DEF Next

LEMMA StutterPreserves == IInv /\ UNCHANGED vars => IInv'
  BY DEF IInv, TypeOK, CallInvariant, ResultIsTrue, Recoverable, vars, files, call

LEMMA IInvHolds == Spec => []IInv
<1>1. IInv /\ [Next]_vars => IInv'
  BY StepPreserves, StutterPreserves
<1> QED
  BY <1>1, InitEstablishes, PTL DEF Spec

\* Every reachable state is well typed: the file is never a partial one.
THEOREM TypeCorrect == Spec => []TypeOK
<1>1. IInv => TypeOK
  BY DEF IInv
<1> QED
  BY <1>1, IInvHolds, PTL

\* What a call returns is true of the files.
THEOREM ResultsAreTrue == Spec => []ResultIsTrue
<1>1. IInv => ResultIsTrue
  BY DEF IInv
<1> QED
  BY <1>1, IInvHolds, PTL

\* Replacing a file is atomic for what can be recovered of it.
THEOREM ReplacementIsAtomic == Spec => ImplementsAtomicFile
<1>1. Init => File!Init
  BY DEF Init, File!Init, Recoverable
<1>2. IInv /\ [Next]_vars => [File!Begin \/ File!Replace \/ File!Return]_(File!vars)
  <2> SUFFICES ASSUME IInv, [Next]_vars
               PROVE  [File!Begin \/ File!Replace \/ File!Return]_(File!vars)
    OBVIOUS
  <2> DEFINE writing == IF pc = "idle" THEN Absent ELSE version
  <2>1. CASE UNCHANGED vars
    BY <2>1 DEF vars, files, call, File!vars, Recoverable
  <2>2. ASSUME NEW w \in {"write_mat", "atomic_write"}, NEW v \in Versions, Begin(w, v)
        PROVE  File!Begin
    BY <2>2, StepPreserves DEF Begin, File!Begin, Recoverable
  <2>3. CASE Publish
    BY <2>3, ReplaceAssumption
       DEF Publish, File!Replace, Recoverable, Return, Continue, call, IInv, CallInvariant
  <2>4. CASE WriteFails \/ MoveAsideFails \/ Discard \/ Cleanup \/ CleanupFails \/ Killed
    <3>1. pc # "idle" /\ pc' = "idle" /\ version \in Versions
      BY <2>4 DEF WriteFails, MoveAsideFails, Discard, Cleanup, CleanupFails, Killed, Return,
                  IInv, CallInvariant
    <3>2. Recoverable' = Recoverable
      BY <2>4, ReplaceAssumption
         DEF WriteFails, MoveAsideFails, Discard, Cleanup, CleanupFails, Killed, Recoverable,
             files, call, IInv, CallInvariant
    <3> QED
      BY <3>1, <3>2, ReplaceAssumption DEF File!Return
  <2>5. CASE Write \/ MoveAside \/ PublishFails \/ Restore \/ RestoreFails
    <3>1. pc # "idle" /\ pc' # "idle" /\ version' = version
      BY <2>5 DEF Write, MoveAside, PublishFails, Restore, RestoreFails, Continue, call
    <3>2. Recoverable' = Recoverable
      BY <2>5, ReplaceAssumption
         DEF Write, MoveAside, PublishFails, Restore, RestoreFails, Continue, Recoverable,
             files, call, IInv, CallInvariant
    <3> QED
      BY <3>1, <3>2 DEF File!vars
  <2> QED
    BY <2>1, <2>2, <2>3, <2>4, <2>5 DEF Next
<1> QED
  BY <1>1, <1>2, IInvHolds, PTL DEF Spec, ImplementsAtomicFile, File!Spec
=============================================================================

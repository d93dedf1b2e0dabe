----------------------- MODULE StageTransactionProofs -----------------------
(***************************************************************************)
(* The stage transaction is correct for every set of files, every choice   *)
(* of bundles and any number of transactions and faults.                   *)
(***************************************************************************)
EXTENDS StageTransaction, TLAPS

-----------------------------------------------------------------------------
(* The inductive invariant: what each loop of the commit knows about the   *)
(* directory, the backups and the names it has still to visit.             *)

LocalsEmpty == todo = {} /\ backed = {} /\ published = {}

IdleInv == phase = "idle" => LocalsEmpty

StagingInv == phase = "staging" => LocalsEmpty /\ target = before

\* `backed` names exactly the old files that are no longer in place.
BackupInv == phase = "backup" =>
    /\ published = {}
    /\ Marker \in todo => todo = Names
    /\ \A n \in Names :
          /\ n \in todo => target[n] = before[n] /\ n \notin backed
          /\ n \notin todo => target[n] = Absent
          /\ n \in backed => backup[n] = before[n]
          /\ n \notin todo /\ n \notin backed => before[n] = Absent

\* Only published files are in place, the marker only after all others.
PublishInv == phase = "publish" =>
    /\ todo \subseteq Bundle[cur]
    /\ published = Bundle[cur] \ todo
    /\ Marker \in published => todo = {}
    /\ \A n \in Names :
          /\ target[n] = IF n \in published THEN cur ELSE Absent
          /\ n \in backed => backup[n] = before[n]
          /\ n \notin backed => before[n] = Absent

CleanupInv == phase = "cleanup" => target = Image(cur)

\* A marker still in place means that nothing has been moved at all.
UnpublishInv == phase = "unpublish" =>
    /\ Marker \notin todo
    /\ target[Marker] # Absent => todo = {} /\ backed = {}
    /\ todo # {} => \A n \in Names : target[n] \in {cur, Absent}
    /\ \A n \in Names :
          /\ n \in backed => backup[n] = before[n] /\ (n \notin todo => target[n] = Absent)
          /\ n \notin backed => IF n \in todo THEN before[n] = Absent ELSE target[n] = before[n]

RestoreInv == phase = "restore" =>
    /\ target[Marker] # Absent => todo = {}
    /\ \A n \in Names :
          /\ n \in todo => backup[n] = before[n] /\ target[n] = Absent
          /\ n \notin todo => target[n] = before[n]

DiscardInv == phase = "discard" => target = before

IInv ==
    /\ TypeOK
    /\ Coherent(target)
    /\ Coherent(before)
    /\ SingleVersion(target)
    /\ SingleVersion(before)
    /\ IdleInv
    /\ StagingInv
    /\ BackupInv
    /\ PublishInv
    /\ CleanupInv
    /\ UnpublishInv
    /\ RestoreInv
    /\ DiscardInv
    /\ OldFilesRecoverable
    /\ ErrorRestoresOrKeepsStaging

-----------------------------------------------------------------------------
\* What a version stands for is a directory whose marker vouches for it.
LEMMA ImageCoherent ==
    ASSUME NEW v \in Versions
    PROVE  /\ Image(v) \in [Names -> Contents]
           /\ Image(v)[Marker] = v
           /\ Coherent(Image(v))
           /\ SingleVersion(Image(v))
BY BundleAssumption DEF Image, Coherent, Contents, SingleVersion

\* A directory given back as it was is as coherent as it was.
LEMMA GivenBack ==
    ASSUME Coherent(before), target' = before
    PROVE  Coherent(target)'
BY DEF Coherent, Image

\* Every initial directory is coherent and nothing is running.
LEMMA InitIInv == Init => IInv
<1> SUFFICES ASSUME Init PROVE IInv
  OBVIOUS
<1>1. PICK v \in Versions :
        /\ used = {v}
        /\ \/ target = Image(v)
           \/ \E left \in SUBSET (Bundle[v] \ {Marker}) :
                 target = [n \in Names |-> IF n \in left THEN v ELSE Absent]
  BY DEF Init
<1>2. target \in [Names -> Contents] /\ Coherent(target) /\ SingleVersion(target)
  <2>1. CASE target = Image(v)
    BY <2>1, ImageCoherent
  <2>2. CASE \E left \in SUBSET (Bundle[v] \ {Marker}) :
               target = [n \in Names |-> IF n \in left THEN v ELSE Absent]
    <3>1. PICK left \in SUBSET (Bundle[v] \ {Marker}) :
            target = [n \in Names |-> IF n \in left THEN v ELSE Absent]
      BY <2>2
    <3>2. target[Marker] = Absent
      BY <3>1, BundleAssumption
    <3> QED BY <3>1, <3>2 DEF Coherent, Contents, SingleVersion
  <2> QED BY <1>1, <2>1, <2>2
<1>3. TypeOK
  BY <1>1, <1>2, BundleAssumption DEF Init, TypeOK, Contents, NoFile, Phases
<1> QED
  BY <1>2, <1>3 DEF Init, IInv, IdleInv, LocalsEmpty, StagingInv, BackupInv,
     PublishInv, CleanupInv, UnpublishInv, RestoreInv, DiscardInv,
     OldFilesRecoverable, ErrorRestoresOrKeepsStaging, TypeOK

-----------------------------------------------------------------------------
(* IInv is preserved by every action.                                      *)

\* A new transaction remembers the directory it found.
LEMMA BeginKeeps ==
    ASSUME IInv, NEW v \in Versions, Begin(v) \/ BeginFails(v)
    PROVE  IInv'
<1> USE BundleAssumption
    DEF IInv, TypeOK, Contents, Phases, Coherent, IdleInv, LocalsEmpty,
         StagingInv, BackupInv, PublishInv, CleanupInv, UnpublishInv, RestoreInv,
         DiscardInv, OldFilesRecoverable, ErrorRestoresOrKeepsStaging, Image, SingleVersion
<1>1. CASE Begin(v)
  BY <1>1 DEF Begin, NoFault, NoFile
<1>2. CASE BeginFails(v)
  BY <1>2 DEF BeginFails, Fault, NoFile
<1> QED BY <1>1, <1>2

\* Until the commit starts the stage directory is not touched.
LEMMA StagingKeeps ==
    ASSUME IInv, NEW n \in Names, Stage(n) \/ StartCommit \/ Abandon
    PROVE  IInv'
<1> USE BundleAssumption
    DEF IInv, TypeOK, Contents, Phases, Coherent, IdleInv, LocalsEmpty,
         StagingInv, BackupInv, PublishInv, CleanupInv, UnpublishInv, RestoreInv,
         DiscardInv, OldFilesRecoverable, ErrorRestoresOrKeepsStaging, Image, SingleVersion
<1>1. CASE Stage(n)
  BY <1>1 DEF Stage, NoFault
<1>2. CASE StartCommit
  BY <1>2 DEF StartCommit, Enter, NoFault
<1>3. CASE Abandon
  BY <1>3 DEF Abandon, Fault, Return, RemoveStaging, PartlyRemoveStaging, NoFile
<1> QED BY <1>1, <1>2, <1>3

\* Old files leave the directory behind their marker and are kept.
LEMMA BackingUpKeeps ==
    ASSUME IInv, NEW n \in Names, BackUp(n) \/ BackUpFails(n) \/ StartPublish
    PROVE  IInv'
<1> USE BundleAssumption
    DEF IInv, TypeOK, Contents, Phases, Coherent, IdleInv, LocalsEmpty,
         StagingInv, BackupInv, PublishInv, CleanupInv, UnpublishInv, RestoreInv,
         DiscardInv, OldFilesRecoverable, ErrorRestoresOrKeepsStaging, Image, SingleVersion
<1>1. CASE BackUp(n)
  BY <1>1 DEF BackUp, NextToBackUp, NoFault
<1>2. CASE BackUpFails(n)
  BY <1>2 DEF BackUpFails, NextToBackUp, Enter, Fault
<1>3. CASE StartPublish
  BY <1>3 DEF StartPublish, Enter, NoFault
<1> QED BY <1>1, <1>2, <1>3

\* New files arrive before their marker.
LEMMA PublishingKeeps ==
    ASSUME IInv, NEW n \in Names, Publish(n) \/ PublishFails(n) \/ FinishPublish \/ Cleanup \/ CleanupFails
    PROVE  IInv'
<1> USE BundleAssumption
    DEF IInv, TypeOK, Contents, Phases, Coherent, IdleInv, LocalsEmpty,
         StagingInv, BackupInv, PublishInv, CleanupInv, UnpublishInv, RestoreInv,
         DiscardInv, OldFilesRecoverable, ErrorRestoresOrKeepsStaging, Image, SingleVersion
<1>1. CASE Publish(n)
  <2> USE <1>1 DEF Publish, NextToPublish, NoFault
  <2>1. TypeOK'
    OBVIOUS
  <2>2. PublishInv'
    <3>1. /\ todo' \subseteq Bundle[cur]
          /\ published' = Bundle[cur] \ todo'
          /\ Marker \in published' => todo' = {}
      OBVIOUS
    <3>2. \A m \in Names : target'[m] = IF m \in published' THEN cur ELSE Absent
      OBVIOUS
    <3> QED BY <3>1, <3>2
  <2>3. Coherent(target)'
    <3>1. CASE n = Marker
      <4>1. published' = Bundle[cur] /\ cur \in Versions
        BY <3>1
      <4>2. target' = Image(cur)
        BY <4>1, <2>1, <2>2
      <4>3. target'[Marker] = cur
        BY <4>1, <4>2, ImageCoherent
      <4> QED BY <4>2, <4>3
    <3>2. CASE n # Marker
      BY <3>2
    <3> QED BY <3>1, <3>2
  <2>4. OldFilesRecoverable'
    BY <2>1
  <2> QED BY <2>1, <2>2, <2>3, <2>4
<1>2. CASE PublishFails(n)
  BY <1>2 DEF PublishFails, NextToPublish, Enter, Fault
<1>3. CASE FinishPublish
  BY <1>3 DEF FinishPublish, Enter, NoFault
<1>4. CASE Cleanup
  BY <1>4 DEF Cleanup, Return, RemoveStaging, NoFault, NoFile
<1>5. CASE CleanupFails
  BY <1>5 DEF CleanupFails, Return, PartlyRemoveStaging, Fault
<1> QED BY <1>1, <1>2, <1>3, <1>4, <1>5

\* A rollback gives back what was there, the marker last.
LEMMA RollingBackKeeps ==
    ASSUME IInv, NEW n \in Names, Unpublish(n) \/ StartRestore \/ Restore(n) \/ FinishRestore \/ RollbackFails \/ Discard \/ DiscardFails
    PROVE  IInv'
<1> USE BundleAssumption
    DEF IInv, TypeOK, Contents, Phases, Coherent, IdleInv, LocalsEmpty,
         StagingInv, BackupInv, PublishInv, CleanupInv, UnpublishInv, RestoreInv,
         DiscardInv, OldFilesRecoverable, ErrorRestoresOrKeepsStaging, Image, SingleVersion
<1>1. CASE Unpublish(n)
  <2> USE <1>1 DEF Unpublish, NoFault
  <2>1. TypeOK'
    OBVIOUS
  <2>2. n # Marker /\ target[Marker] = Absent
    OBVIOUS
  <2>3. UnpublishInv'
    BY <2>2
  <2>4. Coherent(target)' /\ OldFilesRecoverable'
    BY <2>2, <2>3
  <2> QED BY <2>1, <2>2, <2>3, <2>4
<1>2. CASE StartRestore
  BY <1>2 DEF StartRestore, Enter, NoFault
<1>3. CASE Restore(n)
  <2> USE <1>3 DEF Restore, NextToRestore, NoFault
  <2>1. TypeOK'
    OBVIOUS
  <2>2. RestoreInv'
    OBVIOUS
  <2>3. Coherent(target)'
    <3>1. CASE target'[Marker] = Absent
      BY <3>1
    <3>2. CASE target'[Marker] # Absent
      <4>1. todo' = {}
        BY <3>2, <2>2
      <4>2. target' = before
        BY <4>1, <2>1, <2>2
      <4> QED BY <4>2, GivenBack
    <3> QED BY <3>1, <3>2
  <2>4. OldFilesRecoverable'
    OBVIOUS
  <2> QED BY <2>1, <2>2, <2>3, <2>4
<1>4. CASE FinishRestore
  BY <1>4 DEF FinishRestore, Enter, NoFault
<1>5. CASE RollbackFails
  BY <1>5 DEF RollbackFails, Return, Fault
<1>6. CASE Discard
  BY <1>6 DEF Discard, Return, RemoveStaging, NoFault, NoFile
<1>7. CASE DiscardFails
  BY <1>7 DEF DiscardFails, Return, PartlyRemoveStaging, Fault
<1> QED BY <1>1, <1>2, <1>3, <1>4, <1>5, <1>6, <1>7

\* A killed process leaves the directory coherent and the old files recoverable.
LEMMA CrashKeeps ==
    ASSUME IInv, Crash
    PROVE  IInv'
<1> USE BundleAssumption
    DEF IInv, TypeOK, Contents, Phases, Coherent, IdleInv, LocalsEmpty,
         StagingInv, BackupInv, PublishInv, CleanupInv, UnpublishInv, RestoreInv,
         DiscardInv, OldFilesRecoverable, ErrorRestoresOrKeepsStaging, Image, SingleVersion
<1> QED BY DEF Crash, Return, Fault

LEMMA StepIInv == IInv /\ [Next]_vars => IInv'
<1> SUFFICES ASSUME IInv, [Next]_vars PROVE IInv'
  OBVIOUS
<1>1. CASE UNCHANGED vars
  BY <1>1 DEF vars, IInv, TypeOK, Contents, Phases, Coherent, IdleInv, LocalsEmpty,
     StagingInv, BackupInv, PublishInv, CleanupInv, UnpublishInv, RestoreInv,
     DiscardInv, OldFilesRecoverable, ErrorRestoresOrKeepsStaging, Image, SingleVersion
<1>2. CASE \E v \in Versions : Begin(v)
  BY <1>2, BeginKeeps
<1>3. CASE CommitStep
  BY <1>3, BundleAssumption, StagingKeeps, BackingUpKeeps, PublishingKeeps, RollingBackKeeps
     DEF CommitStep
<1>4. CASE FaultStep
  BY <1>4, BundleAssumption, BeginKeeps, StagingKeeps, BackingUpKeeps, PublishingKeeps,
     RollingBackKeeps, CrashKeeps DEF FaultStep
<1> QED BY <1>1, <1>2, <1>3, <1>4 DEF Next

LEMMA InvariantHolds == Spec => []IInv
BY InitIInv, StepIInv, PTL DEF Spec

-----------------------------------------------------------------------------
\* Every variable of the transaction keeps its type; a commit that is running
\* has its staging directory.
THEOREM TypeCorrect == Spec => []TypeOK
<1>1. IInv => TypeOK
  BY DEF IInv
<1> QED BY <1>1, InvariantHolds, PTL

\* A completion artifact in the directory vouches for one whole bundle, whatever
\* failed or was interrupted.
THEOREM BundlesStayWhole == Spec => []MarkerVouchesForBundle
<1>1. IInv => MarkerVouchesForBundle
  BY DEF IInv, MarkerVouchesForBundle
<1> QED BY <1>1, InvariantHolds, PTL

\* Files of two transactions are never in the directory together.
THEOREM VersionsNeverMix == Spec => []NeverMixed
<1>1. IInv => NeverMixed
  BY DEF IInv, NeverMixed
<1> QED BY <1>1, InvariantHolds, PTL

\* No content of the old directory is lost before the new marker is in place.
THEOREM NoOldFileIsLost == Spec => []OldFilesRecoverable
<1>1. IInv => OldFilesRecoverable
  BY DEF IInv
<1> QED BY <1>1, InvariantHolds, PTL

\* An error either restored the directory or kept the staging directory.
THEOREM ErrorsAreSafe == Spec => []ErrorRestoresOrKeepsStaging
<1>1. IInv => ErrorRestoresOrKeepsStaging
  BY DEF IInv
<1> QED BY <1>1, InvariantHolds, PTL

-----------------------------------------------------------------------------
(* Refinement of AtomicBundle.                                             *)

\* Steps that move no old bundle out, no new bundle in and remember nothing are
\* invisible to a reader who looks for the marker first.
LEMMA HiddenStep ==
    ASSUME TypeOK, before' = before,
           target' = target \/ (target[Marker] = Absent /\ target'[Marker] = Absent)
    PROVE  UNCHANGED Abstract!vars
BY DEF Abstract!vars, View

\* The marker is the first file to leave: the bundle is withdrawn whole.
LEMMA BackUpWithdraws ==
    ASSUME IInv, IInv', NEW n \in Names, BackUp(n)
    PROVE  [Abstract!Next]_(Abstract!vars)
<1> USE BundleAssumption DEF BackUp, NextToBackUp
<1>1. CASE n = Marker /\ target[Marker] # Absent
  <2>1. target = before
    <3>1. todo = Names
      BY <1>1 DEF IInv, BackupInv
    <3>2. \A m \in Names : target[m] = before[m]
      BY <3>1 DEF IInv, BackupInv
    <3> QED BY <3>2 DEF IInv, TypeOK
  <2>2. target'[Marker] = Absent /\ before' = before
    BY <1>1 DEF IInv, TypeOK
  <2>3. View(target) = target /\ View(before) = target /\ target # Nothing
    BY <1>1, <2>1, NothingAssumption DEF View, IInv, TypeOK
  <2>4. Abstract!Withdraw
    BY <2>2, <2>3, <2>1 DEF Abstract!Withdraw, View
  <2> QED BY <2>4 DEF Abstract!Next
<1>2. CASE target[Marker] = Absent \/ n # Marker
  <2>1. target[Marker] = Absent
    BY <1>2 DEF IInv, BackupInv
  <2>2. target'[Marker] = Absent
    BY <2>1 DEF IInv, TypeOK
  <2> QED BY <2>1, <2>2, HiddenStep DEF IInv
<1> QED BY <1>1, <1>2

\* The marker is the last file to arrive: the bundle is installed whole.
LEMMA PublishInstalls ==
    ASSUME IInv, IInv', NEW n \in Names, Publish(n)
    PROVE  [Abstract!Next]_(Abstract!vars)
<1> USE BundleAssumption DEF Publish, NextToPublish
<1>1. target[Marker] = Absent
  BY DEF IInv, PublishInv, TypeOK
<1>2. CASE n = Marker
  <2>1. cur \in Versions /\ cur # Absent
    BY DEF IInv, TypeOK
  <2>2. target'[Marker] = cur
    BY <1>2 DEF IInv, TypeOK
  <2>3. target' = Image(cur)
    BY <2>1, <2>2 DEF IInv, Coherent
  <2>4. View(target)' = Image(cur) /\ View(target) = Nothing /\ View(before)' = View(before)
    BY <1>1, <2>1, <2>2, <2>3 DEF View
  <2>5. Abstract!Install(cur)
    BY <2>4 DEF Abstract!Install
  <2> QED BY <2>1, <2>5 DEF Abstract!Next
<1>3. CASE n # Marker
  <2>1. target'[Marker] = Absent
    BY <1>1, <1>3 DEF IInv, TypeOK
  <2> QED BY <1>1, <2>1, HiddenStep DEF IInv
<1> QED BY <1>2, <1>3

\* The marker is the last file to return: the withdrawn bundle is given back.
LEMMA RestoreGivesBack ==
    ASSUME IInv, IInv', NEW n \in Names, Restore(n)
    PROVE  [Abstract!Next]_(Abstract!vars)
<1> USE BundleAssumption DEF Restore, NextToRestore
<1>1. target[Marker] = Absent /\ before' = before
  BY DEF IInv, RestoreInv
<1>2. CASE target'[Marker] = Absent
  BY <1>1, <1>2, HiddenStep DEF IInv
<1>3. CASE target'[Marker] # Absent
  <2>1. todo' = {}
    BY <1>3 DEF IInv, RestoreInv
  <2>2. \A m \in Names : target'[m] = before'[m]
    BY <2>1 DEF IInv, RestoreInv
  <2>3. target' = before
    BY <1>1, <2>2 DEF IInv, TypeOK
  <2>4. View(target)' = View(before) /\ View(target) = Nothing /\ View(before)' = View(before)
    BY <1>1, <2>3 DEF View
  <2>5. Abstract!Restore
    BY <2>4 DEF Abstract!Restore
  <2> QED BY <2>5 DEF Abstract!Next
<1> QED BY <1>2, <1>3

\* Deleting published files happens while the marker is out of the directory.
LEMMA UnpublishHidden ==
    ASSUME IInv, NEW n \in Names, Unpublish(n)
    PROVE  [Abstract!Next]_(Abstract!vars)
<1>1. target[Marker] = Absent /\ n # Marker
  BY BundleAssumption DEF Unpublish, IInv, UnpublishInv
<1>2. target'[Marker] = Absent /\ before' = before
  BY <1>1, BundleAssumption DEF Unpublish, IInv, TypeOK
<1> QED BY <1>1, <1>2, HiddenStep DEF IInv

\* All other actions leave the directory alone; only begin remembers it.
LEMMA OtherSteps ==
    ASSUME IInv,
           \/ \E v \in Versions : Begin(v) \/ BeginFails(v)
           \/ target' = target /\ before' = before
    PROVE  [Abstract!Next]_(Abstract!vars)
<1>1. CASE \E v \in Versions : Begin(v) \/ BeginFails(v)
  <2>1. target' = target /\ before' = target
    BY <1>1 DEF Begin, BeginFails
  <2>2. Abstract!Remember
    BY <2>1 DEF Abstract!Remember, View
  <2> QED BY <2>2 DEF Abstract!Next
<1>2. CASE target' = target /\ before' = before
  BY <1>2, HiddenStep DEF IInv
<1> QED BY <1>1, <1>2

\* The initial directory shows nothing or one bundle.
LEMMA InitRefines == Init => Abstract!Init
<1> SUFFICES ASSUME Init PROVE Abstract!Init
  OBVIOUS
<1>1. IInv
  BY InitIInv
<1>2. before = target
  BY DEF Init
<1>3. View(target) \in Abstract!Views
  <2>1. CASE target[Marker] = Absent
    BY <2>1 DEF View, Abstract!Views
  <2>2. CASE target[Marker] # Absent
    <3>1. target[Marker] \in Versions /\ target = Image(target[Marker])
      BY <1>1, <2>2, BundleAssumption DEF IInv, TypeOK, Contents, Coherent
    <3> QED BY <2>2, <3>1 DEF View, Abstract!Views
  <2> QED BY <2>1, <2>2
<1> QED BY <1>2, <1>3 DEF Abstract!Init

LEMMA NextRefines == IInv /\ IInv' /\ [Next]_vars => [Abstract!Next]_(Abstract!vars)
<1> SUFFICES ASSUME IInv, IInv', [Next]_vars
             PROVE  [Abstract!Next]_(Abstract!vars)
  OBVIOUS
<1>1. CASE UNCHANGED vars
  BY <1>1, OtherSteps DEF vars
<1>2. CASE \E v \in Versions : Begin(v)
  BY <1>2, OtherSteps
<1>3. CASE CommitStep
  <2>1. CASE \E n \in Names : BackUp(n) \/ Publish(n) \/ Unpublish(n) \/ Restore(n)
    BY <2>1, BackUpWithdraws, PublishInstalls, UnpublishHidden, RestoreGivesBack
  <2>2. CASE \E n \in Names : Stage(n)
    BY <2>2, OtherSteps DEF Stage
  <2>3. CASE StartCommit \/ StartPublish \/ FinishPublish \/ Cleanup
             \/ StartRestore \/ FinishRestore \/ Discard
    BY <2>3, OtherSteps DEF StartCommit, StartPublish, FinishPublish, Cleanup,
       StartRestore, FinishRestore, Discard
  <2> QED BY <1>3, <2>1, <2>2, <2>3 DEF CommitStep
<1>4. CASE FaultStep
  <2>1. CASE \E v \in Versions : BeginFails(v)
    BY <2>1, OtherSteps
  <2>2. CASE \E n \in Names : BackUpFails(n) \/ PublishFails(n)
    BY <2>2, OtherSteps DEF BackUpFails, PublishFails
  <2>3. CASE Abandon \/ CleanupFails \/ RollbackFails \/ DiscardFails \/ Crash
    BY <2>3, OtherSteps DEF Abandon, CleanupFails, RollbackFails, DiscardFails, Crash
  <2> QED BY <1>4, <2>1, <2>2, <2>3 DEF FaultStep
<1> QED BY <1>1, <1>2, <1>3, <1>4 DEF Next

\* The commit with its backups, rollback and crashes implements AtomicBundle: a
\* reader guarded by the marker sees nothing or one whole bundle, and a failed
\* commit gives back the bundle it withdrew or nothing.
THEOREM CommitIsAtomic == Spec => ImplementsAtomicBundle
<1>1. Init => Abstract!Init
  BY InitRefines
<1>2. IInv /\ IInv' /\ [Next]_vars => [Abstract!Next]_(Abstract!vars)
  BY NextRefines
<1> QED BY <1>1, <1>2, InvariantHolds, PTL DEF Spec, ImplementsAtomicBundle, Abstract!Spec
=============================================================================

------------------------- MODULE Stage6CachesProofs -------------------------
(***************************************************************************)
(* Theorems of Stage6Caches, for any inputs, kills, changes and damages.   *)
(***************************************************************************)
EXTENDS Stage6Caches, TLAPS

\* What a checksum covers was computed from the input whose fingerprint it
\* covers, and only a damaged file differs from what its checksum covers.
Honest(f) ==
    /\ f.over = [fingerprint |-> f.over.fingerprint, payload |-> {f.over.fingerprint}]
    /\ damages = 0 => f.over = [fingerprint |-> f.fingerprint, payload |-> f.payload]

FilesInvariant ==
    \A c \in Caches :
        /\ file[c] \in Files => Honest(file[c])
        /\ damages = 0 => file[c] # Unreadable

\* What a run obtained so far comes from its input.
RunInvariant ==
    \A i \in 1..3 : i < step => loaded[Names[i]] = {input}

IInv == TypeOK /\ FilesInvariant /\ RunInvariant

LEMMA NamesAreCaches ==
    /\ \A i \in 1..3 : Names[i] \in Caches
    /\ \A i, j \in 1..3 : Names[i] = Names[j] => i = j
    /\ \A c \in Caches : \E i \in 1..3 : c = Names[i]
  BY DEF Names, Caches

LEMMA InitEstablishes == Init => IInv
<1> SUFFICES ASSUME Init PROVE IInv
  OBVIOUS
<1>1. TypeOK
  BY CachesAssumption, NamesAreCaches DEF Init, TypeOK, Payloads
<1>2. FilesInvariant
  BY FilesAssumption DEF Init, FilesInvariant
<1>3. RunInvariant
  BY DEF Init, RunInvariant
<1> QED
  BY <1>1, <1>2, <1>3 DEF IInv

\* A cache built by a run that obtained the earlier ones from its input is
\* computed from that input only.
LEMMA BuildFromInput ==
    ASSUME IInv, step \in 1..3
    PROVE  Name \in Caches /\ Build(Name) = {input} /\ input \in Inputs
  BY DEF IInv, TypeOK, RunInvariant, Name, Names, Caches, Build

LEMMA SealedIsHonest ==
    ASSUME NEW i \in Inputs, NEW f, f = [fingerprint |-> i, payload |-> {i},
                                         over |-> [fingerprint |-> i, payload |-> {i}]]
    PROVE  f \in Files /\ Honest(f)
  BY DEF Files, Payloads, Honest

\* Going on to the next cache with a payload of this run's input.
LEMMA ObtainedPreserves ==
    ASSUME IInv, step \in 1..3, Obtained({input}), UNCHANGED input
    PROVE  /\ step' \in 0..4 /\ step' = step + 1
           /\ loaded' \in [Caches -> Payloads]
           /\ \A i \in 1..3 : 0 < step' /\ step' <= i => loaded'[Names[i]] = {}
           /\ result' \in {"none", "ready", "failed", "killed"}
           /\ RunInvariant'
<1>1. step' = step + 1 /\ step' \in 0..4
  BY DEF Obtained
<1>2. loaded' = [loaded EXCEPT ![Names[step]] = {input}] /\ {input} \in Payloads
  BY DEF Obtained, Name, Payloads, IInv, TypeOK
<1>3. loaded' \in [Caches -> Payloads]
  BY <1>2 DEF IInv, TypeOK
<1>4. \A i \in 1..3 : loaded'[Names[i]] = IF i = step THEN {input} ELSE loaded[Names[i]]
  BY <1>2, NamesAreCaches DEF IInv, TypeOK
<1>5. \A i \in 1..3 : 0 < step' /\ step' <= i => loaded'[Names[i]] = {}
  BY <1>1, <1>4 DEF IInv, TypeOK
<1>6. RunInvariant'
  BY <1>1, <1>4 DEF IInv, RunInvariant
<1> QED
  BY <1>1, <1>3, <1>5, <1>6 DEF Obtained, IInv, TypeOK

\* Writing one honest cache, or losing one, preserves what is known of the files.
LEMMA WritePreserves ==
    ASSUME IInv, NEW c \in Caches, NEW f, file' = [file EXCEPT ![c] = f],
           UNCHANGED damages, f = file[c] \/ f = NoFile \/ (f \in Files /\ Honest(f))
    PROVE  file' \in [Caches -> Files \cup {NoFile, Unreadable}] /\ FilesInvariant'
<1>1. /\ f \in Files \cup {NoFile, Unreadable}
      /\ f \in Files => Honest(f)
      /\ damages = 0 => f # Unreadable
  BY FilesAssumption DEF IInv, TypeOK, FilesInvariant
<1>2. \A d \in Caches : file'[d] = IF d = c THEN f ELSE file[d]
  BY DEF IInv, TypeOK
<1>3. FilesInvariant'
  BY <1>1, <1>2 DEF IInv, FilesInvariant, Honest
<1> QED
  BY <1>1, <1>3 DEF IInv, TypeOK

LEMMA FaultPreserves == IInv /\ Fault => faults' \in 0..MaxFaults
  BY CachesAssumption DEF IInv, TypeOK, Fault

\* A damaged file keeps the checksum it had.
LEMMA DamagePreserves == IInv /\ Damage => IInv'
<1> SUFFICES ASSUME IInv, Damage PROVE IInv'
  OBVIOUS
<1>1. PICK c \in Caches : /\ file[c] \in Files
                         /\ \E f \in {Unreadable,
                                      [file[c] EXCEPT !.payload = {Garbage}],
                                      [file[c] EXCEPT !.fingerprint = OldSchema]}
                                   \cup {[file[c] EXCEPT !.fingerprint = i] : i \in Inputs} :
                               file' = [file EXCEPT ![c] = f]
  BY DEF Damage
<1>2. PICK f \in {Unreadable,
                  [file[c] EXCEPT !.payload = {Garbage}],
                  [file[c] EXCEPT !.fingerprint = OldSchema]}
               \cup {[file[c] EXCEPT !.fingerprint = i] : i \in Inputs} :
              file' = [file EXCEPT ![c] = f]
  BY <1>1
<1>3. damages' \in 0..MaxDamages /\ damages' # 0
  BY CachesAssumption DEF Damage, IInv, TypeOK
<1>4. f = Unreadable \/ (f \in Files /\ f.over = file[c].over)
  BY <1>1, <1>2 DEF Files, Payloads
<1>5. file' \in [Caches -> Files \cup {NoFile, Unreadable}]
  BY <1>2, <1>4 DEF IInv, TypeOK
<1>6. FilesInvariant'
  <2> SUFFICES ASSUME NEW d \in Caches, file'[d] \in Files
               PROVE  Honest(file[d])'
    BY <1>3 DEF FilesInvariant
  <2>1. file'[d] = IF d = c THEN f ELSE file[d]
    BY <1>2 DEF IInv, TypeOK
  <2>2. file'[d].over = file[d].over /\ file[d] \in Files
    BY <2>1, <1>1, <1>4, FilesAssumption
  <2> QED
    BY <2>2, <1>3 DEF Honest, IInv, FilesInvariant
<1>7. RunInvariant' /\ TypeOK'
  BY <1>3, <1>5 DEF Damage, IInv, TypeOK, RunInvariant
<1> QED
  BY <1>6, <1>7 DEF IInv

LEMMA StepPreserves ==
    ASSUME IInv, [Next]_vars
    PROVE  IInv'
<1> USE CachesAssumption
<1>1. CASE ChangeInput
  <2>1. TypeOK' /\ RunInvariant'
    BY <1>1 DEF ChangeInput, IInv, TypeOK, RunInvariant
  <2>2. FilesInvariant'
    BY <1>1 DEF ChangeInput, IInv, FilesInvariant, Honest
  <2> QED
    BY <2>1, <2>2 DEF IInv
<1>2. CASE Damage
  BY <1>2, DamagePreserves
<1>3. CASE Discard
  <2>1. PICK c \in Caches : file' = [file EXCEPT ![c] = NoFile]
    BY <1>3 DEF Discard
  <2>2. file' \in [Caches -> Files \cup {NoFile, Unreadable}] /\ FilesInvariant'
    BY <1>3, <2>1, WritePreserves DEF Discard
  <2> QED
    BY <1>3, <2>2 DEF Discard, IInv, TypeOK, RunInvariant
<1>4. CASE Start
  <2>1. TypeOK' /\ RunInvariant'
    BY <1>4, NamesAreCaches DEF Start, IInv, TypeOK, RunInvariant, Payloads
  <2>2. FilesInvariant'
    BY <1>4 DEF Start, IInv, FilesInvariant, Honest
  <2> QED
    BY <2>1, <2>2 DEF IInv
<1>5. CASE Load
  <2>1. Name \in Caches /\ file[Name] \in Files
    BY <1>5, BuildFromInput DEF Load, MustBuild, Rejected, IInv, TypeOK
  <2>2. file[Name].payload = {input}
    <3>1. file[Name] \notin {NoFile, Unreadable}
      BY <2>1, FilesAssumption
    <3>2. file[Name].over = [fingerprint |-> input, payload |-> file[Name].payload]
      BY <1>5, <3>1 DEF Load, MustBuild, Rejected, Valid
    <3>3. file[Name].over = [fingerprint |-> file[Name].over.fingerprint,
                             payload |-> {file[Name].over.fingerprint}]
      BY <2>1 DEF IInv, FilesInvariant, Honest
    <3>4. file[Name].over.fingerprint = input /\ file[Name].over.payload = file[Name].payload
      BY <3>2
    <3>5. file[Name].over.payload = {file[Name].over.fingerprint}
      BY <3>3
    <3> QED
      BY <3>4, <3>5
  <2>3. Obtained({input})
    BY <1>5, <2>2 DEF Load
  <2>4. FilesInvariant'
    BY <1>5 DEF Load, IInv, FilesInvariant, Honest
  <2> QED
    BY <1>5, <2>3, <2>4, ObtainedPreserves DEF Load, IInv, TypeOK
<1>6. CASE LoadFails
  <2>1. FilesInvariant'
    BY <1>6 DEF LoadFails, IInv, FilesInvariant, Honest
  <2> QED
    BY <1>6, <2>1 DEF LoadFails, IInv, TypeOK, RunInvariant
<1>7. CASE Rebuild
  <2>1. Name \in Caches /\ Build(Name) = {input} /\ input \in Inputs
    BY <1>7, BuildFromInput DEF Rebuild
  <2>2. Sealed({input}) \in Files /\ Honest(Sealed({input}))
    BY <2>1, SealedIsHonest DEF Sealed
  <2>3. file' \in [Caches -> Files \cup {NoFile, Unreadable}] /\ FilesInvariant'
    BY <1>7, <2>1, <2>2, WritePreserves DEF Rebuild
  <2>4. Obtained({input})
    BY <1>7, <2>1 DEF Rebuild
  <2> QED
    BY <1>7, <2>3, <2>4, ObtainedPreserves DEF Rebuild, IInv, TypeOK
<1>8. CASE RebuildFails
  <2>1. Name \in Caches
    BY <1>8, BuildFromInput DEF RebuildFails
  <2>2. PICK f \in {file[Name], NoFile} : file' = [file EXCEPT ![Name] = f]
    BY <1>8 DEF RebuildFails
  <2>3. file' \in [Caches -> Files \cup {NoFile, Unreadable}] /\ FilesInvariant'
    BY <1>8, <2>1, <2>2, WritePreserves DEF RebuildFails
  <2> QED
    BY <1>8, <2>3, FaultPreserves DEF RebuildFails, IInv, TypeOK, RunInvariant
<1>9. CASE Killed
  <2>1. file' \in [Caches -> Files \cup {NoFile, Unreadable}] /\ FilesInvariant'
    <3>1. CASE UNCHANGED file
      BY <1>9, <3>1 DEF Killed, IInv, TypeOK, FilesInvariant, Honest
    <3>2. CASE step \in 1..3 /\ \E f \in {NoFile, Sealed(Build(Name))} :
                                   file' = [file EXCEPT ![Name] = f]
      <4>1. Name \in Caches /\ Build(Name) = {input} /\ input \in Inputs
        BY <3>2, BuildFromInput
      <4>2. Sealed({input}) \in Files /\ Honest(Sealed({input}))
        BY <4>1, SealedIsHonest DEF Sealed
      <4>3. PICK f \in {NoFile, Sealed({input})} : file' = [file EXCEPT ![Name] = f]
        BY <3>2, <4>1
      <4> QED
        BY <1>9, <4>1, <4>2, <4>3, WritePreserves DEF Killed
    <3> QED
      BY <1>9, <3>1, <3>2 DEF Killed
  <2> QED
    BY <1>9, <2>1, FaultPreserves DEF Killed, IInv, TypeOK, RunInvariant
<1>10. CASE Solve
  <2>1. FilesInvariant'
    BY <1>10 DEF Solve, IInv, FilesInvariant, Honest
  <2> QED
    BY <1>10, <2>1 DEF Solve, IInv, TypeOK, RunInvariant
<1>11. CASE UNCHANGED vars
  BY <1>11 DEF vars, IInv, TypeOK, FilesInvariant, Honest, RunInvariant
<1> QED
  BY <1>1, <1>2, <1>3, <1>4, <1>5, <1>6, <1>7, <1>8, <1>9, <1>10, <1>11 DEF Next, RunStep

LEMMA IInvHolds == Spec => []IInv
<1>1. IInv /\ [Next]_vars => IInv'
  BY StepPreserves
<1> QED
  BY <1>1, InitEstablishes, PTL DEF Spec

\* Every reachable state is well typed, and a run holds no cache it has not come
\* to yet.
THEOREM TypeCorrect == Spec => []TypeOK
<1>1. IInv => TypeOK
  BY DEF IInv
<1> QED
  BY <1>1, IInvHolds, PTL

\* The solves see three caches of one input, that of the run.
THEOREM OneInputIsSolved == Spec => []SolvesSeeOneInput
<1>1. IInv => SolvesSeeOneInput
  BY NamesAreCaches DEF IInv, RunInvariant, SolvesSeeOneInput
<1> QED
  BY <1>1, IInvHolds, PTL

\* No kill or failed write makes a later run stop at a cache.
THEOREM OnlyDamageBlocks == Spec => []InterruptionsDoNotBlock
<1>1. IInv => InterruptionsDoNotBlock
  BY DEF IInv, TypeOK, FilesInvariant, Honest, InterruptionsDoNotBlock
<1> QED
  BY <1>1, IInvHolds, PTL

\* No run loses a complete current cache.
THEOREM CompleteCachesSurvive == Spec => CompleteCachesAreKept
<1>1. IInv /\ [Next]_vars =>
        [step # 0 => \A c \in Caches : file[c] = Sealed({input}) => file'[c] = file[c]]_vars
  <2> SUFFICES ASSUME IInv, Next, step # 0,
                      NEW c \in Caches, file[c] = Sealed({input})
               PROVE  file'[c] = file[c]
    OBVIOUS
  <2>1. Sealed({input}) \in Files
    BY SealedIsHonest DEF Sealed, IInv, TypeOK
  <2>2. step \in 1..3 /\ MustBuild(Name) => c # Name
    BY <2>1, FilesAssumption DEF MustBuild, Matches, Sealed
  <2>3. \/ UNCHANGED file
        \/ step \in 1..3 /\ MustBuild(Name) /\ \E f : file' = [file EXCEPT ![Name] = f]
    BY DEF Next, RunStep, ChangeInput, Damage, Discard, Start, Load, LoadFails, Rebuild,
           RebuildFails, Killed, Solve
  <2> QED
    BY <2>2, <2>3 DEF IInv, TypeOK
<1> QED
  BY <1>1, IInvHolds, PTL DEF Spec, CompleteCachesAreKept
=============================================================================

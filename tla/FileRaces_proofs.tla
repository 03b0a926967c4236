-------------------------- MODULE FileRaces_proofs --------------------------
(***************************************************************************)
(* Proofs about files that several processes write: the OAuth model        *)
(* registry, the items of the atelier, the settings hooks are registered   *)
(* in, and the grants and rules of onboarding.  The components share       *)
(* nothing; each has a part of its own.                                    *)
(***************************************************************************)
EXTENDS RegistryFile, Registration, AtelierReconcile, Onboarding, SequenceTheorems, TLAPS

----------------------------------------------------------------------------
(***************************************************************************)
(* The registry file for every number of processes, on both platforms:     *)
(* type correctness, no lost update, and that what readers see implements  *)
(* RegistryStore.                                                          *)
(***************************************************************************)

\* Between the lock and its release.
Inside == {"locked", "read", "backedUp", "written", "undone"}

\* A process inside owns the lock file; nobody else is inside, or about to
\* write its pid into a file it has created.
LockInv ==
    /\ \A u \in Updaters : pc[u] \in Inside => lock = u
    /\ \A u \in Updaters : pc[u] = "opened" => lock = NoPid
    /\ \A u, v \in Updaters : pc[u] = "opened" /\ pc[v] = "opened" => u = v

\* Readers get the file itself; what a process has read is still there when it
\* writes, and an update is in the file exactly from its write on.
FileInv ==
    /\ broken = {}
    /\ main.revision = 0 => main = NoState /\ backup.revision = 0
    /\ \A u \in Updaters : pc[u] \in {"read", "backedUp"} => previous[u] = main
    /\ \A u \in Updaters : pc[u] \in {"idle", "opened", "locked", "read", "backedUp"} => u \notin main.updates
    /\ \A u \in Updaters : pc[u] \in {"written", "done"} => u \in main.updates

IInv == TypeOK /\ LockInv /\ FileInv

LEMMA InitInv == Init => IInv
BY LockAssumption DEF Init, IInv, TypeOK, LockInv, FileInv, States, NoState, Places, Working, Inside

\* What a reader gets is the file.
LEMMA ReadableIsMain == ASSUME IInv PROVE Readable = main
BY DEF IInv, TypeOK, FileInv, Readable, States, NoState

LEMMA StepInv == ASSUME IInv, NEW u \in Updaters, Step(u) PROVE IInv'
<1> USE LockAssumption DEF IInv, Places, Working, Inside
<1>1. CASE OpenLock(u)
  BY <1>1 DEF OpenLock, files, TypeOK, LockInv, FileInv
<1>2. CASE WritePid(u)
  BY <1>2 DEF WritePid, files, TypeOK, LockInv, FileInv
<1>3. CASE TakeNativeLock(u)
  BY <1>3 DEF TakeNativeLock, Dead, files, TypeOK, LockInv, FileInv
<1>4. CASE Read(u)
  BY <1>4, ReadableIsMain DEF Read, files, TypeOK, LockInv, FileInv
<1>5. CASE Backup(u)
  BY <1>5 DEF Backup, files, TypeOK, LockInv, FileInv, NoState, States
<1>6. CASE Write(u)
  BY <1>6 DEF Write, Changed, files, TypeOK, LockInv, FileInv, NoState, States
<1>7. CASE StepFails(u)
  BY <1>7 DEF StepFails, files, TypeOK, LockInv, FileInv
<1>8. CASE Release(u)
  BY <1>8 DEF Release, files, TypeOK, LockInv, FileInv
<1>9. CASE LockFails(u)
  BY <1>9 DEF LockFails, files, TypeOK, LockInv, FileInv
<1>10. CASE Crash(u)
  BY <1>10 DEF Crash, files, TypeOK, LockInv, FileInv
<1> QED
  BY <1>1, <1>2, <1>3, <1>4, <1>5, <1>6, <1>7, <1>8, <1>9, <1>10 DEF Step, Acquire

LEMMA NextInv == IInv /\ [Next]_vars => IInv'
<1> SUFFICES ASSUME IInv, [Next]_vars PROVE IInv'
  OBVIOUS
<1>1. CASE Next
  BY <1>1, StepInv DEF Next
<1>2. CASE UNCHANGED vars
  BY <1>2 DEF vars, IInv, TypeOK, LockInv, FileInv
<1> QED
  BY <1>1, <1>2

LEMMA AlwaysInv == Spec => []IInv
BY InitInv, NextInv, PTL DEF Spec

\* The variables keep their types.
THEOREM TypeCorrect == Spec => []TypeOK
BY AlwaysInv, PTL DEF IInv

\* However many processes update the registry, and wherever they die, an
\* update that was written is in the state every reader gets.
THEOREM UpdatesKept == Spec => []NoLostUpdate
<1>1. IInv => NoLostUpdate
  BY ReadableIsMain DEF IInv, FileInv, NoLostUpdate
<1> QED
  BY <1>1, AlwaysInv, PTL

\* Every step of the registry file is, for its readers, a step or a stutter of
\* RegistryStore.
THEOREM FileImplementsStore == Spec => ImplementsStore
<1>1. Init => Store!Init
  BY DEF Init, Store!Init, Readable, NoState
<1>2. ASSUME IInv, IInv', [Next]_vars PROVE [Store!Next]_(Store!vars)
  <2> USE DEF Store!vars
  <2>1. Readable = main /\ Readable' = main'
    <3>1. Readable = main
      BY <1>2, ReadableIsMain
    <3>2. IInv' => Readable' = main'
      BY DEF IInv, TypeOK, FileInv, Readable, States, NoState
    <3> QED
      BY <1>2, <3>1, <3>2
  <2>2. CASE UNCHANGED main
    BY <2>1, <2>2
  <2>3. ASSUME NEW u \in Updaters, Write(u) PROVE Store!Next
    <3>1. previous[u] = main /\ u \notin main.updates
      BY <1>2, <2>3 DEF IInv, FileInv, Write
    <3>2. main' = [revision |-> main.revision + 1, updates |-> main.updates \cup {u}]
      BY <2>3, <3>1 DEF Write, Changed
    <3>3. Store!Update(u)
      BY <2>1, <3>1, <3>2 DEF Store!Update
    <3> QED
      BY <3>3 DEF Store!Next
  <2>4. UNCHANGED main \/ \E u \in Updaters : Write(u)
    BY <1>2 DEF Next, Step, Acquire, vars, files, OpenLock, WritePid, TakeNativeLock, Read, Backup,
                StepFails, Release, LockFails, Crash
  <2> QED
    BY <2>2, <2>3, <2>4
<1> QED
  BY <1>1, <1>2, AlwaysInv, PTL DEF Spec, ImplementsStore, Store!Spec

----------------------------------------------------------------------------
(***************************************************************************)
(* The same file when one of its two copies may be damaged: it costs a     *)
(* reader one update at most.                                              *)
(***************************************************************************)

\* The snapshot is one update behind the file at most.
BackupIsClose ==
    main.revision > 1 =>
        /\ backup.revision > 0 /\ main.revision <= backup.revision + 1
        /\ \E u \in Updaters : main.updates \subseteq backup.updates \cup {u}

\* What a process goes on from: the file as it was read, or the snapshot of a
\* file that was damaged before; from its own snapshot on, the snapshot.
GoesOnFrom(u) ==
    /\ pc[u] = "read" => previous[u] = main \/ (previous[u] = backup /\ backup.revision > 0)
    /\ pc[u] = "backedUp" =>
         \/ previous[u] = backup /\ backup.revision > 0
         \/ previous[u] = NoState /\ main.revision = 0

DamagedInv ==
    /\ TypeOK /\ LockInv /\ BackupIsClose
    /\ broken \in {{}, {"main"}, {"backup"}}
    /\ main.revision = 0 => main = NoState /\ backup = NoState
    /\ backup.revision = 0 => backup = NoState
    /\ \A u \in Updaters : GoesOnFrom(u)

LEMMA LockSteps == ASSUME TypeOK, LockInv, NEW u \in Updaters, Step(u) PROVE TypeOK' /\ LockInv'
<1> USE LockAssumption DEF Places, Working, Inside
<1>1. CASE OpenLock(u) BY <1>1 DEF OpenLock, files, TypeOK, LockInv
<1>2. CASE WritePid(u) BY <1>2 DEF WritePid, files, TypeOK, LockInv
<1>3. CASE TakeNativeLock(u) BY <1>3 DEF TakeNativeLock, Dead, files, TypeOK, LockInv
<1>4. CASE Read(u) BY <1>4 DEF Read, Readable, NoState, States, files, TypeOK, LockInv
<1>5. CASE Backup(u)
  <2>1. broken' \subseteq {"main", "backup"} /\ backup' \in States BY ZenonT(60), <1>5 DEF Backup, TypeOK
  <2>2. UNCHANGED <<main, lock, previous>> /\ pc' = [pc EXCEPT ![u] = "backedUp"] /\ pc[u] = "read"
    BY <1>5 DEF Backup
  <2> QED BY <2>1, <2>2 DEF TypeOK, LockInv
<1>6. CASE Write(u) BY <1>6 DEF Write, Changed, States, files, TypeOK, LockInv
<1>7. CASE StepFails(u) BY <1>7 DEF StepFails, files, TypeOK, LockInv
<1>8. CASE Release(u) BY <1>8 DEF Release, files, TypeOK, LockInv
<1>9. CASE LockFails(u) BY <1>9 DEF LockFails, files, TypeOK, LockInv
<1>10. CASE Crash(u) BY <1>10 DEF Crash, files, TypeOK, LockInv
<1> QED BY <1>1, <1>2, <1>3, <1>4, <1>5, <1>6, <1>7, <1>8, <1>9, <1>10 DEF Step, Acquire

LEMMA DamagedStep == ASSUME DamagedInv, NEW u \in Updaters, Step(u) PROVE DamagedInv'
<1>0. TypeOK' /\ LockInv' /\ TypeOK /\ LockInv BY LockSteps DEF DamagedInv
<1>1. CASE OpenLock(u) \/ WritePid(u) \/ TakeNativeLock(u) \/ StepFails(u) \/ Release(u) \/ LockFails(u) \/ Crash(u)
  <2>1. /\ UNCHANGED <<main, backup, broken, previous>>
        /\ \A v \in Updaters : pc'[v] \in {"read", "backedUp"} => pc'[v] = pc[v]
    BY <1>0, <1>1 DEF OpenLock, WritePid, TakeNativeLock, StepFails, Release, LockFails, Crash, files, TypeOK
  <2> QED BY <1>0, <2>1 DEF DamagedInv, BackupIsClose, GoesOnFrom
<1>2. CASE Read(u)
  <2>1. Readable = main \/ (Readable = backup /\ backup.revision > 0) \/ Readable = NoState
    BY DEF Readable
  <2>2. pc'[u] = "read" => Readable = main \/ (Readable = backup /\ backup.revision > 0)
    <3>1. CASE Readable = NoState /\ main.revision > 0
      BY <1>0, <1>2, <3>1 DEF Read, TypeOK
    <3>2. CASE Readable = NoState /\ ~(main.revision > 0)
      <4>1. main.revision = 0 BY <1>0, <3>2 DEF TypeOK, States
      <4> QED BY <3>2, <4>1 DEF DamagedInv
    <3> QED BY <2>1, <3>1, <3>2
  <2>3. /\ UNCHANGED <<main, backup, broken>> /\ previous'[u] = Readable /\ pc'[u] # "backedUp"
        /\ \A v \in Updaters \ {u} : pc'[v] = pc[v] /\ previous'[v] = previous[v]
    BY <1>0, <1>2 DEF Read, files, TypeOK
  <2> QED BY <1>0, <2>2, <2>3 DEF DamagedInv, BackupIsClose, GoesOnFrom
<1>3. CASE Backup(u)
  <2>1. \A v \in Updaters : pc[v] \in {"read", "backedUp"} => v = u
    BY <1>0, <1>3 DEF Backup, LockInv, Inside
  <2>2. UNCHANGED <<main, previous>> /\ pc'[u] = "backedUp" /\ \A v \in Updaters \ {u} : pc'[v] = pc[v]
    BY <1>0, <1>3 DEF Backup, TypeOK
  <2>3. GoesOnFrom(u) /\ pc[u] = "read" /\ previous[u] \in States /\ main \in States
    BY <1>0, <1>3 DEF Backup, DamagedInv, TypeOK
  <2>4. CASE previous[u] # NoState
    <3>1. backup' = previous[u] /\ broken' = broken \ {"backup"} BY <1>3, <2>4 DEF Backup
    <3>2. backup'.revision > 0
      BY <2>3, <2>4, <3>1 DEF GoesOnFrom, DamagedInv, States
    <3>3. BackupIsClose'
      <4>1. CASE previous[u] = main BY <2>2, <2>3, <3>1, <3>2, <4>1 DEF BackupIsClose, States
      <4>2. CASE previous[u] = backup BY <2>2, <3>1, <3>2, <4>2 DEF BackupIsClose, DamagedInv
      <4> QED BY <2>3, <4>1, <4>2 DEF GoesOnFrom
    <3>4. main.revision # 0
      BY <2>3, <2>4 DEF GoesOnFrom, DamagedInv, NoState
    <3>5. \A v \in Updaters : GoesOnFrom(v)' 
      <4>1. ASSUME NEW v \in Updaters, v # u PROVE GoesOnFrom(v)' BY <2>1, <2>2, <4>1 DEF GoesOnFrom
      <4>2. GoesOnFrom(u)' BY <2>2, <3>1, <3>2 DEF GoesOnFrom
      <4> QED BY <4>1, <4>2
    <3> QED BY <1>0, <2>2, <3>1, <3>2, <3>3, <3>4, <3>5 DEF DamagedInv
  <2>5. CASE previous[u] = NoState
    <3>1. UNCHANGED <<backup, broken>> BY <1>3, <2>5 DEF Backup
    <3>2. main.revision = 0 BY <2>3, <2>5 DEF GoesOnFrom, NoState
    <3> QED BY <1>0, <2>1, <2>2, <2>5, <3>1, <3>2 DEF DamagedInv, BackupIsClose, GoesOnFrom
  <2> QED BY <2>4, <2>5
<1>4. CASE Write(u)
  <2>1. \A v \in Updaters : pc[v] \in {"read", "backedUp"} => v = u
    BY <1>0, <1>4 DEF Write, LockInv, Inside
  <2>2. /\ UNCHANGED <<backup, previous>> /\ pc'[u] = "written" /\ \A v \in Updaters \ {u} : pc'[v] = pc[v]
        /\ main' = Changed(previous[u], u) /\ broken' = broken \ {"main"}
    BY <1>0, <1>4 DEF Write, TypeOK
  <2>3. GoesOnFrom(u) /\ pc[u] = "backedUp" /\ previous[u] \in States
    BY <1>0, <1>4 DEF Write, DamagedInv, TypeOK
  <2>4. main'.revision = previous[u].revision + 1 /\ main'.updates = previous[u].updates \cup {u}
    BY <2>2 DEF Changed
  <2>5. BackupIsClose' BY <2>2, <2>3, <2>4 DEF BackupIsClose, GoesOnFrom, NoState, States
  <2>6. \A v \in Updaters : GoesOnFrom(v)' BY <2>1, <2>2 DEF GoesOnFrom
  <2>7. main'.revision # 0 BY <2>3, <2>4 DEF States
  <2> QED BY <1>0, <2>2, <2>5, <2>6, <2>7 DEF DamagedInv
<1> QED BY <1>1, <1>2, <1>3, <1>4 DEF Step, Acquire

LEMMA DamagedNext == DamagedInv /\ [Next \/ Damage]_vars => DamagedInv'
<1>1. ASSUME DamagedInv, Damage PROVE DamagedInv'
  BY <1>1 DEF Damage, DamagedInv, TypeOK, LockInv, BackupIsClose, GoesOnFrom
<1>2. ASSUME DamagedInv, UNCHANGED vars PROVE DamagedInv'
  BY <1>2 DEF vars, DamagedInv, TypeOK, LockInv, BackupIsClose, GoesOnFrom
<1> QED BY <1>1, <1>2, DamagedStep DEF Next

\* From the second update on, damage to one of the two files costs a reader one
\* update at most, whatever update was under way and wherever it died
\* (updateState, readState).
THEOREM SnapshotStaysClose == DamagedSpec => []SnapshotIsClose
<1>1. Init => DamagedInv
  BY InitInv DEF Init, IInv, DamagedInv, BackupIsClose, GoesOnFrom, NoState
<1>2. DamagedInv => SnapshotIsClose
  <2> SUFFICES ASSUME DamagedInv, main.revision > 1 PROVE SnapshotIsClose BY DEF SnapshotIsClose
  <2>1. CASE Readable = main BY <2>1, LockAssumption DEF SnapshotIsClose, DamagedInv, BackupIsClose, TypeOK, States, NoState
  <2>2. CASE Readable = backup BY <2>2 DEF SnapshotIsClose, DamagedInv, BackupIsClose, TypeOK, States, NoState
  <2>3. Readable = main \/ Readable = backup
    BY DEF Readable, DamagedInv, BackupIsClose, TypeOK, States
  <2> QED BY <2>1, <2>2, <2>3
<1> QED BY <1>1, <1>2, DamagedNext, PTL DEF DamagedSpec

----------------------------------------------------------------------------
(***************************************************************************)
(* The reconciliation of the atelier for any items, edits and upstream     *)
(* versions: no edit of somebody else is overwritten, and what nobody else *)
(* wrote ends at one version.                                              *)
(***************************************************************************)

Versions == [version : Nat, edits : SUBSET Amendments]

TurnSteps == {"idle", "approved", "planned", "kept", "writing", "replacing", "verifying", "built",
              "committing", "publishing", "checking", "restoring", "putting back", "put back",
              "failed", "reconciled", "dead"}

ReconcileShape ==
    /\ copies \in [ItemSet -> Versions] /\ found \in [ItemSet -> Versions]
    /\ amended \in [ItemSet -> SUBSET Amendments] /\ unseen \subseteq Amendments
    /\ upstream \in Nat
    /\ turn \in [at : TurnSteps, version : Nat, todo : Seq(ItemSet), done : Seq(ItemSet), conflicts : SUBSET ItemSet]

\* A step that is about a file has one.
FileAtHand ==
    /\ turn.at \in {"replacing", "publishing", "verifying", "checking"} => turn.todo # <<>>
    /\ turn.at \in {"putting back", "put back"} => turn.done # <<>>
    /\ turn.at \in {"idle", "approved", "planned", "kept"} => turn.done = <<>>

\* What others wrote is in the file, and in what a rename is about to write,
\* unless it was written after the last look.
EditsKept ==
    /\ \A f \in ItemSet : amended[f] \ unseen \subseteq copies[f].edits
    /\ turn.at \in {"replacing", "publishing"} => amended[Head(turn.todo)] \ unseen \subseteq found[Head(turn.todo)].edits
    /\ turn.at = "putting back" => amended[Head(turn.done)] \ unseen \subseteq found[Head(turn.done)].edits

\* Nothing is written before the backup is.
BackupFirst ==
    /\ kept \in {{}, {found}}
    /\ turn.at \notin {"idle", "approved", "planned", "failed", "dead"} => kept = {found}
    /\ turn.at \in {"idle", "approved", "planned"} => kept = {}
    /\ \A f \in ItemSet : found[f].version = 0
    /\ kept = {} => \A f \in ItemSet : copies[f].version = 0

\* A file nobody else wrote is as it was read, unless it was written and not
\* put back.
LeftAsRead ==
    turn.at \notin {"idle", "approved", "reconciled", "dead"} /\ (turn.at = "failed" => kept # {}) =>
        \A f \in ItemSet \ (touched \cup turn.conflicts \cup ToSet(turn.done)) :
            \/ copies[f] = found[f]
            \/ turn.at \in {"verifying", "checking"} /\ f = Head(turn.todo) /\ copies[f] = Made(f)

\* Once the graph is built on them, the projections stay as written.
ProjectionsStand ==
    turn.at \in {"built", "committing", "publishing", "checking"} =>
        \A f \in ToSet(Projections) \ touched : copies[f] = Made(f)

\* The end of a reconciliation.
EndsWhole ==
    /\ turn.at = "reconciled" => \A f \in ItemSet \ touched : copies[f] = Made(f)
    /\ turn.at = "failed" => turn.done = <<>>

ReconcileInv ==
    ReconcileShape /\ FileAtHand /\ EditsKept /\ BackupFirst /\ LeftAsRead /\ ProjectionsStand /\ EndsWhole
-----------------------------------------------------------------------------
LEMMA SplitFirst ==
  ASSUME NEW s \in Seq(ItemSet), s # <<>>
  PROVE  Head(s) \in ItemSet /\ Tail(s) \in Seq(ItemSet) /\ ToSet(s) \subseteq {Head(s)} \cup ToSet(Tail(s))
  <1>1. Len(s) \in Nat /\ Len(s) > 0 /\ DOMAIN s = 1..Len(s)
    BY EmptySeq
  <1>2. Head(s) = s[1] /\ s[1] \in ItemSet /\ Tail(s) \in Seq(ItemSet)
    BY <1>1
  <1>3. \A i \in 1..Len(s) : i = 1 \/ (i - 1 \in 1..Len(Tail(s)) /\ Tail(s)[i - 1] = s[i])
    BY <1>1
  <1>4. DOMAIN Tail(s) = 1..Len(Tail(s))
    BY <1>2
  <1> QED
    BY ZenonT(60), <1>1, <1>2, <1>3, <1>4 DEF ToSet

LEMMA PutFirst ==
  ASSUME NEW s \in Seq(ItemSet), NEW f \in ItemSet
  PROVE  <<f>> \o s \in Seq(ItemSet) /\ {f} \cup ToSet(s) \subseteq ToSet(<<f>> \o s) /\ <<f>> \o s # <<>>
  <1> DEFINE t == <<f>> \o s
  <1>1. t \in Seq(ItemSet) /\ Len(t) = Len(s) + 1 /\ t[1] = f /\ Len(s) \in Nat
        /\ DOMAIN t = 1..Len(t) /\ DOMAIN s = 1..Len(s)
    BY ConcatProperties
  <1>2. \A i \in 1..Len(s) : t[i + 1] = s[i] /\ i + 1 \in 1..Len(t)
    BY <1>1
  <1> HIDE DEF t
  <1>3. {f} \cup ToSet(s) \subseteq ToSet(t)
    BY <1>1, <1>2 DEF ToSet
  <1>4. t # <<>>
    BY <1>1
  <1> QED
    BY <1>1, <1>3, <1>4 DEF t

LEMMA ItemsAreFiles ==
  /\ Items \in Seq(ItemSet) /\ ItemSet = ToSet(Projections) \cup ToSet(Registries)
  <1> DEFINE A == ToSet(Projections)
             B == ToSet(Registries)
  <1>1. Projections \in Seq(A) /\ Registries \in Seq(B)
    BY ReconcileAssumption
  <1> HIDE DEF A, B
  <1>2. Projections \in Seq(A \cup B) /\ Registries \in Seq(A \cup B)
    BY <1>1
  <1>3. /\ Items \in Seq(A \cup B) /\ Len(Items) = Len(Projections) + Len(Registries)
        /\ \A i \in 1..Len(Items) : Items[i] = IF i <= Len(Projections) THEN Projections[i]
                                               ELSE Registries[i - Len(Projections)]
    BY <1>2, ConcatProperties DEF Items
  <1>4. DOMAIN Projections = 1..Len(Projections) /\ DOMAIN Registries = 1..Len(Registries)
        /\ DOMAIN Items = 1..Len(Items) /\ Len(Projections) \in Nat /\ Len(Registries) \in Nat
    BY <1>2, <1>3
  <1>5. ItemSet \subseteq A \cup B
    BY <1>3, <1>4 DEF ItemSet, ToSet
  <1>6. A \subseteq ItemSet
    <2>1. \A i \in 1..Len(Projections) : i \in 1..Len(Items) /\ Items[i] = Projections[i]
      BY <1>3, <1>4
    <2> QED
      BY <2>1, <1>4 DEF ItemSet, ToSet, A
  <1>7. B \subseteq ItemSet
    <2>1. \A i \in 1..Len(Registries) :
            LET j == i + Len(Projections) IN j \in 1..Len(Items) /\ Items[j] = Registries[i]
      BY SMTT(30), <1>3, <1>4
    <2> QED
      BY <2>1, <1>4 DEF ItemSet, ToSet, B
  <1>8. ItemSet = A \cup B
    BY <1>5, <1>6, <1>7
  <1> QED
    BY <1>3, <1>8 DEF A, B

LEMMA ReconcileStarts == ReconcileInit => ReconcileInv
  <1> SUFFICES ASSUME ReconcileInit PROVE ReconcileInv
    OBVIOUS
  <1>1. /\ copies = [f \in ItemSet |-> Blank] /\ found = copies /\ kept = {} /\ upstream = 1
        /\ turn = [at |-> "idle", version |-> 0, todo |-> <<>>, done |-> <<>>, conflicts |-> {}]
        /\ amended = [f \in ItemSet |-> {}] /\ unseen = {}
    BY DEF ReconcileInit
  <1>2. copies \in [ItemSet -> Versions]
    BY <1>1 DEF Blank, Versions
  <1>3. turn \in [at : TurnSteps, version : Nat, todo : Seq(ItemSet), done : Seq(ItemSet), conflicts : SUBSET ItemSet]
    BY <1>1 DEF TurnSteps
  <1>4. ReconcileShape
    BY <1>1, <1>2, <1>3 DEF ReconcileShape
  <1>5. FileAtHand /\ EditsKept /\ BackupFirst /\ LeftAsRead /\ ProjectionsStand /\ EndsWhole
    BY <1>1 DEF FileAtHand, EditsKept, BackupFirst, LeftAsRead, ProjectionsStand, EndsWhole, Blank
  <1> QED
    BY <1>4, <1>5 DEF ReconcileInv

-----------------------------------------------------------------------------
\* Steps that only move the reconciliation from one place to the next.
MovesTo(p) ==
    /\ turn'.at = p /\ turn'.version = turn.version /\ turn'.todo = turn.todo
    /\ turn'.done = turn.done /\ turn'.conflicts = turn.conflicts
    /\ turn' \in [at : TurnSteps, version : Nat, todo : Seq(ItemSet), done : Seq(ItemSet), conflicts : SUBSET ItemSet]

LEMMA StepMoves ==
  ASSUME ReconcileShape, NEW p \in TurnSteps, StepTo(p)
  PROVE  MovesTo(p)
  BY DEF ReconcileShape, StepTo, MovesTo

Still == UNCHANGED <<copies, upstream, found, amended, unseen, touched>>

\* What a failure leaves, wherever it happens.
LEMMA FailKeeps ==
  ASSUME ReconcileInv, Fails, Still, UNCHANGED kept,
         turn.at \notin {"idle", "approved", "failed", "reconciled", "dead", "restoring", "putting back", "put back"},
         turn.at \in {"verifying", "checking"} => copies[Head(turn.todo)] # Made(Head(turn.todo))
  PROVE  ReconcileInv'
  <1> DEFINE p == IF turn.done = <<>> THEN "failed" ELSE "restoring"
  <1> USE DEF ReconcileInv
  <1>1. MovesTo(p)
    <2>1. p \in TurnSteps /\ StepTo(p)
      BY DEF TurnSteps, Fails
    <2> HIDE DEF p
    <2> QED
      BY <2>1, StepMoves
  <1>2. ReconcileShape'
    BY <1>1 DEF Still, ReconcileShape, MovesTo
  <1>3. FileAtHand' /\ EditsKept' /\ EndsWhole' /\ ProjectionsStand'
    BY <1>1 DEF Still, FileAtHand, EditsKept, EndsWhole, ProjectionsStand, MovesTo
  <1>4. BackupFirst'
    BY <1>1 DEF Still, BackupFirst, FileAtHand, MovesTo
  <1>5. LeftAsRead'
    <2>1. \A f \in ItemSet \ (touched \cup turn.conflicts \cup ToSet(turn.done)) : copies[f] = found[f]
      BY DEF LeftAsRead
    <2> QED
      BY <2>1, <1>1 DEF Still, LeftAsRead, MovesTo
  <1> QED
    BY <1>2, <1>3, <1>4, <1>5

LEMMA CheckProjectionKeeps ==
  ASSUME ReconcileInv, CheckProjection
  PROVE  ReconcileInv'
  <1> USE DEF ReconcileInv
  <1>1. PICK p \in {"approved", "failed"} : StepTo(p)
    BY DEF CheckProjection
  <1>2. MovesTo(p)
    BY <1>1, StepMoves DEF TurnSteps
  <1>3. ReconcileShape'
    BY <1>2 DEF CheckProjection, ReconcileShape, MovesTo
  <1>4. FileAtHand' /\ EditsKept' /\ EndsWhole' /\ ProjectionsStand' /\ BackupFirst' /\ LeftAsRead'
    BY <1>2 DEF CheckProjection, FileAtHand, EditsKept, EndsWhole, ProjectionsStand, BackupFirst, LeftAsRead, MovesTo
  <1> QED
    BY <1>3, <1>4

LEMMA ReadEverythingKeeps ==
  ASSUME ReconcileInv, ReadEverything
  PROVE  ReconcileInv'
  <1> USE DEF ReconcileInv
  <1>1. /\ turn'.at = "planned" /\ turn'.done = turn.done /\ turn'.todo = Items /\ turn.at = "approved"
        /\ turn' \in [at : TurnSteps, version : Nat, todo : Seq(ItemSet), done : Seq(ItemSet), conflicts : SUBSET ItemSet]
    BY ItemsAreFiles DEF ReadEverything, ReconcileShape, TurnSteps
  <1>2. ReconcileShape'
    BY <1>1 DEF ReadEverything, ReconcileShape
  <1>3. FileAtHand' /\ EditsKept' /\ EndsWhole' /\ ProjectionsStand' /\ BackupFirst' /\ LeftAsRead'
    BY <1>1 DEF ReadEverything, FileAtHand, EditsKept, EndsWhole, ProjectionsStand, BackupFirst, LeftAsRead
  <1> QED
    BY <1>2, <1>3

LEMMA BackUpKeeps ==
  ASSUME ReconcileInv, BackUpEverything
  PROVE  ReconcileInv'
  <1> USE DEF ReconcileInv
  <1>1. CASE Fails /\ UNCHANGED kept
    BY <1>1, FailKeeps DEF BackUpEverything, Still
  <1>2. CASE StepTo("kept") /\ kept' = {found}
    <2>1. MovesTo("kept")
      BY <1>2, StepMoves DEF TurnSteps
    <2>2. ReconcileShape'
      BY <2>1 DEF BackUpEverything, ReconcileShape, MovesTo
    <2>3. FileAtHand' /\ EditsKept' /\ EndsWhole' /\ ProjectionsStand' /\ BackupFirst' /\ LeftAsRead'
      BY <1>2, <2>1 DEF BackUpEverything, FileAtHand, EditsKept, EndsWhole, ProjectionsStand, BackupFirst, LeftAsRead,
                        MovesTo
    <2> QED
      BY <2>2, <2>3
  <1> QED
    BY <1>1, <1>2 DEF BackUpEverything

LEMMA CheckAgainKeeps ==
  ASSUME ReconcileInv, CheckAgain
  PROVE  ReconcileInv'
  <1> USE DEF ReconcileInv
  <1>1. PICK p \in {"writing", "failed"} : StepTo(p)
    BY DEF CheckAgain
  <1>2. MovesTo(p)
    BY <1>1, StepMoves DEF TurnSteps
  <1>3. ReconcileShape'
    BY <1>2 DEF CheckAgain, ReconcileShape, MovesTo
  <1>4. FileAtHand' /\ EditsKept' /\ EndsWhole' /\ ProjectionsStand' /\ BackupFirst' /\ LeftAsRead'
    BY <1>2 DEF CheckAgain, FileAtHand, EditsKept, EndsWhole, ProjectionsStand, BackupFirst, LeftAsRead, MovesTo
  <1> QED
    BY <1>3, <1>4

LEMMA LookKeeps ==
  ASSUME ReconcileInv, Look
  PROVE  ReconcileInv'
  <1> USE DEF ReconcileInv
  <1> DEFINE f == Head(turn.todo)
             p == IF turn.at = "writing" THEN "replacing" ELSE "publishing"
  <1>1. CASE Fails
    BY <1>1, FailKeeps DEF Look, Still
  <1>2. CASE copies[f] = found[f] /\ StepTo(p)
    <2>1. p \in {"replacing", "publishing"} /\ (p = "publishing" <=> turn.at = "committing")
          /\ turn.at \in {"writing", "committing"}
      BY DEF Look
    <2>2. StepTo(p) /\ copies[Head(turn.todo)] = found[Head(turn.todo)]
      BY <1>2
    <2> HIDE DEF p, f
    <2>3. MovesTo(p)
      BY <2>1, <2>2, StepMoves DEF TurnSteps
    <2>4. f \in ItemSet
      BY SplitFirst DEF Look, ReconcileShape, f
    <2>5. ReconcileShape'
      BY <2>3 DEF Look, ReconcileShape, MovesTo
    <2>6. FileAtHand' /\ BackupFirst'
      BY <2>1, <2>3 DEF Look, FileAtHand, BackupFirst, MovesTo
    <2>7. EditsKept'
      BY <2>1, <2>2, <2>3, <2>4 DEF Look, EditsKept, MovesTo, f
    <2>8. EndsWhole' /\ ProjectionsStand' /\ LeftAsRead'
      BY <2>1, <2>3 DEF Look, EndsWhole, ProjectionsStand, LeftAsRead, MovesTo, Made
    <2> QED
      BY <2>5, <2>6, <2>7, <2>8
  <1> QED
    BY <1>1, <1>2 DEF Look

LEMMA RenameKeeps ==
  ASSUME ReconcileInv, Rename
  PROVE  ReconcileInv'
  <1> USE DEF ReconcileInv
  <1> DEFINE f == Head(turn.todo)
             p == IF turn.at = "replacing" THEN "verifying" ELSE "checking"
  <1>1. p \in {"verifying", "checking"} /\ StepTo(p) /\ turn.at \in {"replacing", "publishing"}
        /\ (p = "checking" <=> turn.at = "publishing")
    BY DEF Rename
  <1> HIDE DEF p
  <1>2. MovesTo(p)
    BY <1>1, StepMoves DEF TurnSteps
  <1>3. f \in ItemSet /\ turn.todo # <<>>
    BY <1>1, SplitFirst DEF FileAtHand, ReconcileShape
  <1>4. copies' = [copies EXCEPT ![f] = Made(f)] /\ UNCHANGED <<upstream, kept, found, amended, unseen, touched>>
    BY DEF Rename
  <1>5. Made(f) \in Versions /\ Made(f).edits = found[f].edits
    BY <1>3 DEF ReconcileShape, Made, Versions
  <1>6. copies' \in [ItemSet -> Versions] /\ copies'[f] = Made(f) /\ \A g \in ItemSet : g # f => copies'[g] = copies[g]
    BY <1>3, <1>4, <1>5 DEF ReconcileShape
  <1>7. amended[f] \ unseen \subseteq found[f].edits
    BY <1>1 DEF EditsKept
  <1> HIDE DEF f
  <1>8. ReconcileShape'
    BY <1>2, <1>4, <1>6 DEF ReconcileShape, MovesTo
  <1>9. FileAtHand' /\ BackupFirst'
    <2>1. kept = {found}
      BY <1>1 DEF BackupFirst
    <2> QED
      BY <2>1, <1>1, <1>2, <1>3, <1>4 DEF FileAtHand, BackupFirst, MovesTo
  <1>10. EditsKept'
    <2>1. \A g \in ItemSet : amended[g] \ unseen \subseteq copies'[g].edits
      BY <1>5, <1>6, <1>7 DEF EditsKept
    <2> QED
      BY <2>1, <1>1, <1>2, <1>4 DEF EditsKept, MovesTo
  <1>11. \A g \in ItemSet : Made(g)' = Made(g)
    BY <1>2, <1>4 DEF Made, MovesTo
  <1>12. LeftAsRead' /\ EndsWhole'
    <2>1. \A g \in ItemSet \ (touched \cup turn.conflicts \cup ToSet(turn.done)) : copies[g] = found[g]
      BY <1>1 DEF LeftAsRead
    <2>2. f = Head(turn.todo)
      BY DEF f
    <2> QED
      BY <2>1, <2>2, <1>1, <1>2, <1>4, <1>6, <1>11 DEF LeftAsRead, EndsWhole, MovesTo
  <1>13. ProjectionsStand'
    <2>1. ToSet(Projections) \subseteq ItemSet
      BY ItemsAreFiles
    <2> QED
      BY <2>1, <1>1, <1>2, <1>4, <1>6, <1>11 DEF ProjectionsStand, MovesTo
  <1> QED
    BY <1>8, <1>9, <1>10, <1>12, <1>13

LEMMA ConfirmKeeps ==
  ASSUME ReconcileInv, Confirm
  PROVE  ReconcileInv'
  <1> USE DEF ReconcileInv
  <1> DEFINE f == Head(turn.todo)
             p == IF turn.at = "verifying" THEN "writing" ELSE "committing"
  <1>1. CASE copies[f] # Made(f) /\ Fails
    BY <1>1, FailKeeps DEF Confirm, Still
  <1>2. CASE /\ copies[f] = Made(f)
             /\ turn' = [turn EXCEPT !.at = p, !.todo = Tail(@), !.done = <<f>> \o @]
    <2>1. turn.todo # <<>> /\ turn.todo \in Seq(ItemSet) /\ turn.done \in Seq(ItemSet) /\ turn.at \in {"verifying", "checking"}
      BY DEF Confirm, FileAtHand, ReconcileShape
    <2>2. f \in ItemSet /\ Tail(turn.todo) \in Seq(ItemSet)
      BY <2>1, SplitFirst
    <2>3. p \in {"writing", "committing"} /\ (p = "committing" <=> turn.at = "checking")
      BY <2>1
    <2> HIDE DEF f, p
    <2>4. <<f>> \o turn.done \in Seq(ItemSet) /\ {f} \cup ToSet(turn.done) \subseteq ToSet(<<f>> \o turn.done)
      BY <2>1, <2>2, PutFirst
    <2>5. /\ turn'.at = p /\ turn'.version = turn.version /\ turn'.conflicts = turn.conflicts
          /\ turn'.todo = Tail(turn.todo) /\ turn'.done = <<f>> \o turn.done
          /\ turn' \in [at : TurnSteps, version : Nat, todo : Seq(ItemSet), done : Seq(ItemSet), conflicts : SUBSET ItemSet]
      BY <1>2, <2>2, <2>3, <2>4 DEF ReconcileShape, TurnSteps
    <2>6. UNCHANGED <<copies, upstream, kept, found, amended, unseen, touched>>
      BY DEF Confirm
    <2>7. ReconcileShape'
      BY <2>5, <2>6 DEF ReconcileShape
    <2>8. FileAtHand' /\ BackupFirst' /\ EditsKept' /\ EndsWhole'
      BY <2>1, <2>3, <2>5, <2>6 DEF FileAtHand, BackupFirst, EditsKept, EndsWhole
    <2>9. \A g : Made(g)' = Made(g)
      BY <2>5, <2>6 DEF Made
    <2>10. ProjectionsStand'
      BY <2>1, <2>3, <2>5, <2>6, <2>9 DEF ProjectionsStand
    <2>11. LeftAsRead'
      <3>1. \A g \in ItemSet \ (touched \cup turn.conflicts \cup ToSet(turn.done)) : copies[g] = found[g] \/ g = f
        BY <2>1 DEF LeftAsRead, f
      <3>2. \A g \in ItemSet \ (touched \cup turn.conflicts \cup ToSet(turn'.done)) : copies[g] = found[g]
        BY <3>1, <2>4, <2>5
      <3> QED
        BY <3>2, <2>3, <2>5, <2>6 DEF LeftAsRead
    <2> QED
      BY <2>7, <2>8, <2>10, <2>11
  <1> QED
    BY <1>1, <1>2 DEF Confirm

LEMMA BuildKeeps ==
  ASSUME ReconcileInv, Build
  PROVE  ReconcileInv'
  <1> USE DEF ReconcileInv
  <1>1. CASE Fails
    BY <1>1, FailKeeps DEF Build, Still
  <1>2. CASE Projected /\ StepTo("built")
    <2>1. MovesTo("built")
      BY <1>2, StepMoves DEF TurnSteps
    <2>2. ReconcileShape'
      BY <2>1 DEF Build, ReconcileShape, MovesTo
    <2>3. FileAtHand' /\ EditsKept' /\ EndsWhole' /\ BackupFirst' /\ LeftAsRead'
      BY <2>1 DEF Build, FileAtHand, EditsKept, EndsWhole, BackupFirst, LeftAsRead, MovesTo
    <2>4. ProjectionsStand'
      BY <1>2, <2>1 DEF Build, Projected, ProjectionsStand, MovesTo, Made
    <2> QED
      BY <2>2, <2>3, <2>4
  <1> QED
    BY <1>1, <1>2 DEF Build

LEMMA CheckBuiltKeeps ==
  ASSUME ReconcileInv, CheckBuilt
  PROVE  ReconcileInv'
  <1> USE DEF ReconcileInv
  <1>1. CASE Fails
    BY <1>1, FailKeeps DEF CheckBuilt, Still
  <1>2. CASE StepTo("committing")
    <2>1. MovesTo("committing")
      BY <1>2, StepMoves DEF TurnSteps
    <2>2. ReconcileShape'
      BY <2>1 DEF CheckBuilt, ReconcileShape, MovesTo
    <2>3. FileAtHand' /\ EditsKept' /\ EndsWhole' /\ BackupFirst' /\ LeftAsRead'
      BY <2>1 DEF CheckBuilt, FileAtHand, EditsKept, EndsWhole, BackupFirst, LeftAsRead, MovesTo
    <2>4. ProjectionsStand'
      BY <1>2, <2>1 DEF CheckBuilt, ProjectionsStand, MovesTo, Made
    <2> QED
      BY <2>2, <2>3, <2>4
  <1> QED
    BY <1>1, <1>2 DEF CheckBuilt

LEMMA FinishKeeps ==
  ASSUME ReconcileInv, Finish
  PROVE  ReconcileInv'
  <1> USE DEF ReconcileInv
  <1>1. CASE Fails
    BY <1>1, FailKeeps DEF Finish, Still
  <1>2. CASE /\ \A f \in ToSet(Registries) : copies[f] = Made(f)
             /\ StepTo("reconciled")
    <2>1. MovesTo("reconciled")
      BY <1>2, StepMoves DEF TurnSteps
    <2>2. ReconcileShape'
      BY <2>1 DEF Finish, ReconcileShape, MovesTo
    <2>3. FileAtHand' /\ EditsKept' /\ ProjectionsStand' /\ BackupFirst' /\ LeftAsRead'
      BY <2>1 DEF Finish, FileAtHand, EditsKept, ProjectionsStand, BackupFirst, LeftAsRead, MovesTo
    <2>4. \A f \in ItemSet \ touched : copies[f] = Made(f)
      BY <1>2, ItemsAreFiles DEF Finish, ProjectionsStand
    <2>5. EndsWhole'
      BY <2>4, <2>1 DEF Finish, EndsWhole, MovesTo, Made
    <2> QED
      BY <2>2, <2>3, <2>5
  <1> QED
    BY <1>1, <1>2 DEF Finish

-----------------------------------------------------------------------------
LEMMA LookBackKeeps ==
  ASSUME ReconcileInv, LookBack
  PROVE  ReconcileInv'
  <1> USE DEF ReconcileInv
  <1> DEFINE f == Head(turn.done)
  <1>0. turn.done # <<>> /\ turn.done \in Seq(ItemSet) /\ turn.at = "restoring"
        /\ UNCHANGED <<copies, upstream, kept, found, amended, unseen, touched>>
    BY DEF LookBack, ReconcileShape
  <1>1. f \in ItemSet /\ Tail(turn.done) \in Seq(ItemSet) /\ ToSet(turn.done) \subseteq {f} \cup ToSet(Tail(turn.done))
    BY <1>0, SplitFirst
  <1>2. CASE copies[f] = Made(f) /\ StepTo("putting back")
    <2>1. MovesTo("putting back")
      BY <1>2, StepMoves DEF TurnSteps
    <2>2. ReconcileShape'
      BY <2>1, <1>0 DEF ReconcileShape, MovesTo
    <2>3. FileAtHand' /\ EndsWhole' /\ ProjectionsStand' /\ BackupFirst' /\ LeftAsRead'
      BY <2>1, <1>0 DEF FileAtHand, EndsWhole, BackupFirst, LeftAsRead, ProjectionsStand, MovesTo
    <2>4. Made(f).edits = found[f].edits
      BY <1>1 DEF ReconcileShape, Made, Versions
    <2>5. EditsKept'
      BY <2>1, <2>4, <1>0, <1>1, <1>2 DEF EditsKept, MovesTo
    <2> QED
      BY <2>2, <2>3, <2>5
  <1>3. CASE turn' = [turn EXCEPT !.done = Tail(@), !.conflicts = @ \cup {f}]
    <2>1. /\ turn'.at = turn.at /\ turn'.version = turn.version /\ turn'.todo = turn.todo
          /\ turn'.done = Tail(turn.done) /\ turn'.conflicts = turn.conflicts \cup {f}
          /\ turn' \in [at : TurnSteps, version : Nat, todo : Seq(ItemSet), done : Seq(ItemSet), conflicts : SUBSET ItemSet]
      BY <1>1, <1>3 DEF ReconcileShape
    <2> HIDE DEF f
    <2>2. ReconcileShape'
      BY <2>1, <1>0 DEF ReconcileShape
    <2>3. FileAtHand' /\ EditsKept' /\ EndsWhole' /\ ProjectionsStand' /\ BackupFirst'
      BY <2>1, <1>0 DEF FileAtHand, EditsKept, EndsWhole, BackupFirst, ProjectionsStand
    <2>4. LeftAsRead'
      BY <2>1, <1>0, <1>1 DEF LeftAsRead
    <2> QED
      BY <2>2, <2>3, <2>4
  <1> QED
    BY <1>2, <1>3 DEF LookBack

LEMMA PutBackKeeps ==
  ASSUME ReconcileInv, PutBack
  PROVE  ReconcileInv'
  <1> USE DEF ReconcileInv
  <1> DEFINE f == Head(turn.done)
  <1>0. turn.done # <<>> /\ turn.done \in Seq(ItemSet) /\ turn.at = "putting back"
        /\ UNCHANGED <<upstream, kept, found, amended, unseen, touched>>
    BY DEF PutBack, FileAtHand, ReconcileShape
  <1>1. f \in ItemSet
    BY <1>0, SplitFirst
  <1>2. MovesTo("put back")
    BY StepMoves DEF TurnSteps, PutBack
  <1>3. copies' = [copies EXCEPT ![f] = found[f]]
    BY DEF PutBack
  <1>4. amended[f] \ unseen \subseteq found[f].edits
    BY <1>0 DEF EditsKept
  <1> HIDE DEF f
  <1>5. copies' \in [ItemSet -> Versions] /\ copies'[f] = found[f] /\ \A g \in ItemSet : g # f => copies'[g] = copies[g]
    BY <1>1, <1>3 DEF ReconcileShape
  <1>6. ReconcileShape'
    BY <1>0, <1>2, <1>5 DEF ReconcileShape, MovesTo
  <1>7. FileAtHand' /\ EndsWhole' /\ ProjectionsStand'
    BY <1>0, <1>2 DEF FileAtHand, EndsWhole, ProjectionsStand, MovesTo
  <1>8. BackupFirst'
    BY <1>0, <1>2 DEF BackupFirst, MovesTo
  <1>9. EditsKept'
    <2>1. \A g \in ItemSet : amended[g] \ unseen \subseteq copies'[g].edits
      BY <1>4, <1>5 DEF EditsKept
    <2> QED
      BY <2>1, <1>0, <1>2 DEF EditsKept, MovesTo
  <1>10. LeftAsRead'
    <2>1. \A g \in ItemSet \ (touched \cup turn.conflicts \cup ToSet(turn.done)) : copies[g] = found[g]
      BY <1>0 DEF LeftAsRead
    <2> QED
      BY <2>1, <1>0, <1>2, <1>5 DEF LeftAsRead, MovesTo
  <1> QED
    BY <1>6, <1>7, <1>8, <1>9, <1>10

LEMMA ConfirmBackKeeps ==
  ASSUME ReconcileInv, ConfirmBack
  PROVE  ReconcileInv'
  <1> USE DEF ReconcileInv
  <1> DEFINE f == Head(turn.done)
             c == IF copies[f] = found[f] THEN turn.conflicts ELSE turn.conflicts \cup {f}
  <1>0. turn.done # <<>> /\ turn.done \in Seq(ItemSet) /\ turn.at = "put back"
        /\ UNCHANGED <<copies, upstream, kept, found, amended, unseen, touched>>
    BY DEF ConfirmBack, FileAtHand, ReconcileShape
  <1>1. f \in ItemSet /\ Tail(turn.done) \in Seq(ItemSet) /\ ToSet(turn.done) \subseteq {f} \cup ToSet(Tail(turn.done))
    BY <1>0, SplitFirst
  <1>2. c \subseteq ItemSet /\ turn.conflicts \subseteq c /\ (f \in c \/ copies[f] = found[f])
    BY <1>1 DEF ReconcileShape
  <1>3. turn' = [turn EXCEPT !.at = "restoring", !.done = Tail(@), !.conflicts = c]
    BY DEF ConfirmBack
  <1> HIDE DEF f, c
  <1>4. /\ turn'.at = "restoring" /\ turn'.version = turn.version /\ turn'.todo = turn.todo
        /\ turn'.done = Tail(turn.done) /\ turn'.conflicts = c
        /\ turn' \in [at : TurnSteps, version : Nat, todo : Seq(ItemSet), done : Seq(ItemSet), conflicts : SUBSET ItemSet]
    BY <1>1, <1>2, <1>3 DEF ReconcileShape, TurnSteps
  <1>5. ReconcileShape'
    BY <1>4, <1>0 DEF ReconcileShape
  <1>6. FileAtHand' /\ EditsKept' /\ EndsWhole' /\ ProjectionsStand' /\ BackupFirst'
    BY <1>4, <1>0 DEF FileAtHand, EditsKept, EndsWhole, BackupFirst, ProjectionsStand
  <1>7. LeftAsRead'
    BY <1>4, <1>0, <1>1, <1>2 DEF LeftAsRead
  <1> QED
    BY <1>5, <1>6, <1>7

LEMMA EndKeeps ==
  ASSUME ReconcileInv, Restored \/ ReconcilerDies
  PROVE  ReconcileInv'
  <1> USE DEF ReconcileInv
  <1>1. PICK p \in {"failed", "dead"} : StepTo(p) /\ (p = "failed" => Restored)
    BY DEF Restored, ReconcilerDies
  <1>2. MovesTo(p)
    BY <1>1, StepMoves DEF TurnSteps
  <1>3. UNCHANGED <<copies, upstream, kept, found, amended, unseen, touched>>
    BY DEF Restored, ReconcilerDies
  <1>4. p = "failed" => turn.at = "restoring" /\ turn.done = <<>>
    BY <1>1 DEF Restored
  <1>5. ReconcileShape'
    BY <1>2, <1>3 DEF ReconcileShape, MovesTo
  <1>6. FileAtHand' /\ EditsKept' /\ ProjectionsStand' /\ EndsWhole'
    BY <1>2, <1>3, <1>4 DEF FileAtHand, EditsKept, EndsWhole, ProjectionsStand, MovesTo
  <1>7. BackupFirst'
    BY <1>2, <1>3 DEF BackupFirst, MovesTo
  <1>8. LeftAsRead'
    BY <1>2, <1>3, <1>4 DEF LeftAsRead, MovesTo
  <1> QED
    BY <1>5, <1>6, <1>7, <1>8

LEMMA AmendKeeps ==
  ASSUME ReconcileInv, NEW f \in ItemSet, NEW e \in Amendments, Amend(f, e)
  PROVE  ReconcileInv'
  <1> USE DEF ReconcileInv
  <1>1. /\ copies' = [copies EXCEPT ![f].edits = @ \cup {e}]
        /\ amended' = [amended EXCEPT ![f] = @ \cup {e}]
        /\ unseen' = unseen \cup IF f \in Pending THEN {e} ELSE {}
        /\ touched' = touched \cup {f} /\ UNCHANGED <<upstream, kept, turn, found>>
        /\ turn.at \notin {"failed", "reconciled", "dead"}
    BY DEF Amend
  <1>2. copies[f] \in Versions /\ amended[f] \subseteq Amendments
    BY DEF ReconcileShape
  <1>3. /\ copies' \in [ItemSet -> Versions] /\ copies'[f].version = copies[f].version
        /\ copies'[f].edits = copies[f].edits \cup {e}
        /\ \A g \in ItemSet : g # f => copies'[g] = copies[g]
    BY <1>1, <1>2 DEF ReconcileShape, Versions
  <1>4. /\ amended' \in [ItemSet -> SUBSET Amendments] /\ amended'[f] = amended[f] \cup {e}
        /\ \A g \in ItemSet : g # f => amended'[g] = amended[g]
    BY <1>1, <1>2 DEF ReconcileShape
  <1>5. ReconcileShape'
    BY <1>1, <1>3, <1>4 DEF ReconcileShape
  <1>6. FileAtHand' /\ EndsWhole'
    BY <1>1 DEF FileAtHand, EndsWhole
  <1>7. BackupFirst'
    BY <1>1, <1>3 DEF BackupFirst
  <1>8. EditsKept'
    <2>1. \A g \in ItemSet : amended'[g] \ unseen' \subseteq copies'[g].edits
      BY <1>1, <1>3, <1>4 DEF EditsKept
    <2>2. \A g \in Pending : g \in ItemSet => amended'[g] \ unseen' \subseteq found[g].edits
      <3> SUFFICES ASSUME NEW g \in Pending, g \in ItemSet PROVE amended'[g] \ unseen' \subseteq found[g].edits
        OBVIOUS
      <3>1. amended[g] \ unseen \subseteq found[g].edits
        BY DEF Pending, EditsKept
      <3>2. CASE g = f
        BY <3>1, <3>2, <1>1, <1>4
      <3>3. CASE g # f
        BY <3>1, <3>3, <1>1, <1>4
      <3> QED
        BY <3>2, <3>3
    <2>3. turn.at \in {"replacing", "publishing"} => Head(turn.todo) \in ItemSet /\ Head(turn.todo) \in Pending
      BY SplitFirst DEF FileAtHand, ReconcileShape, Pending
    <2>4. turn.at = "putting back" => Head(turn.done) \in ItemSet /\ Head(turn.done) \in Pending
      BY SplitFirst DEF FileAtHand, ReconcileShape, Pending
    <2> QED
      BY <2>1, <2>2, <2>3, <2>4, <1>1 DEF EditsKept
  <1>9. \A g : Made(g)' = Made(g)
    BY <1>1 DEF Made
  <1>10. ProjectionsStand'
    BY <1>1, <1>3, <1>9, ItemsAreFiles DEF ProjectionsStand
  <1>11. LeftAsRead'
    BY <1>1, <1>3, <1>9 DEF LeftAsRead
  <1> QED
    BY <1>5, <1>6, <1>7, <1>8, <1>10, <1>11

LEMMA OriginKeeps ==
  ASSUME ReconcileInv, OriginChanges
  PROVE  ReconcileInv'
  <1>1. UNCHANGED <<copies, kept, turn, found, amended, unseen, touched>> /\ upstream' = upstream + 1
    BY DEF OriginChanges
  <1>2. ReconcileShape'
    BY <1>1 DEF ReconcileInv, ReconcileShape
  <1> QED
    BY <1>1, <1>2 DEF ReconcileInv, FileAtHand, EditsKept, BackupFirst, LeftAsRead, ProjectionsStand, EndsWhole, Made

LEMMA ReconcileSteps == ReconcileInv /\ [ReconcileNext]_reconcileVars => ReconcileInv'
  <1> SUFFICES ASSUME ReconcileInv, [ReconcileNext]_reconcileVars PROVE ReconcileInv'
    OBVIOUS
  <1>1. CASE UNCHANGED reconcileVars
    BY <1>1 DEF reconcileVars, ReconcileInv, ReconcileShape, FileAtHand, EditsKept, BackupFirst, LeftAsRead,
                ProjectionsStand, EndsWhole, Made
  <1>2. CASE ReconcileNext
    BY <1>2, CheckProjectionKeeps, ReadEverythingKeeps, BackUpKeeps, CheckAgainKeeps, LookKeeps, RenameKeeps,
       ConfirmKeeps, BuildKeeps, CheckBuiltKeeps, FinishKeeps, LookBackKeeps, PutBackKeeps, ConfirmBackKeeps,
       EndKeeps, AmendKeeps, OriginKeeps
       DEF ReconcileNext
  <1> QED
    BY <1>1, <1>2

\* For any files and registries, whoever else writes them and wherever the
\* reconciliation fails or dies: no edit of somebody else is lost but in the
\* instant between a look and its rename, what was replaced is in the backup,
\* and the files nobody else wrote stand for one version
\* (reconcileAtelierSource).
THEOREM AlwaysReconcilesOrRestores == ReconcileSpec => []ReconcilesOrRestores
  <1>1. ReconcileInv => ReconcilesOrRestores
    <2> SUFFICES ASSUME ReconcileInv PROVE ReconcilesOrRestores
      OBVIOUS
    <2>1. \A f \in ItemSet : amended[f] \ unseen \subseteq copies[f].edits
      BY DEF ReconcileInv, EditsKept
    <2>2. \A f \in ItemSet : copies[f].version # 0 => \E k \in kept : k[f] = found[f]
      BY DEF ReconcileInv, BackupFirst
    <2>3. \A f \in ItemSet \ (touched \cup turn.conflicts) : turn.at = "reconciled" => copies[f] = Made(f)
      BY DEF ReconcileInv, EndsWhole
    <2>4. ASSUME NEW f \in ItemSet \ (touched \cup turn.conflicts), turn.at = "failed", kept # {}
          PROVE  copies[f] = found[f]
      <3>1. ToSet(turn.done) = {}
        BY <2>4 DEF ReconcileInv, EndsWhole, ToSet
      <3> QED
        BY <3>1, <2>4 DEF ReconcileInv, LeftAsRead
    <2> QED
      BY <2>1, <2>2, <2>3, <2>4 DEF ReconcilesOrRestores
  <1> QED
    BY <1>1, ReconcileStarts, ReconcileSteps, PTL DEF ReconcileSpec

----------------------------------------------------------------------------
(***************************************************************************)
(* The settings file for any installers, scripts and edits: no edit of     *)
(* somebody else is lost, and an installation nobody disturbed is rolled   *)
(* back to the file it found.                                              *)
(***************************************************************************)

FileFields == {"exists", "prompt", "stop", "foreign", "valid"}
WorkFields == {"at", "left", "previous", "content"}

\* Contents of a settings file hold edits that were made, and edits make a file.
Genuine(s, made) ==
    /\ s = [f \in FileFields |-> s[f]]
    /\ s.foreign \subseteq made /\ (s.foreign # {} => s.exists)

WorkShape ==
    /\ work = [r \in Registrars |-> work[r]]
    /\ \A r \in Registrars : work[r] = [f \in WorkFields |-> work[r][f]]
    /\ record = [i \in Installers |-> record[i]] /\ original = [i \in Installers |-> original[i]]

FilesGenuine ==
    /\ Genuine(settings, edited)
    /\ \A r \in Registrars : Genuine(work[r].previous, edited) /\ Genuine(work[r].content, edited)
    /\ \A i \in Installers : \A t \in record[i] : Genuine(t.before, edited)

\* An edit that nobody can lose any more.
Kept(e) == e \in exposed \/ \E s \in backups : e \in s.foreign

\* Whoever is about to rename has left no edit in the file alone; and one that
\* has backed up, none in the file it will compare with.
EditsCovered ==
    /\ Looked # {} => \A e \in edited : Kept(e)
    /\ \A r \in Installers : work[r].at \in {"backed up", "recorded", "undo backed up"} =>
          \A e \in work[r].previous.foreign : Kept(e)

\* One record, or none: none before a transaction and after it, one while the
\* transaction or its rollback goes by it.
Recorded(rec, place) ==
    /\ rec = {} \/ \E b, p, a : rec = {[before |-> b, previous |-> p, after |-> a]}
    /\ place \in {"idle", "restored", "installed"} => rec = {}
    /\ place \in {"recorded", "looked", "undoing", "undo backed up", "undo looked"} => rec # {}

Comparing == {"read", "prepared", "backed up", "recorded", "looked", "undoing", "undo backed up", "undo looked"}

\* An installation nobody has disturbed finds the file as its record says.
Undisturbed(i) ==
    /\ work[i].at \notin {"idle", "installed"} =>
         /\ record[i] = {} => settings = original[i]
         /\ \A t \in record[i] : t.before = original[i] /\ settings \in Expected(t)
    /\ work[i].at \in Comparing => settings = work[i].previous
    /\ work[i].at \in {"recorded", "looked"} => \A t \in record[i] : t.after = work[i].content
    /\ work[i].at # "refused"

Fits(i) == Recorded(record[i], work[i].at) /\ (i \notin disturbed => Undisturbed(i))

RecordsFit == \A i \in Installers : Fits(i)

RegistrationInv == WorkShape /\ FilesGenuine /\ EditsSurvive /\ EditsCovered /\ RecordsFit

-----------------------------------------------------------------------------
LEMMA MergeIsGenuine ==
  ASSUME NEW s, NEW made, Genuine(s, made), NEW h, NEW d \in BOOLEAN
  PROVE  Genuine(Merge(s, h, d), made)
<1>1. CASE h \in {"dispatch", "rabbit"}
  <2> DEFINE with == With(s.prompt, h, d)
  <2>1. Merge(s, h, d) = [s EXCEPT !.exists = TRUE, !.prompt = with] BY <1>1 DEF Merge
  <2> HIDE DEF with
  <2> QED BY <2>1 DEF Genuine, FileFields
<1>2. CASE h \notin {"dispatch", "rabbit"}
  <2> DEFINE with == With(s.stop, h, d)
  <2>1. Merge(s, h, d) = [s EXCEPT !.exists = TRUE, !.stop = with] BY <1>2 DEF Merge
  <2> HIDE DEF with
  <2> QED BY <2>1 DEF Genuine, FileFields
<1> QED BY <1>1, <1>2

LEMMA NoFileIsGenuine == \A made : Genuine(NoFile, made)
BY DEF Genuine, NoFile, FileFields

LEMMA RegistrationStarts == RegistrationInit => RegistrationInv
<1> SUFFICES ASSUME RegistrationInit PROVE RegistrationInv OBVIOUS
<1>1. WorkShape BY DEF RegistrationInit, WorkShape, NoWork, WorkFields
<1>2. FilesGenuine
  <2>1. Genuine(settings, edited) BY NoFileIsGenuine DEF RegistrationInit, Genuine, NoFile, FileFields
  <2> QED BY <2>1, NoFileIsGenuine DEF RegistrationInit, FilesGenuine, NoWork
<1>3. EditsSurvive BY DEF RegistrationInit, EditsSurvive
<1>4. EditsCovered
  <2>1. \A r \in Registrars : work[r].at = "idle" BY DEF RegistrationInit, NoWork
  <2> QED BY <2>1 DEF EditsCovered, Looked, Registrars
<1>5. RecordsFit BY DEF RegistrationInit, RecordsFit, Fits, Recorded, Undisturbed, NoWork, Registrars, Comparing
<1> QED BY <1>1, <1>2, <1>3, <1>4, <1>5 DEF RegistrationInv

-----------------------------------------------------------------------------
(* What a step makes of the work of its registrar. *)

Acts(r, place, read, made) ==
    /\ work' = [q \in Registrars |-> work'[q]]
    /\ \A q \in Registrars : work'[q] = [f \in WorkFields |-> work'[q][f]]
    /\ \A q \in Registrars \ {r} : work'[q] = work[q]
    /\ work'[r].at = place /\ work'[r].previous = read /\ work'[r].content = made

LEMMA GivesWork ==
  ASSUME WorkShape, NEW r \in Registrars, NEW w, w = [f \in WorkFields |-> w[f]],
         work' = [work EXCEPT ![r] = w]
  PROVE  Acts(r, w.at, w.previous, w.content)
<1>1. work' = [q \in Registrars |-> IF q = r THEN w ELSE work[q]] BY DEF WorkShape
<1> QED BY <1>1 DEF WorkShape, Acts

LEMMA MoveActs ==
  ASSUME WorkShape, NEW r \in Registrars, NEW p, MoveTo(r, p)
  PROVE  Acts(r, p, work[r].previous, work[r].content)
<1> DEFINE w == [work[r] EXCEPT !.at = p]
<1>1. work' = [work EXCEPT ![r] = w] BY DEF MoveTo
<1>2. work[r] = [f \in WorkFields |-> work[r][f]] BY DEF WorkShape
<1>3. w = [f \in WorkFields |-> w[f]] /\ w.at = p /\ w.previous = work[r].previous /\ w.content = work[r].content
  BY <1>2 DEF WorkFields
<1> HIDE DEF w
<1> QED BY <1>1, <1>3, GivesWork

LEMMA NextHookActs ==
  ASSUME WorkShape, NEW r \in Registrars, NextHook(r)
  PROVE  \E p \in {"ready", "testing"} : Acts(r, p, NoFile, NoFile)
<1> DEFINE p == IF Len(work[r].left) > 1 THEN "ready" ELSE "testing"
           w == [work[r] EXCEPT !.at = p, !.left = Tail(@), !.previous = NoFile, !.content = NoFile]
<1>1. p \in {"ready", "testing"} OBVIOUS
<1>2. work = [q \in Registrars |-> work[q]] /\ work[r] = [f \in WorkFields |-> work[r][f]] BY DEF WorkShape
<1>3. work' = [work EXCEPT ![r] = w] BY <1>2 DEF NextHook
<1>4. w = [f \in WorkFields |-> w[f]] /\ w.at = p /\ w.previous = NoFile /\ w.content = NoFile
  BY <1>2 DEF WorkFields
<1> HIDE DEF w, p
<1> QED BY <1>1, <1>3, <1>4, GivesWork

LEMMA NoWorkFields ==
  NoWork = [f \in WorkFields |-> NoWork[f]] /\ NoWork.previous = NoFile /\ NoWork.content = NoFile
BY DEF NoWork, WorkFields

LEMMA AnewActs ==
  ASSUME WorkShape, NEW r \in Registrars, NEW a, NEW p, NEW c,
         work' = [work EXCEPT ![r] = [NoWork EXCEPT !.at = a, !.previous = p, !.content = c]]
  PROVE  Acts(r, a, p, c)
<1> DEFINE w == [NoWork EXCEPT !.at = a, !.previous = p, !.content = c]
<1>1. w = [f \in WorkFields |-> w[f]] /\ w.at = a /\ w.previous = p /\ w.content = c
  BY DEF NoWork, WorkFields
<1> HIDE DEF w
<1>2. work' = [work EXCEPT ![r] = w] BY DEF w
<1> QED BY <1>1, <1>2, GivesWork

LEMMA EndActs ==
  ASSUME WorkShape, NEW r \in Registrars, NEW a, work' = [work EXCEPT ![r] = [NoWork EXCEPT !.at = a]]
  PROVE  Acts(r, a, NoFile, NoFile)
<1>1. [NoWork EXCEPT !.at = a] = [NoWork EXCEPT !.at = a, !.previous = NoFile, !.content = NoFile]
  BY NoWorkFields DEF WorkFields
<1> QED BY <1>1, AnewActs

LEMMA BeginActs ==
  ASSUME WorkShape, NEW i \in Installers, BeginInstall(i)
  PROVE  Acts(i, "ready", work[i].previous, work[i].content)
<1>1. PICK hooks : work' = [work EXCEPT ![i].at = "ready", ![i].left = hooks] BY DEF BeginInstall
<1> DEFINE w == [work[i] EXCEPT !.at = "ready", !.left = hooks]
<1>2. i \in Registrars /\ work = [q \in Registrars |-> work[q]] /\ work[i] = [f \in WorkFields |-> work[i][f]]
  BY DEF WorkShape, Registrars
<1>3. work' = [work EXCEPT ![i] = w] BY <1>1, <1>2
<1>4. w = [f \in WorkFields |-> w[f]] /\ w.at = "ready" /\ w.previous = work[i].previous /\ w.content = work[i].content
  BY <1>2 DEF WorkFields
<1> HIDE DEF w
<1> QED BY <1>2, <1>3, <1>4, GivesWork

LEMMA ReadActs ==
  ASSUME WorkShape, FilesGenuine, NEW i \in Installers, ReadSettings(i)
  PROVE  \E p \in {"read", "failed"} : \E c : Acts(i, p, settings, c) /\ Genuine(c, edited)
<1> DEFINE c == Merge(settings, Head(work[i].left), FALSE)
           p == IF settings.valid THEN "read" ELSE "failed"
           w == [work[i] EXCEPT !.at = p, !.previous = settings, !.content = c]
<1>1. Genuine(c, edited) BY MergeIsGenuine DEF FilesGenuine
<1>2. i \in Registrars /\ work = [q \in Registrars |-> work[q]] /\ work[i] = [f \in WorkFields |-> work[i][f]]
  BY DEF WorkShape, Registrars
<1>3. p \in {"read", "failed"} OBVIOUS
<1>4. work' = [work EXCEPT ![i].at = p, ![i].previous = settings, ![i].content = c] BY DEF ReadSettings
<1> HIDE DEF c, p
<1>5. work' = [work EXCEPT ![i] = w] BY <1>2, <1>4
<1>6. w = [f \in WorkFields |-> w[f]] /\ w.at = p /\ w.previous = settings /\ w.content = c
  BY <1>2 DEF WorkFields
<1> HIDE DEF w
<1>7. Acts(i, p, settings, c) BY <1>2, <1>5, <1>6, GivesWork
<1> QED BY <1>1, <1>3, <1>7

LEMMA PrepareActs ==
  ASSUME WorkShape, NEW i \in Installers, Prepare(i)
  PROVE  \/ \E p \in {"ready", "testing"} : Acts(i, p, NoFile, NoFile)
         \/ Acts(i, "failed", work[i].previous, work[i].content)
         \/ Acts(i, "prepared", work[i].previous, work[i].content) /\ settings = work[i].previous
<1>1. NextHook(i) \/ MoveTo(i, "failed") \/ (MoveTo(i, "prepared") /\ settings = work[i].previous) BY DEF Prepare
<1> QED BY <1>1, NextHookActs, MoveActs DEF Registrars

LEMMA RollbackActs ==
  ASSUME WorkShape, NEW i \in Installers, BeginRollback(i)
  PROVE  \E p \in {"restored", "undoing", "refused"} :
           /\ Acts(i, p, settings, NoFile) /\ (p = "restored" <=> record[i] = {})
           /\ p = "refused" <=> (record[i] # {} /\ \E t \in record[i] : settings \notin Expected(t))
<1> DEFINE p == IF record[i] = {} THEN "restored"
                ELSE IF \A t \in record[i] : settings \in Expected(t) THEN "undoing" ELSE "refused"
<1>1. work' = [work EXCEPT ![i] = [NoWork EXCEPT !.at = p, !.previous = settings, !.content = NoFile]]
  <2>1. [NoWork EXCEPT !.previous = settings, !.at = p]
          = [NoWork EXCEPT !.at = p, !.previous = settings, !.content = NoFile]
    <3> HIDE DEF p
    <3> QED BY NoWorkFields DEF WorkFields
  <2>2. work' = [work EXCEPT ![i] = [NoWork EXCEPT !.previous = settings, !.at = p]] BY DEF BeginRollback
  <2> HIDE DEF p
  <2> QED BY <2>1, <2>2
<1>2. /\ p \in {"restored", "undoing", "refused"} /\ (p = "restored" <=> record[i] = {})
      /\ p = "refused" <=> (record[i] # {} /\ \E t \in record[i] : settings \notin Expected(t))
  OBVIOUS
<1> HIDE DEF p
<1>3. Acts(i, p, settings, NoFile) BY <1>1, AnewActs DEF Registrars
<1> QED BY <1>2, <1>3

LEMMA ScriptActs ==
  ASSUME WorkShape, FilesGenuine, NEW s \in Scripts, ReadForScript(s)
  PROVE  \E p \in {"read", "ended"} : \E c : Acts(s, p, NoFile, c) /\ Genuine(c, edited)
<1>1. PICK hook \in OptionalHooks, remove \in BOOLEAN :
         work' = [work EXCEPT ![s] = [NoWork EXCEPT !.at = IF settings.valid THEN "read" ELSE "ended",
                                        !.content = Merge(settings, hook, remove)]]
  BY DEF ReadForScript
<1> DEFINE c == Merge(settings, hook, remove)
           p == IF settings.valid THEN "read" ELSE "ended"
<1>2. Genuine(c, edited) BY MergeIsGenuine DEF FilesGenuine
<1>3. work' = [work EXCEPT ![s] = [NoWork EXCEPT !.at = p, !.content = c]] BY <1>1
<1>4. p \in {"read", "ended"} OBVIOUS
<1> HIDE DEF c, p
<1>5. [NoWork EXCEPT !.at = p, !.content = c] = [NoWork EXCEPT !.at = p, !.previous = NoFile, !.content = c]
  BY NoWorkFields DEF WorkFields
<1>6. Acts(s, p, NoFile, c) BY <1>3, <1>5, AnewActs DEF Registrars
<1> QED BY <1>2, <1>4, <1>6

-----------------------------------------------------------------------------
(* The shape of the state, and where the contents of files come from. *)

LEMMA GenuineStep ==
  ASSUME WorkShape, FilesGenuine, NEW r \in Registrars, NEW place, NEW p, NEW c, Acts(r, place, p, c),
         Genuine(p, edited), Genuine(c, edited), edited' = edited, Genuine(settings', edited),
         record' = [i \in Installers |-> record'[i]], original' = [i \in Installers |-> original'[i]],
         \A i \in Installers : \A t \in record'[i] : Genuine(t.before, edited)
  PROVE  WorkShape' /\ FilesGenuine'
<1>1. WorkShape' BY DEF WorkShape, Acts
<1>2. \A q \in Registrars : Genuine(work'[q].previous, edited) /\ Genuine(work'[q].content, edited)
  BY DEF FilesGenuine, Acts
<1> QED BY <1>1, <1>2 DEF FilesGenuine, Genuine

\* A step that leaves the records as they are, or drops that of its installer.
LEMMA GenuineActs ==
  ASSUME WorkShape, FilesGenuine, NEW r \in Registrars, NEW place, NEW p, NEW c, Acts(r, place, p, c),
         Genuine(p, edited), Genuine(c, edited), edited' = edited, Genuine(settings', edited),
         record' = record \/ record' = [record EXCEPT ![r] = {}],
         original' = original \/ original' = [original EXCEPT ![r] = settings]
  PROVE  WorkShape' /\ FilesGenuine'
<1>1. record' = [i \in Installers |-> record'[i]] /\ original' = [i \in Installers |-> original'[i]]
  <2>1. record = [i \in Installers |-> record[i]] /\ original = [i \in Installers |-> original[i]] BY DEF WorkShape
  <2>2. record' = [i \in Installers |-> record'[i]] BY <2>1
  <2>3. original' = [i \in Installers |-> original'[i]] BY <2>1
  <2> QED BY <2>2, <2>3
<1>2. \A i \in Installers : record'[i] = record[i] \/ record'[i] = {}
  <2>1. record = [i \in Installers |-> record[i]] BY DEF WorkShape
  <2> QED BY <2>1
<1>3. \A i \in Installers : \A t \in record'[i] : Genuine(t.before, edited)
  BY <1>2 DEF FilesGenuine
<1> QED BY <1>1, <1>3, GenuineStep

LEMMA ShapeStep ==
  ASSUME RegistrationInv, RegistrationNext
  PROVE  WorkShape' /\ FilesGenuine'
<1> USE DEF RegistrationInv
<1>0. /\ \A r \in Registrars : Genuine(work[r].previous, edited) /\ Genuine(work[r].content, edited)
      /\ Genuine(settings, edited) /\ \A i \in Installers : i \in Registrars
  BY DEF FilesGenuine, Registrars
<1>1. ASSUME NEW i \in Installers, BeginInstall(i) PROVE WorkShape' /\ FilesGenuine'
  BY <1>0, <1>1, BeginActs, GenuineActs DEF BeginInstall
<1>2. ASSUME NEW i \in Installers, ReadSettings(i) PROVE WorkShape' /\ FilesGenuine'
  BY <1>0, <1>2, ReadActs, GenuineActs DEF ReadSettings
<1>3. ASSUME NEW i \in Installers, Prepare(i) PROVE WorkShape' /\ FilesGenuine'
  BY <1>0, <1>3, PrepareActs, GenuineActs, NoFileIsGenuine DEF Prepare
<1>4. ASSUME NEW i \in Installers, BackUp(i) \/ LookAgain(i) \/ InstallFails(i) \/ BackUpAgain(i)
                                    \/ LookBefore(i) \/ RollbackFails(i)
      PROVE  WorkShape' /\ FilesGenuine'
  <2>1. \E p : MoveTo(i, p) BY <1>4 DEF BackUp, LookAgain, InstallFails, BackUpAgain, LookBefore, RollbackFails
  <2>2. UNCHANGED <<settings, record, edited, original>>
    BY <1>4 DEF BackUp, LookAgain, InstallFails, BackUpAgain, LookBefore, RollbackFails
  <2> QED BY <1>0, <2>1, <2>2, MoveActs, GenuineActs
<1>5. ASSUME NEW i \in Installers, RecordTransaction(i) PROVE WorkShape' /\ FilesGenuine'
  <2> DEFINE before == IF record[i] = {} THEN work[i].previous ELSE (CHOOSE t \in record[i] : TRUE).before
             new == [before |-> before, previous |-> work[i].previous, after |-> work[i].content]
  <2>1. record' = [record EXCEPT ![i] = {new}] BY <1>5 DEF RecordTransaction
  <2>2. Genuine(before, edited)
    <3>1. record[i] # {} => (CHOOSE t \in record[i] : TRUE) \in record[i] OBVIOUS
    <3> QED BY <1>0, <3>1 DEF FilesGenuine
  <2>3. new.before = before OBVIOUS
  <2>4. record = [j \in Installers |-> record[j]] BY DEF WorkShape
  <2> HIDE DEF new, before
  <2>5. record' = [j \in Installers |-> record'[j]] /\ \A j \in Installers : record'[j] = IF j = i THEN {new} ELSE record[j]
    BY <2>1, <2>4
  <2>6. \A j \in Installers : \A t \in record'[j] : Genuine(t.before, edited)
    BY <2>2, <2>3, <2>5 DEF FilesGenuine
  <2>7. MoveTo(i, "recorded") /\ UNCHANGED <<settings, edited, original>> BY <1>5 DEF RecordTransaction
  <2>8. original' = [j \in Installers |-> original'[j]] BY <2>7 DEF WorkShape
  <2> QED BY <1>0, <2>5, <2>6, <2>7, <2>8, MoveActs, GenuineStep
<1>6. ASSUME NEW i \in Installers, Replace(i) PROVE WorkShape' /\ FilesGenuine'
  BY <1>0, <1>6, NextHookActs, GenuineActs, NoFileIsGenuine DEF Replace, Writes
<1>7. ASSUME NEW i \in Installers, Installed(i) PROVE WorkShape' /\ FilesGenuine'
  BY <1>0, <1>7, EndActs, GenuineActs, NoFileIsGenuine DEF Installed
<1>8. ASSUME NEW i \in Installers, BeginRollback(i) PROVE WorkShape' /\ FilesGenuine'
  BY <1>0, <1>8, RollbackActs, GenuineActs, NoFileIsGenuine DEF BeginRollback
<1>9. ASSUME NEW i \in Installers, Restore(i) PROVE WorkShape' /\ FilesGenuine'
  <2>1. record[i] # {} BY <1>9 DEF RecordsFit, Fits, Recorded, Restore
  <2>2. (CHOOSE t \in record[i] : TRUE) \in record[i] BY <2>1
  <2>3. Genuine(settings', edited) BY <1>9, <2>2 DEF Restore, Writes, FilesGenuine
  <2> QED BY <1>0, <1>9, <2>3, EndActs, GenuineActs, NoFileIsGenuine DEF Restore
<1>10. ASSUME NEW s \in Scripts, ReadForScript(s) PROVE WorkShape' /\ FilesGenuine'
  <2>1. s \in Registrars BY DEF Registrars
  <2> QED BY <1>0, <1>10, <2>1, ScriptActs, GenuineActs, NoFileIsGenuine DEF ReadForScript
<1>11. ASSUME NEW s \in Scripts, BackUpForScript(s) \/ ScriptDies(s) PROVE WorkShape' /\ FilesGenuine'
  <2>1. s \in Registrars BY DEF Registrars
  <2>2. (\E p : MoveTo(s, p)) /\ UNCHANGED <<settings, record, edited, original>>
    BY <1>11 DEF BackUpForScript, ScriptDies
  <2> QED BY <1>0, <2>1, <2>2, MoveActs, GenuineActs
<1>12. ASSUME NEW s \in Scripts, ReplaceForScript(s) PROVE WorkShape' /\ FilesGenuine'
  <2>1. s \in Registrars BY DEF Registrars
  <2> QED BY <1>0, <1>12, <2>1, EndActs, GenuineActs, NoFileIsGenuine DEF ReplaceForScript, Writes
<1>13. ASSUME NEW e \in ForeignEdits, EditSettings(e) PROVE WorkShape' /\ FilesGenuine'
  <2>1. UNCHANGED <<work, record, original>> /\ edited' = edited \cup {e} BY <1>13 DEF EditSettings
  <2>2. PICK valid : settings' = [settings EXCEPT !.exists = TRUE, !.foreign = @ \cup {e}, !.valid = valid]
    BY <1>13 DEF EditSettings
  <2>3. Genuine(settings', edited') BY <1>0, <2>1, <2>2 DEF Genuine, FileFields
  <2>4. \A s : Genuine(s, edited) => Genuine(s, edited') BY <2>1 DEF Genuine
  <2>5. WorkShape' BY <2>1 DEF WorkShape
  <2> QED BY <1>0, <2>1, <2>3, <2>4, <2>5 DEF FilesGenuine
<1> QED BY <1>1, <1>2, <1>3, <1>4, <1>5, <1>6, <1>7, <1>8, <1>9, <1>10, <1>11, <1>12, <1>13 DEF RegistrationNext

-----------------------------------------------------------------------------
(* No edit is lost. *)

\* Before a step that makes every edit safe, or after one, nothing is at stake.
LEMMA AllKept ==
  ASSUME FilesGenuine', \A e \in edited' : Kept(e)'
  PROVE  EditsSurvive' /\ EditsCovered'
<1>1. EditsSurvive' BY DEF EditsSurvive, Kept
<1>2. \A r \in Installers : work'[r].previous.foreign \subseteq edited'
  BY DEF FilesGenuine, Genuine, Registrars
<1> QED BY <1>1, <1>2 DEF EditsCovered

\* A step that gets nobody to the point of renaming, nor to a comparison with a
\* file that is not covered.
LEMMA NobodyLooks ==
  ASSUME RegistrationInv, NEW r \in Registrars, \A q \in Registrars \ {r} : work'[q] = work[q],
         work'[r].at \notin {"looked", "undo looked", "backed up", "undo backed up"},
         work'[r].at = "recorded" =>
           r \in Installers /\ work[r].at = "backed up" /\ work'[r].previous = work[r].previous,
         UNCHANGED <<settings, backups, edited, exposed>>
  PROVE  EditsSurvive' /\ EditsCovered'
<1> USE DEF RegistrationInv
<1>1. EditsSurvive' BY DEF EditsSurvive
<1>2. Looked' # {} => Looked # {} BY DEF Looked
<1>3. \A q \in Installers : q \in Registrars BY DEF Registrars
<1>4. \A e : Kept(e)' = Kept(e) BY DEF Kept
<1>5. ASSUME NEW q \in Installers, work'[q].at \in {"backed up", "recorded", "undo backed up"}
      PROVE  \A e \in work'[q].previous.foreign : Kept(e)
  <2>1. CASE q = r BY <1>5, <2>1 DEF EditsCovered
  <2>2. CASE q # r BY <1>3, <1>5, <2>2 DEF EditsCovered
  <2> QED BY <2>1, <2>2
<1> QED BY <1>1, <1>2, <1>4, <1>5 DEF EditsCovered

\* What is backed up is kept, and so is what the file still holds.
LEMMA BackedUpKeeps ==
  ASSUME RegistrationInv, FilesGenuine', BackedUp, UNCHANGED <<settings, edited, exposed>>
  PROVE  EditsSurvive' /\ EditsCovered'
<1>1. \A e \in edited : Kept(e)'
  <2> TAKE e \in edited
  <2>1. CASE e \in settings.foreign
    <3>1. settings.exists BY <2>1 DEF RegistrationInv, FilesGenuine, Genuine
    <3> QED BY <2>1, <3>1 DEF BackedUp, Kept
  <2>2. CASE e \notin settings.foreign BY <2>2 DEF RegistrationInv, EditsSurvive, BackedUp, Kept
  <2> QED BY <2>1, <2>2
<1> QED BY <1>1, AllKept

\* Whoever finds the file as it was covered, finds every edit kept.
LEMMA LooksFind ==
  ASSUME RegistrationInv, FilesGenuine', NEW i \in Installers, work[i].at \in {"recorded", "undo backed up"},
         settings = work[i].previous, UNCHANGED <<settings, backups, edited, exposed>>
  PROVE  EditsSurvive' /\ EditsCovered'
<1>1. \A e \in edited : Kept(e) BY DEF RegistrationInv, EditsSurvive, EditsCovered, Kept
<1>2. \A e \in edited' : Kept(e)' BY <1>1 DEF Kept
<1> QED BY <1>2, AllKept

\* Somebody who has looked renames: every edit was kept before.
LEMMA RenameKeepsEdits ==
  ASSUME RegistrationInv, FilesGenuine', NEW r \in Registrars, work[r].at \in {"looked", "undo looked"},
         UNCHANGED <<backups, edited, exposed>>
  PROVE  EditsSurvive' /\ EditsCovered'
<1>1. \A e \in edited : Kept(e) BY DEF RegistrationInv, EditsCovered, Looked
<1>2. \A e \in edited' : Kept(e)' BY <1>1 DEF Kept
<1> QED BY <1>2, AllKept

LEMMA EditKeeps ==
  ASSUME RegistrationInv, NEW e \in ForeignEdits, EditSettings(e)
  PROVE  EditsSurvive' /\ EditsCovered'
<1> USE DEF RegistrationInv
<1>1. /\ edited' = edited \cup {e} /\ exposed' = exposed \cup IF Looked = {} THEN {} ELSE {e}
      /\ UNCHANGED <<backups, work>>
  BY DEF EditSettings
<1>2. settings'.foreign = settings.foreign \cup {e}
  <2>1. PICK valid : settings' = [settings EXCEPT !.exists = TRUE, !.foreign = @ \cup {e}, !.valid = valid]
    BY DEF EditSettings
  <2> QED BY <2>1 DEF FilesGenuine, Genuine, FileFields
<1>3. EditsSurvive' BY <1>1, <1>2 DEF EditsSurvive
<1>4. \A f : Kept(f) => Kept(f)' BY <1>1 DEF Kept
<1>5. Looked' = Looked BY <1>1 DEF Looked
<1>6. Looked # {} => Kept(e)' BY <1>1 DEF Kept
<1> QED BY <1>1, <1>3, <1>4, <1>5, <1>6 DEF EditsCovered

LEMMA EditsStep ==
  ASSUME RegistrationInv, RegistrationNext
  PROVE  EditsSurvive' /\ EditsCovered'
<1> DEFINE Goal == EditsSurvive' /\ EditsCovered'
<1>0. WorkShape /\ FilesGenuine /\ FilesGenuine' /\ (\A i \in Installers : i \in Registrars) /\ \A s \in Scripts : s \in Registrars
  BY ShapeStep DEF RegistrationInv, Registrars
<1>1. ASSUME NEW i \in Installers, BeginInstall(i) PROVE Goal
  <2>1. Acts(i, "ready", work[i].previous, work[i].content) BY <1>0, <1>1, BeginActs
  <2>2. UNCHANGED <<settings, backups, edited, exposed>> BY <1>1 DEF BeginInstall
  <2> QED BY <1>0, <2>1, <2>2, NobodyLooks DEF Acts
<1>2. ASSUME NEW i \in Installers, ReadSettings(i) PROVE Goal
  BY <1>0, <1>2, ReadActs, NobodyLooks DEF Acts, ReadSettings
<1>3. ASSUME NEW i \in Installers, Prepare(i) PROVE Goal
  BY <1>0, <1>3, PrepareActs, NobodyLooks DEF Acts, Prepare
<1>4. ASSUME NEW i \in Installers, BackUp(i) \/ BackUpAgain(i) PROVE Goal
  BY <1>0, <1>4, BackedUpKeeps DEF BackUp, BackUpAgain
<1>5. ASSUME NEW i \in Installers, RecordTransaction(i) PROVE Goal
  <2>1. Acts(i, "recorded", work[i].previous, work[i].content) BY <1>0, <1>5, MoveActs DEF RecordTransaction
  <2>2. work[i].at = "backed up" /\ UNCHANGED <<settings, backups, edited, exposed>> BY <1>5 DEF RecordTransaction
  <2> QED BY <1>0, <2>1, <2>2, NobodyLooks DEF Acts
<1>6. ASSUME NEW i \in Installers, LookAgain(i) PROVE Goal
  <2>1. CASE settings = work[i].previous BY <1>0, <1>6, <2>1, LooksFind DEF LookAgain
  <2>2. CASE settings # work[i].previous
    <3>1. MoveTo(i, "failed") BY <1>6, <2>2 DEF LookAgain
    <3>2. UNCHANGED <<settings, backups, edited, exposed>> BY <1>6 DEF LookAgain
    <3>3. Acts(i, "failed", work[i].previous, work[i].content) BY <1>0, <3>1, MoveActs
    <3> QED BY <1>0, <3>2, <3>3, NobodyLooks DEF Acts
  <2> QED BY <2>1, <2>2
<1>7. ASSUME NEW i \in Installers, Replace(i) \/ Restore(i) PROVE Goal
  BY <1>0, <1>7, RenameKeepsEdits DEF Replace, Restore
<1>8. ASSUME NEW i \in Installers, InstallFails(i) \/ RollbackFails(i) PROVE Goal
  <2>1. PICK place \in {"failed", "stuck"} : MoveTo(i, place) BY <1>8 DEF InstallFails, RollbackFails
  <2>2. Acts(i, place, work[i].previous, work[i].content) BY <1>0, <2>1, MoveActs
  <2>3. UNCHANGED <<settings, backups, edited, exposed>> BY <1>8 DEF InstallFails, RollbackFails
  <2> QED BY <1>0, <2>2, <2>3, NobodyLooks DEF Acts
<1>9. ASSUME NEW i \in Installers, Installed(i) PROVE Goal
  <2>1. Acts(i, "installed", NoFile, NoFile) BY <1>0, <1>9, EndActs DEF Installed
  <2>2. UNCHANGED <<settings, backups, edited, exposed>> BY <1>9 DEF Installed
  <2> QED BY <1>0, <2>1, <2>2, NobodyLooks DEF Acts
<1>10. ASSUME NEW i \in Installers, BeginRollback(i) PROVE Goal
  BY <1>0, <1>10, RollbackActs, NobodyLooks DEF Acts, BeginRollback
<1>11. ASSUME NEW i \in Installers, LookBefore(i) PROVE Goal
  <2>1. CASE settings = work[i].previous BY <1>0, <1>11, <2>1, LooksFind DEF LookBefore
  <2>2. CASE settings # work[i].previous
    <3>1. MoveTo(i, "refused") BY <1>11, <2>2 DEF LookBefore
    <3>2. UNCHANGED <<settings, backups, edited, exposed>> BY <1>11 DEF LookBefore
    <3>3. Acts(i, "refused", work[i].previous, work[i].content) BY <1>0, <3>1, MoveActs
    <3> QED BY <1>0, <3>2, <3>3, NobodyLooks DEF Acts
  <2> QED BY <2>1, <2>2
<1>12. ASSUME NEW s \in Scripts, ReadForScript(s) PROVE Goal
  BY <1>0, <1>12, ScriptActs, NobodyLooks DEF Acts, ReadForScript
<1>13. ASSUME NEW s \in Scripts, BackUpForScript(s) PROVE Goal
  BY <1>0, <1>13, BackedUpKeeps DEF BackUpForScript
<1>14. ASSUME NEW s \in Scripts, ReplaceForScript(s) PROVE Goal
  BY <1>0, <1>14, RenameKeepsEdits DEF ReplaceForScript
<1>15. ASSUME NEW s \in Scripts, ScriptDies(s) PROVE Goal
  <2>1. Acts(s, "ended", work[s].previous, work[s].content) BY <1>0, <1>15, MoveActs DEF ScriptDies
  <2>2. UNCHANGED <<settings, backups, edited, exposed>> BY <1>15 DEF ScriptDies
  <2> QED BY <1>0, <2>1, <2>2, NobodyLooks DEF Acts
<1>16. ASSUME NEW e \in ForeignEdits, EditSettings(e) PROVE Goal
  BY <1>16, EditKeeps
<1> QED BY <1>1, <1>2, <1>3, <1>4, <1>5, <1>6, <1>7, <1>8, <1>9, <1>10, <1>11, <1>12, <1>13, <1>14, <1>15, <1>16
       DEF RegistrationNext

-----------------------------------------------------------------------------
(* An installation nobody disturbs finds the file as its record says. *)

\* What somebody else does leaves the fit of an installation alone, or disturbs it.
LEMMA OthersFit ==
  ASSUME NEW i \in Installers, Fits(i), work'[i] = work[i], record'[i] = record[i], original'[i] = original[i],
         \/ UNCHANGED <<settings, disturbed>>
         \/ disturbed' = disturbed /\ work[i].at = "idle"
         \/ i \in disturbed'
  PROVE  Fits(i)'
<1>1. Recorded(record[i], work[i].at)' BY DEF Fits
<1>2. i \notin disturbed' => Undisturbed(i)'
  <2>1. CASE UNCHANGED <<settings, disturbed>> BY <2>1 DEF Fits, Undisturbed, Expected
  <2>2. CASE work[i].at = "idle" BY <2>2 DEF Undisturbed, Comparing
  <2> QED BY <2>1, <2>2
<1> QED BY <1>1, <1>2 DEF Fits

\* What an installation itself does leaves its own fit as it is.
LEMMA OwnFits ==
  ASSUME NEW i \in Installers, Fits(i), Recorded(record'[i], work'[i].at),
         disturbed' = disturbed \/ (\E s : Writes(i, s)), Undisturbed(i) => Undisturbed(i)'
  PROVE  Fits(i)'
<1>1. i \notin disturbed' => i \notin disturbed BY DEF Writes
<1> QED BY <1>1 DEF Fits

LEMMA OthersFitAll ==
  ASSUME RegistrationInv, NEW r \in Registrars, NEW place, NEW p, NEW c, Acts(r, place, p, c),
         \A i \in Installers \ {r} : record'[i] = record[i] /\ original'[i] = original[i],
         UNCHANGED <<settings, disturbed>> \/ (\E s : Writes(r, s)),
         r \in Installers => Fits(r)'
  PROVE  RecordsFit'
<1>1. \A i \in Installers : Fits(i) BY DEF RegistrationInv, RecordsFit
<1>2. ASSUME NEW i \in Installers \ {r} PROVE Fits(i)'
  <2>1. work'[i] = work[i] BY DEF Acts, Registrars
  <2>2. \/ UNCHANGED <<settings, disturbed>>
        \/ \E s : Writes(r, s) /\ (i \in disturbed' \/ work[i].at = "idle")
    BY DEF Writes
  <2>3. CASE UNCHANGED <<settings, disturbed>> BY <1>1, <2>1, <2>3, OthersFit
  <2>4. CASE i \in disturbed' BY <1>1, <2>1, <2>4, OthersFit
  <2>5. CASE work[i].at = "idle"
    <3>1. Recorded(record[i], work[i].at)' BY <1>1, <2>1 DEF Fits
    <3>2. Undisturbed(i)' BY <2>1, <2>5 DEF Undisturbed, Comparing
    <3> QED BY <3>1, <3>2 DEF Fits
  <2> QED BY <2>2, <2>3, <2>4, <2>5
<1>3. \A i \in Installers : Fits(i)' BY <1>2
<1> QED BY <1>3 DEF RecordsFit

LEMMA FitsStep ==
  ASSUME RegistrationInv, RegistrationNext
  PROVE  RecordsFit'
<1>0. WorkShape /\ FilesGenuine /\ (\A i \in Installers : i \in Registrars) /\ \A s \in Scripts : s \in Registrars
  BY DEF RegistrationInv, Registrars
<1>r. record = [i \in Installers |-> record[i]] /\ original = [i \in Installers |-> original[i]]
  BY DEF RegistrationInv, WorkShape
<1>f. \A i \in Installers : Fits(i) BY DEF RegistrationInv, RecordsFit
<1>1. ASSUME NEW i \in Installers, BeginInstall(i) PROVE RecordsFit'
  <2>1. Acts(i, "ready", work[i].previous, work[i].content) BY <1>0, <1>1, BeginActs
  <2>2. UNCHANGED <<settings, record, disturbed>> /\ original' = [original EXCEPT ![i] = settings] /\ work[i].at = "idle"
    BY <1>1 DEF BeginInstall
  <2>3. original'[i] = settings /\ \A j \in Installers \ {i} : original'[j] = original[j] BY <1>r, <2>2
  <2>4. record[i] = {} BY <1>f, <2>2 DEF Fits, Recorded
  <2>5. Undisturbed(i)' BY <2>1, <2>2, <2>3, <2>4 DEF Acts, Undisturbed, Comparing
  <2>6. Recorded(record[i], work[i].at)' BY <2>1, <2>2, <2>4 DEF Acts, Recorded
  <2>7. Fits(i)' BY <2>5, <2>6 DEF Fits
  <2> QED BY <1>0, <2>1, <2>2, <2>3, <2>7, OthersFitAll
<1>2. ASSUME NEW i \in Installers, ReadSettings(i) PROVE RecordsFit'
  <2>1. PICK p \in {"read", "failed"} : \E c : Acts(i, p, settings, c) BY <1>0, <1>2, ReadActs
  <2>2. PICK c : Acts(i, p, settings, c) BY <2>1
  <2>3. UNCHANGED <<settings, record, disturbed, original>> /\ work[i].at = "ready" BY <1>2 DEF ReadSettings
  <2>4. Undisturbed(i) => Undisturbed(i)' BY <2>2, <2>3 DEF Acts, Undisturbed, Comparing, Expected
  <2>5. Recorded(record'[i], work'[i].at) BY <1>f, <2>2, <2>3 DEF Acts, Fits, Recorded
  <2>6. Fits(i)' BY <1>f, <2>3, <2>4, <2>5, OwnFits
  <2> QED BY <1>0, <2>2, <2>3, <2>6, OthersFitAll
<1>3. ASSUME NEW i \in Installers, Prepare(i) PROVE RecordsFit'
  <2>1. UNCHANGED <<settings, record, disturbed, original>> /\ work[i].at = "read" BY <1>3 DEF Prepare
  <2>2. \/ \E p \in {"ready", "testing"} : Acts(i, p, NoFile, NoFile)
        \/ Acts(i, "failed", work[i].previous, work[i].content)
        \/ Acts(i, "prepared", work[i].previous, work[i].content) /\ settings = work[i].previous
    BY <1>0, <1>3, PrepareActs
  <2>3. Undisturbed(i) => Undisturbed(i)' BY <2>1, <2>2 DEF Acts, Undisturbed, Comparing, Expected
  <2>4. Recorded(record'[i], work'[i].at) BY <1>f, <2>1, <2>2 DEF Acts, Fits, Recorded
  <2>5. Fits(i)' BY <1>f, <2>1, <2>3, <2>4, OwnFits
  <2>6. \E p, q, c : Acts(i, p, q, c) BY <2>2
  <2> QED BY <1>0, <2>1, <2>5, <2>6, OthersFitAll
<1>4. ASSUME NEW i \in Installers, BackUp(i) \/ BackUpAgain(i) \/ InstallFails(i) \/ RollbackFails(i) PROVE RecordsFit'
  <2>1. UNCHANGED <<settings, record, disturbed, original>>
    BY <1>4 DEF BackUp, BackUpAgain, InstallFails, RollbackFails
  <2>2. \/ work[i].at = "prepared" /\ MoveTo(i, "backed up")
        \/ work[i].at = "undoing" /\ MoveTo(i, "undo backed up")
        \/ work[i].at \in Registering /\ MoveTo(i, "failed")
        \/ work[i].at \in {"undoing", "undo backed up", "undo looked"} /\ MoveTo(i, "stuck")
    BY <1>4 DEF BackUp, BackUpAgain, InstallFails, RollbackFails
  <2>3. \E p : /\ Acts(i, p, work[i].previous, work[i].content)
               /\ \/ work[i].at = "prepared" /\ p = "backed up"
                  \/ work[i].at = "undoing" /\ p = "undo backed up"
                  \/ work[i].at \in Registering /\ p = "failed"
                  \/ work[i].at \in {"undoing", "undo backed up", "undo looked"} /\ p = "stuck"
    BY <1>0, <2>2, MoveActs
  <2>4. Undisturbed(i) => Undisturbed(i)'
    BY <2>1, <2>3 DEF Acts, Undisturbed, Comparing, Expected, Registering
  <2>5. Recorded(record'[i], work'[i].at) BY <1>f, <2>1, <2>3 DEF Acts, Fits, Recorded
  <2>6. Fits(i)' BY <1>f, <2>1, <2>4, <2>5, OwnFits
  <2> QED BY <1>0, <2>1, <2>3, <2>6, OthersFitAll
<1>5. ASSUME NEW i \in Installers, RecordTransaction(i) PROVE RecordsFit'
  <2> DEFINE before == IF record[i] = {} THEN work[i].previous ELSE (CHOOSE t \in record[i] : TRUE).before
             new == [before |-> before, previous |-> work[i].previous, after |-> work[i].content]
  <2>1. record' = [record EXCEPT ![i] = {new}] BY <1>5 DEF RecordTransaction
  <2>2. record'[i] = {new} /\ \A j \in Installers \ {i} : record'[j] = record[j]
    <3> HIDE DEF new
    <3> QED BY <1>r, <2>1
  <2>3. UNCHANGED <<settings, disturbed, original>> /\ work[i].at = "backed up" BY <1>5 DEF RecordTransaction
  <2>4. Acts(i, "recorded", work[i].previous, work[i].content) BY <1>0, <1>5, MoveActs DEF RecordTransaction
  <2>5. \E b, p, a : record'[i] = {[before |-> b, previous |-> p, after |-> a]} BY <2>2
  <2>6. ASSUME i \notin disturbed PROVE Undisturbed(i)'
    <3>1. Undisturbed(i) BY <1>f, <2>6 DEF Fits
    <3>2. settings = work[i].previous BY <2>3, <3>1 DEF Undisturbed, Comparing
    <3>3. before = original[i]
      <4>1. CASE record[i] = {} BY <2>3, <3>1, <3>2, <4>1 DEF Undisturbed
      <4>2. CASE record[i] # {}
        <5>1. (CHOOSE t \in record[i] : TRUE) \in record[i] BY <4>2
        <5> QED BY <2>3, <3>1, <4>2, <5>1 DEF Undisturbed
      <4> QED BY <4>1, <4>2
    <3>4. new.before = before /\ new.previous = work[i].previous /\ new.after = work[i].content OBVIOUS
    <3> HIDE DEF new, before
    <3> QED BY <2>2, <2>3, <2>4, <3>2, <3>3, <3>4 DEF Undisturbed, Acts, Expected
  <2> HIDE DEF new, before
  <2>7. Recorded(record'[i], work'[i].at) BY <2>4, <2>5 DEF Acts, Recorded
  <2>8. Fits(i)' BY <2>3, <2>6, <2>7 DEF Fits
  <2> QED BY <1>0, <2>2, <2>3, <2>4, <2>8, OthersFitAll
<1>6. ASSUME NEW i \in Installers, LookAgain(i) \/ LookBefore(i) PROVE RecordsFit'
  <2>1. UNCHANGED <<settings, record, disturbed, original>> BY <1>6 DEF LookAgain, LookBefore
  <2>2. \E p : /\ MoveTo(i, p)
               /\ \/ work[i].at = "recorded" /\ p = IF settings = work[i].previous THEN "looked" ELSE "failed"
                  \/ work[i].at = "undo backed up" /\ p = IF settings = work[i].previous THEN "undo looked" ELSE "refused"
    BY <1>6 DEF LookAgain, LookBefore
  <2>3. \E p : /\ Acts(i, p, work[i].previous, work[i].content)
               /\ \/ work[i].at = "recorded" /\ p = IF settings = work[i].previous THEN "looked" ELSE "failed"
                  \/ work[i].at = "undo backed up" /\ p = IF settings = work[i].previous THEN "undo looked" ELSE "refused"
    BY <1>0, <2>2, MoveActs
  <2>4. Undisturbed(i) => Undisturbed(i)' BY <2>1, <2>3 DEF Acts, Undisturbed, Comparing, Expected
  <2>5. Recorded(record'[i], work'[i].at) BY <1>f, <2>1, <2>3 DEF Acts, Fits, Recorded
  <2>6. Fits(i)' BY <1>f, <2>1, <2>4, <2>5, OwnFits
  <2> QED BY <1>0, <2>1, <2>3, <2>6, OthersFitAll
<1>7. ASSUME NEW i \in Installers, Replace(i) PROVE RecordsFit'
  <2>1. UNCHANGED <<record, original>> /\ work[i].at = "looked" /\ Writes(i, work[i].content) BY <1>7 DEF Replace
  <2>2. PICK p \in {"ready", "testing"} : Acts(i, p, NoFile, NoFile) BY <1>0, <1>7, NextHookActs DEF Replace
  <2>3. settings' = work[i].content /\ (i \notin disturbed' => i \notin disturbed) BY <2>1 DEF Writes
  <2>4. record[i] # {} BY <1>f, <2>1 DEF Fits, Recorded
  <2>5. Undisturbed(i) => Undisturbed(i)' BY <2>1, <2>2, <2>3, <2>4 DEF Acts, Undisturbed, Comparing, Expected
  <2>6. Recorded(record'[i], work'[i].at) BY <1>f, <2>1, <2>2 DEF Acts, Fits, Recorded
  <2>7. Fits(i)' BY <1>f, <2>1, <2>5, <2>6, OwnFits
  <2> QED BY <1>0, <2>1, <2>2, <2>7, OthersFitAll
<1>8. ASSUME NEW i \in Installers, Installed(i) PROVE RecordsFit'
  <2>1. UNCHANGED <<settings, disturbed, original>> /\ record' = [record EXCEPT ![i] = {}] BY <1>8 DEF Installed
  <2>2. record'[i] = {} /\ \A j \in Installers \ {i} : record'[j] = record[j] BY <1>r, <2>1
  <2>3. Acts(i, "installed", NoFile, NoFile) BY <1>0, <1>8, EndActs DEF Installed
  <2>4. Undisturbed(i)' BY <2>2, <2>3 DEF Acts, Undisturbed, Comparing
  <2>5. Recorded(record'[i], work'[i].at) BY <2>2, <2>3 DEF Acts, Recorded
  <2>6. Fits(i)' BY <2>4, <2>5 DEF Fits
  <2> QED BY <1>0, <2>1, <2>2, <2>3, <2>6, OthersFitAll
<1>9. ASSUME NEW i \in Installers, BeginRollback(i) PROVE RecordsFit'
  <2>1. UNCHANGED <<settings, record, disturbed, original>> /\ work[i].at = "failed" BY <1>9 DEF BeginRollback
  <2>2. PICK p \in {"restored", "undoing", "refused"} :
           /\ Acts(i, p, settings, NoFile) /\ (p = "restored" <=> record[i] = {})
           /\ p = "refused" <=> (record[i] # {} /\ \E t \in record[i] : settings \notin Expected(t))
    BY <1>0, <1>9, RollbackActs
  <2>3. Undisturbed(i) => Undisturbed(i)'
    <3> SUFFICES ASSUME Undisturbed(i) PROVE Undisturbed(i)' OBVIOUS
    <3>1. (record[i] = {} => settings = original[i]) /\ \A t \in record[i] : t.before = original[i] /\ settings \in Expected(t)
      BY <2>1 DEF Undisturbed
    <3>2. p # "refused" BY <2>2, <3>1
    <3>3. work'[i].at = p /\ work'[i].previous = settings BY <2>2 DEF Acts
    <3> QED BY <2>1, <3>1, <3>2, <3>3 DEF Undisturbed, Expected
  <2>4. work'[i].at = p BY <2>2 DEF Acts
  <2>5. Recorded(record'[i], work'[i].at) BY <1>f, <2>1, <2>2, <2>4 DEF Fits, Recorded
  <2>6. Fits(i)' BY <1>f, <2>1, <2>3, <2>5, OwnFits
  <2> QED BY <1>0, <2>1, <2>2, <2>6, OthersFitAll
<1>10. ASSUME NEW i \in Installers, Restore(i) PROVE RecordsFit'
  <2> DEFINE s == (CHOOSE t \in record[i] : TRUE).before
  <2>1. /\ UNCHANGED original /\ work[i].at = "undo looked" /\ Writes(i, s) /\ record' = [record EXCEPT ![i] = {}]
    BY <1>10 DEF Restore
  <2>2. record'[i] = {} /\ \A j \in Installers \ {i} : record'[j] = record[j] BY <1>r, <2>1
  <2>3. Acts(i, "restored", NoFile, NoFile) BY <1>0, <1>10, EndActs DEF Restore
  <2>4. i \notin disturbed' => settings' = original[i]
    <3>1. record[i] # {} BY <1>f, <2>1 DEF Fits, Recorded
    <3>2. (CHOOSE t \in record[i] : TRUE) \in record[i] BY <3>1
    <3>3. i \notin disturbed' => Undisturbed(i) BY <1>f, <2>1 DEF Fits, Writes
    <3> QED BY <2>1, <3>2, <3>3 DEF Writes, Undisturbed
  <2> HIDE DEF s
  <2>5. i \notin disturbed' => Undisturbed(i)' BY <2>1, <2>2, <2>3, <2>4 DEF Acts, Undisturbed, Comparing
  <2>6. Recorded(record'[i], work'[i].at) BY <2>2, <2>3 DEF Acts, Recorded
  <2>7. Fits(i)' BY <2>5, <2>6 DEF Fits
  <2> QED BY <1>0, <2>1, <2>2, <2>3, <2>7, OthersFitAll
<1>11. ASSUME NEW s \in Scripts, ReadForScript(s) \/ BackUpForScript(s) \/ ReplaceForScript(s) \/ ScriptDies(s)
       PROVE  RecordsFit'
  <2>1. /\ UNCHANGED <<record, original>>
        /\ UNCHANGED <<settings, disturbed>> \/ (\E t : Writes(s, t))
    BY <1>11 DEF ReadForScript, BackUpForScript, ReplaceForScript, ScriptDies
  <2>2. \E p, q, c : Acts(s, p, q, c)
    BY <1>0, <1>11, ScriptActs, MoveActs, EndActs DEF BackUpForScript, ReplaceForScript, ScriptDies
  <2>3. s \notin Installers BY RegistrationAssumption
  <2> QED BY <1>0, <2>1, <2>2, <2>3, OthersFitAll
<1>12. ASSUME NEW e \in ForeignEdits, EditSettings(e) PROVE RecordsFit'
  <2>1. UNCHANGED <<work, record, original>> /\ disturbed' = disturbed \cup {i \in Installers : work[i].at # "idle"}
    BY <1>12 DEF EditSettings
  <2>2. ASSUME NEW i \in Installers PROVE Fits(i)'
    <3>1. CASE work[i].at # "idle" BY <1>f, <2>1, <3>1, OthersFit
    <3>2. CASE work[i].at = "idle"
      <4>1. Undisturbed(i)' BY <2>1, <3>2 DEF Undisturbed, Comparing
      <4>2. Recorded(record[i], work[i].at)' BY <1>f, <2>1 DEF Fits
      <4> QED BY <4>1, <4>2 DEF Fits
    <3> QED BY <3>1, <3>2
  <2> QED BY <2>2 DEF RecordsFit
<1> QED BY <1>1, <1>2, <1>3, <1>4, <1>5, <1>6, <1>7, <1>8, <1>9, <1>10, <1>11, <1>12 DEF RegistrationNext

-----------------------------------------------------------------------------

LEMMA RegistrationStep == RegistrationInv /\ [RegistrationNext]_registrationVars => RegistrationInv'
<1>1. ASSUME RegistrationInv, RegistrationNext PROVE RegistrationInv'
  BY <1>1, ShapeStep, EditsStep, FitsStep DEF RegistrationInv
<1>2. ASSUME RegistrationInv, UNCHANGED registrationVars PROVE RegistrationInv'
  <2> USE DEF RegistrationInv, registrationVars
  <2>1. WorkShape' /\ FilesGenuine' BY <1>2 DEF WorkShape, FilesGenuine, Genuine
  <2>2. EditsSurvive' BY <1>2 DEF EditsSurvive
  <2>3. EditsCovered' BY <1>2 DEF EditsCovered, Kept, Looked
  <2>4. \A i \in Installers : Undisturbed(i) => Undisturbed(i)' BY <1>2 DEF Undisturbed, Expected
  <2>5. \A i \in Installers : Fits(i) => Fits(i)' BY <1>2, <2>4 DEF Fits, Recorded
  <2>6. RecordsFit' BY <1>2, <2>5 DEF RecordsFit
  <2> QED BY <2>1, <2>2, <2>3, <2>6
<1> QED BY <1>1, <1>2

\* However registrars, scripts, rollbacks and the user overlap and die, no edit
\* of somebody else is lost but one made in the instant before a rename; and an
\* installation nobody disturbed is rolled back to the file it found, and its
\* rollback never refused.
THEOREM SettingsAlwaysHold == RegistrationSpec => []SettingsHold
<1>1. RegistrationInv => SettingsHold
  <2> SUFFICES ASSUME RegistrationInv, NEW i \in Installers \ disturbed
               PROVE  (work[i].at = "restored" => settings = original[i]) /\ work[i].at # "refused"
    BY DEF SettingsHold, RollbackIsSafe, RegistrationInv
  <2> QED BY DEF RegistrationInv, RecordsFit, Fits, Recorded, Undisturbed
<1> QED BY <1>1, RegistrationStarts, RegistrationStep, PTL DEF RegistrationSpec

----------------------------------------------------------------------------
(***************************************************************************)
(* Onboarding for any people, commands and entries of others: what an      *)
(* operator was told stays true, others' work is kept, and nobody is       *)
(* locked out.                                                             *)
(***************************************************************************)

CommandPlaces == {"idle", "reading", "rechecking", "locking", "comparing", "renaming", "releasing", "inspecting",
           "refreshing", "putting", "confirming", "ending", "answered", "dead"}
Listed == SUBSET (People \cup HandEdits)
Commands == [at : CommandPlaces, kind : OnboardKinds, person : People, file : Files, verdict : Verdicts,
             read : [Files -> Listed], seen : Listed]

OnboardingTypes == OnboardingTypeOK /\ op \in [Operations -> Commands]

Running == CommandPlaces \ {"idle", "answered", "dead"}
FileSteps == {"locking", "comparing", "renaming", "releasing"}
ProviderSteps == {"refreshing", "putting", "confirming"}

\* The file of a command is as it wants it; so is everything.
Through(w) == w.at = "releasing" /\ w.verdict = "none"
Done(w) == w.at = "ending" /\ w.verdict = "applied"

\* What a command that adds a person knows.
AddKnows(w) == w.kind = "add" =>
    /\ w.at # "rechecking"
    /\ w.at = "inspecting" /\ w.person \in w.read["config"] => w.person \in entries["config"]
    /\ w.at \in FileSteps => w.file = "config" /\ (w.person \in w.seen => w.person \in entries["provider"])
    /\ Through(w) \/ w.at \in ProviderSteps \/ Done(w) => w.person \in entries["config"]
    /\ Done(w) => w.person \in entries["provider"]

EnrollKnows(w) == w.kind = "enroll" =>
    /\ w.at \notin ProviderSteps \cup {"inspecting"}
    /\ w.at = "rechecking" /\ w.person \in w.read["grants"] => w.person \in entries["grants"]
    /\ w.at \in FileSteps => w.file = "grants"
    /\ Through(w) \/ Done(w) => w.person \in entries["grants"]

\* A revocation goes from the grants to the allow list to the provider, and
\* leaves somebody on the allow list.
RevokeKnows(w) == w.kind = "revoke" =>
    /\ w.at # "rechecking"
    /\ w.at \in FileSteps =>
         /\ w.file = "config" => w.person \notin entries["grants"]
         /\ w.person \notin w.read["config"] => w.person \notin entries["config"]
         /\ w.read["config"] \ {w.person} # {}
    /\ Through(w) => w.person \notin entries[w.file]
    /\ w.at \in ProviderSteps \cup {"inspecting"} \/ Done(w) =>
         w.person \notin entries["grants"] /\ w.person \notin entries["config"]
    /\ Done(w) => w.person \notin entries["provider"]
    /\ w.verdict = "partial" => w.person \notin entries["grants"]

\* What is about to be written has nobody who was not there, and everything
\* of others that was, but for what came since the last look.
Covers(s, before) ==
    /\ \A q \in People : q \in before => q \in entries[s]
    /\ \A x \in HandEdits : written[x] = s /\ x \notin inWindow => x \in before

\* A running command has the workflow to itself, nothing promised against
\* it, and its verdict only at the end.
Alone(o, w) ==
    /\ w.at \in Running =>
         /\ workflow = o
         /\ w.kind = "enroll" => promise[w.person] = "nothing"
         /\ w.kind = "add" => promise[w.person] # "no trace"
    /\ w.at \notin {"releasing", "ending"} => w.verdict = "none"
    /\ w.verdict = "applied" => w.at = "ending"

Knows(o, w) ==
    /\ Alone(o, w) /\ AddKnows(w) /\ EnrollKnows(w) /\ RevokeKnows(w)
    /\ w.at = "renaming" => Covers(w.file, w.read[w.file])
    /\ w.at = "putting" => Covers("provider", w.seen) /\ Wanted(o, w.seen) # {}

CommandsKnow == \A o \in Operations : Knows(o, op[o])

OnboardingInv == OnboardingTypes /\ CommandsKnow /\ RevocationsStand /\ OthersWorkIsKept /\ SomebodyRemains

-----------------------------------------------------------------------------

\* A command that has not begun, or has ended, knows nothing that could change.
LEMMA RestKnows ==
  ASSUME NEW o, NEW w, w.at \in {"idle", "answered", "dead"}, w.verdict = "none"
  PROVE  Knows(o, w)
<1>1. w.at \notin Running \cup FileSteps \cup ProviderSteps \cup {"rechecking", "inspecting", "renaming", "putting",
    "ending"}
  BY DEF Running, FileSteps, ProviderSteps
<1>2. ~Through(w) /\ ~Done(w) BY DEF Through, Done
<1>3. Alone(o, w) BY <1>1 DEF Alone
<1> QED BY <1>1, <1>2, <1>3 DEF Knows, AddKnows, EnrollKnows, RevokeKnows

LEMMA OnboardingStarts == OnboardingInit => OnboardingInv
<1> SUFFICES ASSUME OnboardingInit PROVE OnboardingInv OBVIOUS
<1> USE OnboardingAssumption
<1>1. Idle \in Commands
  BY DEF Idle, Commands, CommandPlaces, OnboardKinds, Files, Verdicts, Listed
<1>2. \A o \in Operations : op[o] = Idle BY DEF OnboardingInit
<1>3. OnboardingTypes
  <2>1. op \in [Operations -> Commands] BY <1>1 DEF OnboardingInit
  <2>2. entries \in [Stores -> SUBSET (People \cup HandEdits)] BY DEF OnboardingInit
  <2> QED BY <1>2, <2>1, <2>2
      DEF OnboardingInit, OnboardingTypes, OnboardingTypeOK, Idle, Files, OnboardKinds, Verdicts
<1>4. CommandsKnow BY <1>2, RestKnows DEF CommandsKnow, Idle
<1>5. SomebodyRemains BY DEF OnboardingInit, SomebodyRemains, Stores, Files
<1> QED BY <1>3, <1>4, <1>5 DEF OnboardingInv, OnboardingInit, RevocationsStand, OthersWorkIsKept

-----------------------------------------------------------------------------
(* What a step makes of its command. *)

\* Command o goes on for the same person.
Becomes(o, place, file, verdict, read, seen) ==
    /\ op' \in [Operations -> Commands] /\ \A q \in Operations \ {o} : op'[q] = op[q]
    /\ op'[o].kind = op[o].kind /\ op'[o].person = op[o].person
    /\ op'[o].at = place /\ op'[o].file = file /\ op'[o].verdict = verdict /\ op'[o].read = read /\ op'[o].seen = seen

LEMMA AtBecomes ==
  ASSUME OnboardingTypes, NEW o \in Operations, NEW place \in CommandPlaces, op' = ToPlace(o, place)
  PROVE  Becomes(o, place, op[o].file, op[o].verdict, op[o].read, op[o].seen)
BY DEF Becomes, OnboardingTypes, Commands, ToPlace

LEMMA FileBecomes ==
  ASSUME OnboardingTypes, NEW o \in Operations, NEW f \in Files, op' = ToFile(o, f)
  PROVE  Becomes(o, "locking", f, op[o].verdict, op[o].read, op[o].seen)
BY ZenonT(60) DEF Becomes, OnboardingTypes, Commands, ToFile, CommandPlaces

LEMMA EndBecomes ==
  ASSUME OnboardingTypes, NEW o \in Operations, NEW v \in Verdicts, op' = Ended(o, v)
  PROVE  Becomes(o, "ending", op[o].file, v, op[o].read, op[o].seen)
BY ZenonT(60) DEF Becomes, OnboardingTypes, Commands, Ended, CommandPlaces

\* The same with what it has just read.
LEMMA ReadBecomes ==
  ASSUME OnboardingTypes, NEW o \in Operations, NEW f \in Files, NEW place \in CommandPlaces, NEW v \in Verdicts,
         NEW read \in [Files -> Listed],
         \/ op' = [ToPlace(o, place) EXCEPT ![o].read = read] /\ f = op[o].file /\ v = op[o].verdict
         \/ op' = [ToFile(o, f) EXCEPT ![o].read = read] /\ place = "locking" /\ v = op[o].verdict
         \/ op' = [Ended(o, v) EXCEPT ![o].read = read] /\ place = "ending" /\ f = op[o].file
  PROVE  Becomes(o, place, f, v, read, op[o].seen)
<1>1. CASE op' = [ToPlace(o, place) EXCEPT ![o].read = read] /\ f = op[o].file /\ v = op[o].verdict
  <2> DEFINE mid == ToPlace(o, place)
  <2>1. /\ mid \in [Operations -> Commands] /\ \A q \in Operations \ {o} : mid[q] = op[q]
        /\ mid[o].kind = op[o].kind /\ mid[o].person = op[o].person /\ mid[o].at = place
        /\ mid[o].file = op[o].file /\ mid[o].verdict = op[o].verdict
        /\ mid[o].read = op[o].read /\ mid[o].seen = op[o].seen
    BY DEF OnboardingTypes, Commands, ToPlace
  <2>2. op' = [mid EXCEPT ![o].read = read] BY <1>1
  <2> HIDE DEF mid
  <2> DEFINE w == [mid[o] EXCEPT !.read = read]
  <2>3. /\ w \in Commands /\ w.kind = mid[o].kind /\ w.person = mid[o].person /\ w.at = mid[o].at
        /\ w.file = mid[o].file /\ w.verdict = mid[o].verdict /\ w.read = read
        /\ w.seen = mid[o].seen
    BY <2>1 DEF Commands
  <2>4. op' = [mid EXCEPT ![o] = w] BY <2>2
  <2> HIDE DEF w
  <2>5. f = op[o].file /\ v = op[o].verdict BY <1>1
  <2> QED BY <2>1, <2>3, <2>4, <2>5 DEF Becomes
<1>2. CASE op' = [ToFile(o, f) EXCEPT ![o].read = read] /\ place = "locking" /\ v = op[o].verdict
  <2> DEFINE mid == ToFile(o, f)
  <2>1. /\ mid \in [Operations -> Commands] /\ \A q \in Operations \ {o} : mid[q] = op[q]
        /\ mid[o].kind = op[o].kind /\ mid[o].person = op[o].person /\ mid[o].at = "locking"
        /\ mid[o].file = f /\ mid[o].verdict = op[o].verdict /\ mid[o].read = op[o].read /\ mid[o].seen = op[o].seen
    BY ZenonT(60) DEF OnboardingTypes, Commands, CommandPlaces, ToFile
  <2>2. op' = [mid EXCEPT ![o].read = read] BY <1>2
  <2> HIDE DEF mid
  <2> DEFINE w == [mid[o] EXCEPT !.read = read]
  <2>3. /\ w \in Commands /\ w.kind = mid[o].kind /\ w.person = mid[o].person /\ w.at = mid[o].at
        /\ w.file = mid[o].file /\ w.verdict = mid[o].verdict /\ w.read = read
        /\ w.seen = mid[o].seen
    BY <2>1 DEF Commands
  <2>4. op' = [mid EXCEPT ![o] = w] BY <2>2
  <2> HIDE DEF w
  <2>5. place = "locking" /\ v = op[o].verdict BY <1>2
  <2> QED BY <2>1, <2>3, <2>4, <2>5 DEF Becomes
<1>3. CASE op' = [Ended(o, v) EXCEPT ![o].read = read] /\ place = "ending" /\ f = op[o].file
  <2> DEFINE mid == Ended(o, v)
  <2>1. /\ mid \in [Operations -> Commands] /\ \A q \in Operations \ {o} : mid[q] = op[q]
        /\ mid[o].kind = op[o].kind /\ mid[o].person = op[o].person /\ mid[o].at = "ending"
        /\ mid[o].file = op[o].file /\ mid[o].verdict = v /\ mid[o].read = op[o].read /\ mid[o].seen = op[o].seen
    BY ZenonT(60) DEF OnboardingTypes, Commands, CommandPlaces, Ended
  <2>2. op' = [mid EXCEPT ![o].read = read] BY <1>3
  <2> HIDE DEF mid
  <2> DEFINE w == [mid[o] EXCEPT !.read = read]
  <2>3. /\ w \in Commands /\ w.kind = mid[o].kind /\ w.person = mid[o].person /\ w.at = mid[o].at
        /\ w.file = mid[o].file /\ w.verdict = mid[o].verdict /\ w.read = read
        /\ w.seen = mid[o].seen
    BY <2>1 DEF Commands
  <2>4. op' = [mid EXCEPT ![o] = w] BY <2>2
  <2> HIDE DEF w
  <2>5. place = "ending" /\ f = op[o].file BY <1>3
  <2> QED BY <2>1, <2>3, <2>4, <2>5 DEF Becomes
<1> QED BY <1>1, <1>2, <1>3

LEMMA SeenBecomes ==
  ASSUME OnboardingTypes, NEW o \in Operations, NEW f \in Files, NEW place \in CommandPlaces, NEW v \in Verdicts,
         NEW seen \in Listed,
         \/ op' = [ToPlace(o, place) EXCEPT ![o].seen = seen] /\ f = op[o].file /\ v = op[o].verdict
         \/ op' = [ToFile(o, f) EXCEPT ![o].seen = seen] /\ place = "locking" /\ v = op[o].verdict
         \/ op' = [Ended(o, v) EXCEPT ![o].seen = seen] /\ place = "ending" /\ f = op[o].file
  PROVE  Becomes(o, place, f, v, op[o].read, seen)
<1>1. CASE op' = [ToPlace(o, place) EXCEPT ![o].seen = seen] /\ f = op[o].file /\ v = op[o].verdict
  <2> DEFINE mid == ToPlace(o, place)
  <2>1. /\ mid \in [Operations -> Commands] /\ \A q \in Operations \ {o} : mid[q] = op[q]
        /\ mid[o].kind = op[o].kind /\ mid[o].person = op[o].person /\ mid[o].at = place
        /\ mid[o].file = op[o].file /\ mid[o].verdict = op[o].verdict
        /\ mid[o].read = op[o].read /\ mid[o].seen = op[o].seen
    BY DEF OnboardingTypes, Commands, ToPlace
  <2>2. op' = [mid EXCEPT ![o].seen = seen] BY <1>1
  <2> HIDE DEF mid
  <2> DEFINE w == [mid[o] EXCEPT !.seen = seen]
  <2>3. /\ w \in Commands /\ w.kind = mid[o].kind /\ w.person = mid[o].person /\ w.at = mid[o].at
        /\ w.file = mid[o].file /\ w.verdict = mid[o].verdict /\ w.seen = seen
        /\ w.read = mid[o].read
    BY <2>1 DEF Commands
  <2>4. op' = [mid EXCEPT ![o] = w] BY <2>2
  <2> HIDE DEF w
  <2>5. f = op[o].file /\ v = op[o].verdict BY <1>1
  <2> QED BY <2>1, <2>3, <2>4, <2>5 DEF Becomes
<1>2. CASE op' = [ToFile(o, f) EXCEPT ![o].seen = seen] /\ place = "locking" /\ v = op[o].verdict
  <2> DEFINE mid == ToFile(o, f)
  <2>1. /\ mid \in [Operations -> Commands] /\ \A q \in Operations \ {o} : mid[q] = op[q]
        /\ mid[o].kind = op[o].kind /\ mid[o].person = op[o].person /\ mid[o].at = "locking"
        /\ mid[o].file = f /\ mid[o].verdict = op[o].verdict /\ mid[o].read = op[o].read /\ mid[o].seen = op[o].seen
    BY ZenonT(60) DEF OnboardingTypes, Commands, CommandPlaces, ToFile
  <2>2. op' = [mid EXCEPT ![o].seen = seen] BY <1>2
  <2> HIDE DEF mid
  <2> DEFINE w == [mid[o] EXCEPT !.seen = seen]
  <2>3. /\ w \in Commands /\ w.kind = mid[o].kind /\ w.person = mid[o].person /\ w.at = mid[o].at
        /\ w.file = mid[o].file /\ w.verdict = mid[o].verdict /\ w.seen = seen
        /\ w.read = mid[o].read
    BY <2>1 DEF Commands
  <2>4. op' = [mid EXCEPT ![o] = w] BY <2>2
  <2> HIDE DEF w
  <2>5. place = "locking" /\ v = op[o].verdict BY <1>2
  <2> QED BY <2>1, <2>3, <2>4, <2>5 DEF Becomes
<1>3. CASE op' = [Ended(o, v) EXCEPT ![o].seen = seen] /\ place = "ending" /\ f = op[o].file
  <2> DEFINE mid == Ended(o, v)
  <2>1. /\ mid \in [Operations -> Commands] /\ \A q \in Operations \ {o} : mid[q] = op[q]
        /\ mid[o].kind = op[o].kind /\ mid[o].person = op[o].person /\ mid[o].at = "ending"
        /\ mid[o].file = op[o].file /\ mid[o].verdict = v /\ mid[o].read = op[o].read /\ mid[o].seen = op[o].seen
    BY ZenonT(60) DEF OnboardingTypes, Commands, CommandPlaces, Ended
  <2>2. op' = [mid EXCEPT ![o].seen = seen] BY <1>3
  <2> HIDE DEF mid
  <2> DEFINE w == [mid[o] EXCEPT !.seen = seen]
  <2>3. /\ w \in Commands /\ w.kind = mid[o].kind /\ w.person = mid[o].person /\ w.at = mid[o].at
        /\ w.file = mid[o].file /\ w.verdict = mid[o].verdict /\ w.seen = seen
        /\ w.read = mid[o].read
    BY <2>1 DEF Commands
  <2>4. op' = [mid EXCEPT ![o] = w] BY <2>2
  <2> HIDE DEF w
  <2>5. place = "ending" /\ f = op[o].file BY <1>3
  <2> QED BY <2>1, <2>3, <2>4, <2>5 DEF Becomes
<1> QED BY <1>1, <1>2, <1>3

\* Command o is over, or begins.
LEMMA OverBecomes ==
  ASSUME OnboardingTypes, NEW o \in Operations, NEW place \in {"answered", "dead"}, op' = Closed(o, place)
  PROVE  /\ op' \in [Operations -> Commands] /\ \A q \in Operations \ {o} : op'[q] = op[q]
         /\ op'[o].at = place /\ op'[o].verdict = "none"
BY OnboardingAssumption
    DEF Closed, Idle, OnboardingTypes, Commands, CommandPlaces, OnboardKinds, Files, Verdicts, Listed

LEMMA StartBecomes ==
  ASSUME OnboardingTypes, NEW o \in Operations, NEW kind \in OnboardKinds, NEW p \in People,
         op' = [op EXCEPT ![o] = [Idle EXCEPT !.at = "reading", !.kind = kind, !.person = p]]
  PROVE  /\ op' \in [Operations -> Commands] /\ \A q \in Operations \ {o} : op'[q] = op[q]
         /\ op'[o].at = "reading" /\ op'[o].kind = kind /\ op'[o].person = p /\ op'[o].verdict = "none"
BY OnboardingAssumption DEF Idle, OnboardingTypes, Commands, CommandPlaces, OnboardKinds, Files, Verdicts, Listed

-----------------------------------------------------------------------------
(* Commands know what they are said to: the steps that write nothing. *)

\* The parts of what a running command knows.
LEMMA Known ==
  ASSUME OnboardingInv, NEW o \in Operations, op[o].at \in Running
  PROVE  /\ Alone(o, op[o]) /\ AddKnows(op[o]) /\ EnrollKnows(op[o]) /\ RevokeKnows(op[o]) /\ workflow = o
         /\ op[o].at = "renaming" => Covers(op[o].file, op[o].read[op[o].file])
         /\ op[o].at = "putting" => Covers("provider", op[o].seen) /\ Wanted(o, op[o].seen) # {}
         /\ op[o] \in Commands
BY DEF OnboardingInv, CommandsKnow, Knows, Alone, OnboardingTypes

LEMMA RestStill ==
  ASSUME NEW q \in Operations, op'[q].at \in {"idle", "answered", "dead"}, op'[q].verdict = "none"
  PROVE  Knows(q, op[q])'
<1>1. op'[q].at \notin Running \cup FileSteps \cup ProviderSteps \cup {"rechecking", "inspecting", "renaming",
    "putting", "ending"}
  BY DEF Running, FileSteps, ProviderSteps
<1>2. ~Through(op'[q]) /\ ~Done(op'[q]) BY DEF Through, Done
<1> QED BY <1>1, <1>2 DEF Alone, Knows, AddKnows, EnrollKnows, RevokeKnows

\* Only one command runs; what it knows is what is to be shown.
LEMMA Knowing ==
  ASSUME OnboardingInv, NEW o \in Operations, workflow \in {o, Unlocked},
         \A q \in Operations \ {o} : op'[q] = op[q], Knows(o, op[o])'
  PROVE  CommandsKnow'
<1>1. ASSUME NEW q \in Operations \ {o} PROVE Knows(q, op[q])'
  <2>1. Alone(q, op[q]) /\ op[q] \in Commands BY DEF OnboardingInv, CommandsKnow, Knows, OnboardingTypes
  <2>2. workflow # q BY DEF Operations, Unlocked
  <2>3. op[q].at \in {"idle", "answered", "dead"} /\ op[q].verdict = "none"
    BY <2>1, <2>2 DEF Alone, Running, Commands, CommandPlaces
  <2> QED BY <2>3, RestStill
<1> QED BY <1>1 DEF CommandsKnow

LEMMA QuietStep ==
  ASSUME OnboardingInv, NEW o \in Operations, op[o].at \in Running,
         op' \in [Operations -> Commands], \A q \in Operations \ {o} : op'[q] = op[q], Knows(o, op[o])',
         guard' \in [Files -> Operations \cup {Unlocked}],
         UNCHANGED <<entries, workflow, promise, written, inWindow>>
  PROVE  OnboardingInv'
<1>1. workflow = o BY Known
<1>2. CommandsKnow' BY <1>1, Knowing
<1>3. OnboardingTypes'
  <2>1. \A q \in Operations : op'[q] \in Commands OBVIOUS
  <2> QED BY <2>1 DEF OnboardingInv, OnboardingTypes, OnboardingTypeOK, Commands, CommandPlaces
<1>4. RevocationsStand' /\ OthersWorkIsKept' /\ SomebodyRemains'
  BY DEF OnboardingInv, RevocationsStand, OthersWorkIsKept, SomebodyRemains
<1> QED BY <1>2, <1>3, <1>4 DEF OnboardingInv

LEMMA RecheckKnows ==
  ASSUME OnboardingInv, NEW o \in Operations, Recheck(o)
  PROVE  OnboardingInv'
<1>1. op[o].at = "rechecking" /\ op[o].at \in Running /\ UNCHANGED <<entries, workflow, guard, promise, written,
    inWindow>>
  BY DEF Recheck, Running, CommandPlaces
<1>0. OnboardingTypes /\ Alone(o, op[o]) /\ AddKnows(op[o]) /\ EnrollKnows(op[o]) /\ RevokeKnows(op[o])
  BY <1>1, Known DEF OnboardingInv
<1>2. \/ entries["config"] = op[o].read["config"] /\ Changes(o, op[o].read["grants"]) /\ op' = ToFile(o, "grants")
      \/ entries["config"] = op[o].read["config"] /\ ~Changes(o, op[o].read["grants"]) /\ op' = Ended(o, "applied")
      \/ op' = Ended(o, "rejected")
  BY DEF Recheck
<1>3. op[o].kind = "enroll" BY <1>0, <1>1 DEF AddKnows, RevokeKnows, OnboardingTypes, Commands, OnboardKinds
<1>4. PICK place, f, v : /\ Becomes(o, place, f, v, op[o].read, op[o].seen)
                         /\ \/ place = "locking" /\ f = "grants" /\ v = op[o].verdict
                            \/ place = "ending" /\ v = "applied" /\ ~Changes(o, op[o].read["grants"])
                            \/ place = "ending" /\ v = "rejected"
  BY <1>0, <1>2, FileBecomes, EndBecomes DEF Files, Verdicts
<1>5. ~Changes(o, op[o].read["grants"]) => op[o].person \in op[o].read["grants"] BY <1>3 DEF Changes, Wanted
<1>6. Knows(o, op[o])'
  BY <1>0, <1>1, <1>3, <1>4, <1>5
     DEF Becomes, Knows, Alone, AddKnows, EnrollKnows, RevokeKnows, Through, Done, Running, CommandPlaces, FileSteps,
         ProviderSteps
<1> QED BY <1>0, <1>1, <1>4, <1>6, QuietStep DEF Becomes, OnboardingTypes, OnboardingTypeOK

LEMMA ReadFilesKnows ==
  ASSUME OnboardingInv, NEW o \in Operations, ReadFiles(o)
  PROVE  OnboardingInv'
<1> DEFINE p == op[o].person
           read == [f \in Files |-> entries[f]]
<1>1. op[o].at = "reading" /\ op[o].at \in Running /\ UNCHANGED <<entries, workflow, guard, promise, written,
    inWindow>>
  BY DEF ReadFiles, Running, CommandPlaces
<1>0. OnboardingTypes /\ Alone(o, op[o]) /\ op[o].verdict = "none"
  BY <1>1, Known DEF OnboardingInv, Alone
<1>2. /\ read \in [Files -> Listed] /\ read["grants"] = entries["grants"] /\ read["config"] = entries["config"]
      /\ read["config"] # {}
  BY <1>0 DEF OnboardingTypes, OnboardingTypeOK, Files, Stores, Listed, OnboardingInv, SomebodyRemains
<1>3. PICK after :
        /\ op' = [after EXCEPT ![o].read = read]
        /\ \/ op[o].kind = "add" /\ after = ToPlace(o, "inspecting")
           \/ op[o].kind = "enroll" /\ after = ToPlace(o, "rechecking")
           \/ op[o].kind = "revoke" /\ read["config"] # {p} /\ p \in read["grants"] /\ after = ToFile(o, "grants")
           \/ op[o].kind = "revoke" /\ read["config"] # {p} /\ p \notin read["grants"] /\ after = ToFile(o, "config")
           \/ /\ op[o].kind = "revoke" /\ read["config"] # {p} /\ p \notin read["grants"] \cup read["config"]
              /\ after = ToPlace(o, "inspecting")
           \/ after = Ended(o, "rejected")
  BY <1>0 DEF ReadFiles, OnboardingTypes, Commands, OnboardKinds
<1> HIDE DEF read
<1>4. PICK place, f, v :
        /\ Becomes(o, place, f, v, read, op[o].seen)
        /\ \/ op[o].kind = "add" /\ place = "inspecting" /\ v = op[o].verdict
           \/ op[o].kind = "enroll" /\ place = "rechecking" /\ v = op[o].verdict
           \/ op[o].kind = "revoke" /\ read["config"] # {p} /\ place = "locking" /\ f = "grants" /\ v = op[o].verdict
           \/ /\ op[o].kind = "revoke" /\ read["config"] # {p} /\ p \notin read["grants"]
              /\ place = "locking" /\ f = "config" /\ v = op[o].verdict
           \/ /\ op[o].kind = "revoke" /\ p \notin read["grants"] \cup read["config"]
              /\ place = "inspecting" /\ v = op[o].verdict
           \/ place = "ending" /\ v = "rejected"
  <2>1. /\ {"inspecting", "rechecking", "locking", "ending"} \subseteq CommandPlaces
        /\ "rejected" \in Verdicts /\ {"grants", "config"} \subseteq Files
        /\ op[o].file \in Files /\ op[o].verdict \in Verdicts
    BY <1>0 DEF CommandPlaces, Verdicts, Files, OnboardingTypes, Commands
  <2>2. CASE after = ToPlace(o, "inspecting") /\ 
             (op[o].kind = "add" \/ (op[o].kind = "revoke" /\ p \notin read["grants"] \cup read["config"]))
    <3>1. Becomes(o, "inspecting", op[o].file, op[o].verdict, read, op[o].seen)
        BY <1>0, <1>2, <1>3, <2>1, <2>2, ReadBecomes
    <3> QED BY <2>2, <3>1
  <2>3. CASE after = ToPlace(o, "rechecking") /\ op[o].kind = "enroll"
    <3>1. Becomes(o, "rechecking", op[o].file, op[o].verdict, read, op[o].seen)
        BY <1>0, <1>2, <1>3, <2>1, <2>3, ReadBecomes
    <3> QED BY <2>3, <3>1
  <2>4. CASE op[o].kind = "revoke" /\ read["config"] # {p} /\ p \in read["grants"] /\ after = ToFile(o, "grants")
    <3>1. Becomes(o, "locking", "grants", op[o].verdict, read, op[o].seen)
        BY <1>0, <1>2, <1>3, <2>1, <2>4, ReadBecomes
    <3> QED BY <2>4, <3>1
  <2>5. CASE op[o].kind = "revoke" /\ read["config"] # {p} /\ p \notin read["grants"] /\ after = ToFile(o, "config")
    <3>1. Becomes(o, "locking", "config", op[o].verdict, read, op[o].seen)
        BY <1>0, <1>2, <1>3, <2>1, <2>5, ReadBecomes
    <3> QED BY <2>5, <3>1
  <2>6. CASE after = Ended(o, "rejected")
    <3>1. Becomes(o, "ending", op[o].file, "rejected", read, op[o].seen) BY <1>0, <1>2, <1>3, <2>1, <2>6, ReadBecomes
    <3> QED BY <3>1
  <2> QED BY <1>3, <2>2, <2>3, <2>4, <2>5, <2>6
<1>5. Knows(o, op[o])'
  BY ZenonT(60), <1>0, <1>1, <1>2, <1>4
     DEF Becomes, Knows, Alone, AddKnows, EnrollKnows, RevokeKnows, Through, Done, Running, CommandPlaces, FileSteps,
         ProviderSteps
<1> QED BY <1>0, <1>1, <1>4, <1>5, QuietStep DEF Becomes, OnboardingTypes, OnboardingTypeOK

LEMMA LockFileKnows ==
  ASSUME OnboardingInv, NEW o \in Operations, LockFile(o)
  PROVE  OnboardingInv'
<1>1. op[o].at = "locking" /\ op[o].at \in Running /\ UNCHANGED <<entries, workflow, promise, written, inWindow>>
  BY DEF LockFile, Running, CommandPlaces
<1>0. OnboardingTypes /\ Alone(o, op[o]) /\ AddKnows(op[o]) /\ EnrollKnows(op[o]) /\ RevokeKnows(op[o])
  BY <1>1, Known DEF OnboardingInv
<1>2. guard' \in [Files -> Operations \cup {Unlocked}] BY <1>0 DEF LockFile, OnboardingTypes, OnboardingTypeOK
<1>3. op' = ToPlace(o, "comparing") \/ op' = Ended(o, Failure(o)) BY DEF LockFile
<1>4. /\ Failure(o) \in {"partial", "rejected"}
      /\ Failure(o) = "partial" => op[o].kind = "revoke" /\ op[o].file = "config"
  BY DEF Failure
<1>5. PICK place, v : /\ Becomes(o, place, op[o].file, v, op[o].read, op[o].seen)
                      /\ \/ place = "comparing" /\ v = op[o].verdict
                         \/ place = "ending" /\ v = Failure(o)
  <2>1. "comparing" \in CommandPlaces /\ Failure(o) \in Verdicts BY <1>4 DEF CommandPlaces, Verdicts
  <2> QED BY <1>0, <1>3, <2>1, AtBecomes, EndBecomes
<1>6. Knows(o, op[o])'
  BY <1>0, <1>1, <1>4, <1>5
     DEF Becomes, Knows, Alone, AddKnows, EnrollKnows, RevokeKnows, Through, Done, Running, CommandPlaces, FileSteps,
         ProviderSteps
<1> QED BY <1>1, <1>2, <1>5, <1>6, QuietStep DEF Becomes

LEMMA CompareKnows ==
  ASSUME OnboardingInv, NEW o \in Operations, Compare(o)
  PROVE  OnboardingInv'
<1>1. op[o].at = "comparing" /\ op[o].at \in Running /\ UNCHANGED <<entries, workflow, guard, promise, written,
    inWindow>>
  BY DEF Compare, Running, CommandPlaces
<1>0. OnboardingTypes /\ Alone(o, op[o]) /\ AddKnows(op[o]) /\ EnrollKnows(op[o]) /\ RevokeKnows(op[o])
  BY <1>1, Known DEF OnboardingInv
<1>2. /\ Failure(o) \in {"partial", "rejected"}
      /\ Failure(o) = "partial" => op[o].kind = "revoke" /\ op[o].file = "config"
  BY DEF Failure
<1>3. CASE entries[op[o].file] = op[o].read[op[o].file] /\ op' = ToPlace(o, "renaming")
  <2>1. Becomes(o, "renaming", op[o].file, op[o].verdict, op[o].read, op[o].seen)
    BY <1>0, <1>3, AtBecomes DEF CommandPlaces
  <2>0. op[o].file # "nowhere" BY <1>0 DEF OnboardingTypes, OnboardingTypeOK, Files
  <2>2. Covers(op[o].file, op[o].read[op[o].file])
    BY <1>3, <2>0 DEF Covers, OnboardingInv, OthersWorkIsKept
  <2>3. (op[o].at = "renaming" => Covers(op[o].file, op[o].read[op[o].file]))' BY <1>1, <2>1, <2>2 DEF Becomes, Covers
  <2>4. Knows(o, op[o])'
    BY <1>0, <1>1, <2>1, <2>3
       DEF Becomes, Knows, Alone, AddKnows, EnrollKnows, RevokeKnows, Through, Done, Running, CommandPlaces,
           FileSteps,
         ProviderSteps
  <2> QED BY <1>0, <1>1, <2>1, <2>4, QuietStep DEF Becomes, OnboardingTypes, OnboardingTypeOK
<1>4. CASE op' = [op EXCEPT ![o].at = "releasing", ![o].verdict = Failure(o)]
  <2>1. Becomes(o, "releasing", op[o].file, Failure(o), op[o].read, op[o].seen)
    BY ZenonT(60), <1>0, <1>2, <1>4 DEF Becomes, OnboardingTypes, Commands, CommandPlaces, Verdicts
  <2>2. Knows(o, op[o])'
    BY <1>0, <1>1, <1>2, <2>1
       DEF Becomes, Knows, Alone, AddKnows, EnrollKnows, RevokeKnows, Through, Done, Running, CommandPlaces,
           FileSteps,
         ProviderSteps
  <2> QED BY <1>0, <1>1, <2>1, <2>2, QuietStep DEF Becomes, OnboardingTypes, OnboardingTypeOK
<1> QED BY <1>3, <1>4 DEF Compare

\* What a command does with rules of the provider it has seen.
LEMMA ToProviderBecomes ==
  ASSUME OnboardingTypes, NEW o \in Operations, NEW seen, op' = ToProvider(o, seen)
  PROVE  \/ Becomes(o, "refreshing", op[o].file, op[o].verdict, op[o].read, op[o].seen)
         \/ Becomes(o, "ending", op[o].file, "applied", op[o].read, op[o].seen) /\ ~Changes(o, seen)
<1>1. CASE Changes(o, seen) BY <1>1, AtBecomes DEF ToProvider, CommandPlaces
<1>2. CASE ~Changes(o, seen) BY <1>2, EndBecomes DEF ToProvider, Verdicts
<1> QED BY <1>1, <1>2

LEMMA ReleaseKnows ==
  ASSUME OnboardingInv, NEW o \in Operations, ReleaseFile(o)
  PROVE  OnboardingInv'
<1>1. op[o].at = "releasing" /\ op[o].at \in Running /\ UNCHANGED <<entries, workflow, promise, written, inWindow>>
  BY DEF ReleaseFile, Running, CommandPlaces
<1>0. OnboardingTypes /\ Alone(o,
    op[o]) /\ AddKnows(op[o]) /\ EnrollKnows(op[o]) /\ RevokeKnows(op[o]) /\ op[o] \in Commands
  BY <1>1, Known DEF OnboardingInv
<1>2. guard' \in [Files -> Operations \cup {Unlocked}] BY <1>0 DEF ReleaseFile, OnboardingTypes, OnboardingTypeOK
<1>3. \/ op[o].verdict # "none" /\ op' = ToPlace(o, "ending")
      \/ op[o].verdict = "none" /\ op[o].kind = "enroll" /\ op' = Ended(o, "applied")
      \/ op[o].verdict = "none" /\ op[o].kind = "add" /\ op' = ToProvider(o, op[o].seen)
      \/ /\ op[o].verdict = "none" /\ op[o].kind = "revoke" /\ op[o].file = "grants" /\ op' = ToFile(o, "config")
      \/ /\ op[o].verdict = "none" /\ op[o].kind = "revoke" /\ op' = ToPlace(o, "inspecting")
         /\ op[o].file = "config" \/ op[o].person \notin op[o].read["config"]
  BY <1>0 DEF ReleaseFile, Commands, OnboardKinds, Files
<1>4. op[o].verdict # "applied" BY <1>0, <1>1 DEF Alone
<1>5. ~Changes(o, op[o].seen) /\ op[o].kind = "add" => op[o].person \in op[o].seen BY DEF Changes, Wanted
<1>6. PICK place, f, v :
        /\ Becomes(o, place, f, v, op[o].read, op[o].seen)
        /\ \/ op[o].verdict # "none" /\ place = "ending" /\ v = op[o].verdict
           \/ op[o].verdict = "none" /\ op[o].kind = "enroll" /\ place = "ending" /\ v = "applied"
           \/ op[o].verdict = "none" /\ op[o].kind = "add" /\ place = "refreshing" /\ v = "none"
           \/ /\ op[o].verdict = "none" /\ op[o].kind = "add" /\ place = "ending" /\ v = "applied"
              /\ op[o].person \in op[o].seen
           \/ /\ op[o].verdict = "none" /\ op[o].kind = "revoke" /\ op[o].file = "grants"
              /\ place = "locking" /\ f = "config" /\ v = "none"
           \/ /\ op[o].verdict = "none" /\ op[o].kind = "revoke" /\ place = "inspecting" /\ v = "none"
              /\ op[o].file = "config" \/ op[o].person \notin op[o].read["config"]
  <2>1. "ending" \in CommandPlaces /\ "inspecting" \in CommandPlaces /\ "applied" \in Verdicts /\ "config" \in Files
    BY DEF CommandPlaces, Verdicts, Files
  <2> QED BY <1>0, <1>3, <1>5, <2>1, AtBecomes, EndBecomes, FileBecomes, ToProviderBecomes
<1>7. op[o].file \in {"grants", "config"} BY <1>0 DEF Commands, Files
<1>8. Knows(o, op[o])'
  BY <1>0, <1>1, <1>4, <1>6, <1>7
     DEF Becomes, Knows, Alone, AddKnows, EnrollKnows, RevokeKnows, Through, Done, Running, CommandPlaces, FileSteps,
         ProviderSteps
<1> QED BY <1>1, <1>2, <1>6, <1>8, QuietStep DEF Becomes

LEMMA InspectKnows ==
  ASSUME OnboardingInv, NEW o \in Operations, Inspect(o)
  PROVE  OnboardingInv'
<1> DEFINE seen == entries["provider"]
<1>1. op[o].at = "inspecting" /\ op[o].at \in Running /\ UNCHANGED <<entries, workflow, guard, promise, written,
    inWindow>>
  BY DEF Inspect, Running, CommandPlaces
<1>0. OnboardingTypes /\ Alone(o, op[o]) /\ AddKnows(op[o]) /\ EnrollKnows(op[o]) /\ RevokeKnows(op[o])
      /\ op[o] \in Commands /\ op[o].verdict = "none"
  BY <1>1, Known DEF OnboardingInv, Alone
<1>2. seen \in Listed BY <1>0 DEF OnboardingTypes, OnboardingTypeOK, Stores, Listed
<1>3. \/ op' = [ToFile(o, "config") EXCEPT ![o].seen = seen] /\ op[o].kind = "add"
      \/ /\ op' = [ToPlace(o, "refreshing") EXCEPT ![o].seen = seen]
         /\ op[o].kind = "add" => ~Changes(o, op[o].read["config"])
      \/ /\ op' = [Ended(o, "applied") EXCEPT ![o].seen = seen] /\ ~Changes(o, seen)
         /\ op[o].kind = "add" => ~Changes(o, op[o].read["config"])
      \/ op' = Ended(o, "partial") /\ op[o].kind = "revoke"
      \/ op' = Ended(o, "rejected")
  BY DEF Inspect, ToProvider
<1>4. /\ op[o].kind = "add" /\ ~Changes(o, op[o].read["config"]) => op[o].person \in op[o].read["config"]
      /\ op[o].kind = "add" /\ ~Changes(o, seen) => op[o].person \in seen
      /\ op[o].kind = "revoke" /\ ~Changes(o, seen) => op[o].person \notin seen
  BY DEF Changes, Wanted
<1>5. op[o].kind \in {"add", "revoke"} BY <1>0, <1>1 DEF EnrollKnows, Commands, OnboardKinds
<1> HIDE DEF seen
<1>6. PICK place, f, v, look :
        /\ Becomes(o, place, f, v, op[o].read, look)
        /\ \/ place = "locking" /\ f = "config" /\ v = "none" /\ look = seen /\ op[o].kind = "add"
           \/ /\ place = "refreshing" /\ v = "none" /\ look = seen
              /\ op[o].kind = "add" => op[o].person \in op[o].read["config"]
           \/ /\ place = "ending" /\ v = "applied"
              /\ op[o].kind = "add" => op[o].person \in op[o].read["config"] /\ op[o].person \in seen
              /\ op[o].kind = "revoke" => op[o].person \notin seen
           \/ place = "ending" /\ v = "partial" /\ op[o].kind = "revoke"
           \/ place = "ending" /\ v = "rejected"
  <2>1. /\ {"locking", "refreshing", "ending"} \subseteq CommandPlaces
        /\ {"applied", "partial", "rejected"} \subseteq Verdicts /\ "config" \in Files
        /\ op[o].file \in Files /\ op[o].verdict \in Verdicts
    BY <1>0 DEF CommandPlaces, Verdicts, Files, Commands
  <2> QED BY <1>0, <1>2, <1>3, <1>4, <2>1, SeenBecomes, EndBecomes
<1>7. seen = entries["provider"] BY DEF seen
<1>8. Knows(o, op[o])'
  BY <1>0, <1>1, <1>5, <1>6, <1>7
     DEF Becomes, Knows, Alone, AddKnows, EnrollKnows, RevokeKnows, Through, Done, Running, CommandPlaces, FileSteps,
         ProviderSteps
<1> QED BY <1>0, <1>1, <1>6, <1>8, QuietStep DEF Becomes, OnboardingTypes, OnboardingTypeOK

LEMMA SecondLookKnows ==
  ASSUME OnboardingInv, NEW o \in Operations, SecondLook(o)
  PROVE  OnboardingInv'
<1>1. op[o].at = "refreshing" /\ op[o].at \in Running /\ UNCHANGED <<entries, workflow, guard, promise, written,
    inWindow>>
  BY DEF SecondLook, Running, CommandPlaces
<1>0. OnboardingTypes /\ Alone(o, op[o]) /\ AddKnows(op[o]) /\ EnrollKnows(op[o]) /\ RevokeKnows(op[o])
  BY <1>1, Known DEF OnboardingInv
<1>2. CASE entries["provider"] = op[o].seen /\ Wanted(o, op[o].seen) # {} /\ op' = ToPlace(o, "putting")
  <2>1. Becomes(o, "putting", op[o].file, op[o].verdict, op[o].read, op[o].seen)
      BY <1>0, <1>2, AtBecomes DEF CommandPlaces
  <2>2. Covers("provider", op[o].seen) BY <1>2 DEF Covers, OnboardingInv, OthersWorkIsKept
  <2>3. Covers("provider", op[o].seen)' /\ Wanted(o, op[o].seen)' # {}
      BY <1>1, <1>2, <2>1, <2>2 DEF Becomes, Covers, Wanted
  <2>4. Knows(o, op[o])'
    BY <1>0, <1>1, <2>1, <2>3
       DEF Becomes, Knows, Alone, AddKnows, EnrollKnows, RevokeKnows, Through, Done, Running, CommandPlaces,
           FileSteps,
         ProviderSteps
  <2> QED BY <1>0, <1>1, <2>1, <2>4, QuietStep DEF Becomes, OnboardingTypes, OnboardingTypeOK
<1>3. CASE op' = Ended(o, "partial")
  <2>1. Becomes(o, "ending", op[o].file, "partial", op[o].read, op[o].seen) BY <1>0, <1>3, EndBecomes DEF Verdicts
  <2>2. Knows(o, op[o])'
    BY <1>0, <1>1, <2>1
       DEF Becomes, Knows, Alone, AddKnows, EnrollKnows, RevokeKnows, Through, Done, Running, CommandPlaces,
           FileSteps,
         ProviderSteps
  <2> QED BY <1>0, <1>1, <2>1, <2>2, QuietStep DEF Becomes, OnboardingTypes, OnboardingTypeOK
<1> QED BY <1>2, <1>3 DEF SecondLook

LEMMA ReadBackKnows ==
  ASSUME OnboardingInv, NEW o \in Operations, ReadBack(o)
  PROVE  OnboardingInv'
<1>1. op[o].at = "confirming" /\ op[o].at \in Running /\ UNCHANGED <<entries, workflow, guard, promise, written,
    inWindow>>
  BY DEF ReadBack, Running, CommandPlaces
<1>0. OnboardingTypes /\ Alone(o,
    op[o]) /\ AddKnows(op[o]) /\ EnrollKnows(op[o]) /\ RevokeKnows(op[o]) /\ op[o] \in Commands
  BY <1>1, Known DEF OnboardingInv
<1>2. op[o].kind \in {"add", "revoke"} BY <1>0, <1>1 DEF EnrollKnows, Commands, OnboardKinds, ProviderSteps
<1>3. entries["provider"] = Wanted(o, op[o].seen) =>
        /\ op[o].kind = "add" => op[o].person \in entries["provider"]
        /\ op[o].kind = "revoke" => op[o].person \notin entries["provider"]
  BY DEF Wanted
<1>4. PICK v : /\ Becomes(o, "ending", op[o].file, v, op[o].read, op[o].seen)
               /\ (v = "applied" /\ entries["provider"] = Wanted(o, op[o].seen)) \/ v = "partial"
  BY <1>0, EndBecomes DEF ReadBack, Verdicts
<1>5. Knows(o, op[o])'
  BY <1>0, <1>1, <1>2, <1>3, <1>4
     DEF Becomes, Knows, Alone, AddKnows, EnrollKnows, RevokeKnows, Through, Done, Running, CommandPlaces, FileSteps,
         ProviderSteps
<1> QED BY <1>0, <1>1, <1>4, <1>5, QuietStep DEF Becomes, OnboardingTypes, OnboardingTypeOK

-----------------------------------------------------------------------------
(* The steps that write, begin or end. *)

\* Nothing known, promised or kept is lost to an entry of somebody else.
LEMMA HandEditKeeps ==
  ASSUME OnboardingInv, NEW x \in HandEdits, NEW s \in Stores, HandEdit(x, s)
  PROVE  OnboardingInv'
<1>1. /\ written[x] = "nowhere" /\ written' = [written EXCEPT ![x] = s] /\ UNCHANGED <<workflow, guard, op, promise>>
      /\ entries' = [entries EXCEPT ![s] = @ \cup {x}]
      /\ inWindow' = inWindow \cup (IF \E o \in Operations : Writing(o, s) THEN {x} ELSE {})
  BY DEF HandEdit
<1>0. OnboardingTypes /\ x \notin People BY OnboardingAssumption DEF OnboardingInv
<1>2. /\ \A t \in Stores : entries'[t] = IF t = s THEN entries[t] \cup {x} ELSE entries[t]
      /\ \A y \in HandEdits : written'[y] = IF y = x THEN s ELSE written[y]
  BY <1>0, <1>1 DEF OnboardingTypes, OnboardingTypeOK
<1>3. \A q \in People, t \in Stores : q \in entries'[t] <=> q \in entries[t] BY <1>0, <1>2
<1>4. {"grants", "config", "provider"} \subseteq Stores BY DEF Stores, Files
<1>5. OnboardingTypes'
  BY <1>0, <1>1 DEF OnboardingTypes, OnboardingTypeOK
<1>6. ASSUME NEW o \in Operations PROVE Knows(o, op[o])'
  <2>1. op[o] \in Commands /\ op[o].person \in People /\ op[o].file \in Files /\ op[o].file \in Stores /\ op'[o] = op[o]
    BY <1>0, <1>1 DEF OnboardingTypes, Commands, Stores
  <2>2. Knows(o, op[o]) BY DEF OnboardingInv, CommandsKnow
  <2>3. Alone(o, op[o])' BY <1>1, <2>2 DEF Knows, Alone
  <2>4. AddKnows(op[o])' BY <1>3, <1>4, <2>1, <2>2 DEF Knows, AddKnows, Through, Done
  <2>5. EnrollKnows(op[o])' BY <1>3, <1>4, <2>1, <2>2 DEF Knows, EnrollKnows, Through, Done
  <2>6. RevokeKnows(op[o])' BY <1>3, <1>4, <2>1, <2>2 DEF Knows, RevokeKnows, Through, Done
  <2>7. ASSUME op[o].at = "renaming" PROVE Covers(op[o].file, op[o].read[op[o].file])'
    <3>1. Covers(op[o].file, op[o].read[op[o].file]) BY <2>2, <2>7 DEF Knows
    <3>2. s = op[o].file => x \in inWindow' BY <1>1, <2>7 DEF Writing
    <3>3. inWindow \subseteq inWindow' BY <1>1
    <3> QED BY <1>2, <1>3, <2>1, <3>1, <3>2, <3>3 DEF Covers
  <2>8. ASSUME op[o].at = "putting" PROVE Covers("provider", op[o].seen)' /\ Wanted(o, op[o].seen)' # {}
    <3>1. Covers("provider", op[o].seen) /\ Wanted(o, op[o].seen) # {} BY <2>2, <2>8 DEF Knows
    <3>2. s = "provider" => x \in inWindow' BY <1>1, <2>8 DEF Writing
    <3>3. inWindow \subseteq inWindow' BY <1>1
    <3>4. Covers("provider", op[o].seen)' BY <1>2, <1>3, <1>4, <2>1, <3>1, <3>2, <3>3 DEF Covers
    <3>5. Wanted(o, op[o].seen)' # {} BY <2>1, <3>1 DEF Wanted
    <3> QED BY <3>4, <3>5
  <2> QED BY <2>1, <2>3, <2>4, <2>5, <2>6, <2>7, <2>8 DEF Knows
<1>7. RevocationsStand' BY <1>1, <1>3, <1>4 DEF OnboardingInv, RevocationsStand
<1>8. OthersWorkIsKept'
  <2> SUFFICES ASSUME NEW y \in HandEdits, written'[y] # "nowhere",
      y \notin inWindow' PROVE y \in entries'[written'[y]]
    BY DEF OthersWorkIsKept
  <2>1. CASE y = x BY <1>2, <2>1
  <2>2. CASE y # x
    <3>1. written'[y] = written[y] /\ y \notin inWindow BY <1>1, <1>2, <2>2
    <3>2. written[y] \in Stores /\ y \in entries[written[y]]
      BY <1>0, <3>1 DEF OnboardingInv, OthersWorkIsKept, OnboardingTypes, OnboardingTypeOK
    <3> QED BY <1>2, <3>1, <3>2
  <2> QED BY <2>1, <2>2
<1>9. SomebodyRemains' BY <1>2, <1>4 DEF OnboardingInv, SomebodyRemains
<1> QED BY <1>5, <1>6, <1>7, <1>8, <1>9 DEF OnboardingInv, CommandsKnow

\* A command nothing touches knows what it knew.
LEMMA KnowsStill ==
  ASSUME NEW q \in Operations, op'[q] = op[q], Knows(q, op[q]),
         UNCHANGED <<entries, workflow, promise, written, inWindow>>
  PROVE  Knows(q, op[q])'
<1>1. Alone(q, op[q])' BY DEF Knows, Alone
<1>2. AddKnows(op[q])' BY DEF Knows, AddKnows, Through, Done
<1>3. EnrollKnows(op[q])' BY DEF Knows, EnrollKnows, Through, Done
<1>4. RevokeKnows(op[q])' BY DEF Knows, RevokeKnows, Through, Done
<1>5. (op[q].at = "renaming" => Covers(op[q].file, op[q].read[op[q].file]))' BY DEF Knows, Covers
<1>6. (op[q].at = "putting" => Covers("provider", op[q].seen) /\ Wanted(q, op[q].seen) # {})'
    BY DEF Knows, Covers, Wanted
<1> QED BY <1>1, <1>2, <1>3, <1>4, <1>5, <1>6 DEF Knows

LEMMA StartKnows ==
  ASSUME OnboardingInv, NEW o \in Operations, Start(o)
  PROVE  OnboardingInv'
<1>1. op[o].at = "idle" /\ UNCHANGED <<entries, guard, written, inWindow>> BY DEF Start
<1>0. OnboardingTypes BY DEF OnboardingInv
<1>2. CASE workflow # Unlocked
  <2>1. op' = Closed(o, "answered") /\ UNCHANGED <<workflow, promise>> BY <1>2 DEF Start
  <2>2. /\ op' \in [Operations -> Commands] /\ \A q \in Operations \ {o} : op'[q] = op[q]
        /\ op'[o].at = "answered" /\ op'[o].verdict = "none"
    BY <1>0, <2>1, OverBecomes
  <2>3. ASSUME NEW q \in Operations PROVE Knows(q, op[q])'
    <3>1. CASE q = o BY <2>2, <3>1, RestStill
    <3>2. CASE q # o
      <4>1. op'[q] = op[q] /\ Knows(q, op[q]) BY <2>2, <3>2 DEF OnboardingInv, CommandsKnow
      <4> QED BY <1>1, <2>1, <4>1, KnowsStill
    <3> QED BY <3>1, <3>2
  <2>4. OnboardingTypes' BY <1>0, <1>1, <2>1, <2>2 DEF OnboardingTypes, OnboardingTypeOK, Commands, CommandPlaces
  <2>5. RevocationsStand' /\ OthersWorkIsKept' /\ SomebodyRemains'
    BY <1>1, <2>1 DEF OnboardingInv, RevocationsStand, OthersWorkIsKept, SomebodyRemains
  <2> QED BY <2>3, <2>4, <2>5 DEF OnboardingInv, CommandsKnow
<1>3. CASE workflow = Unlocked
  <2>1. PICK kind \in OnboardKinds, p \in People :
          /\ workflow' = o
          /\ op' = [op EXCEPT ![o] = [Idle EXCEPT !.at = "reading", !.kind = kind, !.person = p]]
          /\ promise' = [promise EXCEPT ![p] =
                CASE kind = "enroll" -> "nothing"
                  [] kind = "add" /\ @ = "no trace" -> "no grants"
                  [] OTHER -> @]
    BY <1>3 DEF Start
  <2>2. /\ op' \in [Operations -> Commands] /\ \A q \in Operations \ {o} : op'[q] = op[q]
        /\ op'[o].at = "reading" /\ op'[o].kind = kind /\ op'[o].person = p /\ op'[o].verdict = "none"
    BY <1>0, <2>1, StartBecomes
  <2>3. promise' \in [People -> {"nothing", "no grants", "no trace"}]
      BY <1>0, <2>1 DEF OnboardingTypes, OnboardingTypeOK
  <2>4. /\ kind = "enroll" => promise'[p] = "nothing"
        /\ kind = "add" => promise'[p] # "no trace"
        /\ \A q \in People : \/ promise'[q] \in {promise[q], "nothing"}
                             \/ promise[q] = "no trace" /\ promise'[q] = "no grants"
    BY <1>0, <2>1 DEF OnboardingTypes, OnboardingTypeOK
  <2>5. Knows(o, op[o])'
    BY <2>1, <2>2, <2>4
       DEF Knows, Alone, AddKnows, EnrollKnows, RevokeKnows, Through, Done, Running, CommandPlaces, FileSteps,
           ProviderSteps
  <2>6. CommandsKnow' BY <1>3, <2>2, <2>5, Knowing
  <2>7. OnboardingTypes'
      BY ZenonT(60), <1>0, <1>1, <2>1, <2>2, <2>3 DEF OnboardingTypes, OnboardingTypeOK, Commands, CommandPlaces
  <2>8. RevocationsStand' BY <1>1, <2>4 DEF OnboardingInv, RevocationsStand
  <2>9. OthersWorkIsKept' /\ SomebodyRemains'
    BY <1>1 DEF OnboardingInv, OthersWorkIsKept, SomebodyRemains
  <2> QED BY <2>6, <2>7, <2>8, <2>9 DEF OnboardingInv
<1> QED BY <1>2, <1>3

\* A write of what its command wants over entries it covers: nobody comes back
\* to whom something is promised, and nobody else's entry goes.
LEMMA WriteKeeps ==
  ASSUME OnboardingInv, NEW o \in Operations, op[o].at \in Running, NEW s \in Stores, NEW before \in Listed,
         Covers(s, before), entries' = [entries EXCEPT ![s] = Wanted(o, before)],
         op[o].kind = "enroll" => s = "grants", op[o].kind = "add" => s # "grants",
         s # "grants" => Wanted(o, before) # {}, UNCHANGED <<workflow, promise, written, inWindow>>
  PROVE  /\ entries' \in [Stores -> Listed] /\ entries'[s] = Wanted(o, before)
         /\ \A t \in Stores \ {s} : entries'[t] = entries[t]
         /\ RevocationsStand' /\ OthersWorkIsKept' /\ SomebodyRemains'
<1>1. Alone(o, op[o]) /\ op[o] \in Commands BY Known
<1>0. op[o].person \in People /\ op[o].person \notin HandEdits /\ op[o].kind \in OnboardKinds
  BY <1>1, OnboardingAssumption DEF Commands
<1>2. Wanted(o, before) \in Listed BY <1>0 DEF Wanted, Listed
<1>3. entries \in [Stores -> Listed] BY DEF OnboardingInv, OnboardingTypes, OnboardingTypeOK, Listed
<1>4. entries' \in [Stores -> Listed] /\ entries'[s] = Wanted(o,
    before) /\ \A t \in Stores \ {s} : entries'[t] = entries[t]
  <2> DEFINE w == Wanted(o, before)
  <2>1. entries' = [entries EXCEPT ![s] = w] OBVIOUS
  <2> HIDE DEF w
  <2>2. w \in Listed BY <1>2 DEF w
  <2>3. entries' \in [Stores -> Listed] /\ entries'[s] = w /\ \A t \in Stores \ {s} : entries'[t] = entries[t]
    BY <1>3, <2>1, <2>2
  <2> QED BY <2>3 DEF w
<1>5. {"grants", "config", "provider"} \subseteq Stores /\ s \in {"grants", "config", "provider"} BY DEF Stores, Files
<1>6. \A q \in People : q \in Wanted(o, before) => q \in entries[s] \/ (q = op[o].person /\ op[o].kind # "revoke")
  BY DEF Wanted, Covers
<1>7. RevocationsStand'
  BY <1>0, <1>1, <1>4, <1>5, <1>6 DEF OnboardingInv, RevocationsStand, Alone, OnboardKinds
<1>8. \A x \in HandEdits : x \in before => x \in Wanted(o, before) BY <1>0 DEF Wanted
<1>9. OthersWorkIsKept'
  <2> SUFFICES ASSUME NEW x \in HandEdits, written[x] # "nowhere", x \notin inWindow PROVE x \in entries'[written[x]]
    BY DEF OthersWorkIsKept
  <2>1. written[x] \in Stores BY DEF OnboardingInv, OnboardingTypes, OnboardingTypeOK
  <2>2. CASE written[x] = s BY <1>4, <1>8, <2>2 DEF Covers
  <2>3. CASE written[x] # s BY <1>4, <2>1, <2>3 DEF OnboardingInv, OthersWorkIsKept
  <2> QED BY <2>2, <2>3
<1>10. SomebodyRemains' BY <1>4, <1>5 DEF OnboardingInv, SomebodyRemains
<1> QED BY <1>4, <1>7, <1>9, <1>10

LEMMA ReplaceFileKnows ==
  ASSUME OnboardingInv, NEW o \in Operations, ReplaceFile(o)
  PROVE  OnboardingInv'
<1> DEFINE f == op[o].file
           before == op[o].read[op[o].file]
<1>1. /\ op[o].at = "renaming" /\ op[o].at \in Running /\ UNCHANGED <<workflow, guard, promise, written, inWindow>>
      /\ entries' = [entries EXCEPT ![f] = Wanted(o, before)] /\ op' = ToPlace(o, "releasing")
  BY DEF ReplaceFile, Running, CommandPlaces
<1>0. OnboardingTypes /\ Alone(o,
    op[o]) /\ AddKnows(op[o]) /\ EnrollKnows(op[o]) /\ RevokeKnows(op[o]) /\ op[o] \in Commands
      /\ Covers(f, before)
  BY <1>1, Known DEF OnboardingInv
<1>2. /\ before \in Listed /\ f \in {"grants", "config"} /\ f \in Stores /\ op[o].kind \in OnboardKinds
      /\ op[o].kind = "add" => f = "config"
      /\ op[o].kind = "enroll" => f = "grants"
      /\ op[o].kind = "revoke" => op[o].read["config"] \ {op[o].person} # {}
  BY <1>0, <1>1 DEF Commands, Files, Stores, AddKnows, EnrollKnows, RevokeKnows, FileSteps
<1>3. f # "grants" => Wanted(o, before) # {} BY <1>2 DEF Wanted, OnboardKinds
<1>4. /\ entries' \in [Stores -> Listed] /\ entries'[f] = Wanted(o, before)
      /\ \A t \in Stores \ {f} : entries'[t] = entries[t]
      /\ RevocationsStand' /\ OthersWorkIsKept' /\ SomebodyRemains'
  <2> HIDE DEF f, before
  <2> QED BY <1>0, <1>1, <1>2, <1>3, WriteKeeps
<1>5. Becomes(o, "releasing", op[o].file, op[o].verdict, op[o].read, op[o].seen)
    BY <1>0, <1>1, AtBecomes DEF CommandPlaces
<1>6. /\ op[o].kind = "revoke" => op[o].person \notin entries'[f]
      /\ op[o].kind # "revoke" => op[o].person \in entries'[f]
  BY <1>4 DEF Wanted
<1>7. {"grants", "config", "provider"} \subseteq Stores BY DEF Stores, Files
<1> HIDE DEF before
<1>8. Knows(o, op[o])'
  BY <1>0, <1>1, <1>2, <1>4, <1>5, <1>6, <1>7
     DEF Becomes, Knows, Alone, AddKnows, EnrollKnows, RevokeKnows, Through, Done, Running, CommandPlaces, FileSteps,
         ProviderSteps
<1>9. workflow = o BY <1>1, Known
<1>10. CommandsKnow' BY <1>5, <1>8, <1>9, Knowing DEF Becomes
<1>11. OnboardingTypes'
    BY <1>0, <1>1, <1>4, <1>5 DEF OnboardingTypes, OnboardingTypeOK, Becomes, Listed, Commands, CommandPlaces
<1> QED BY <1>4, <1>10, <1>11 DEF OnboardingInv

\* A command about to replace the rules of the provider may do so.
LEMMA PutKeeps ==
  ASSUME OnboardingInv, NEW o \in Operations, op[o].at = "putting",
         entries' = [entries EXCEPT !["provider"] = Wanted(o, op[o].seen)],
         UNCHANGED <<workflow, promise, written, inWindow>>
  PROVE  /\ entries' \in [Stores -> Listed] /\ entries'["provider"] = Wanted(o, op[o].seen)
         /\ entries'["grants"] = entries["grants"] /\ entries'["config"] = entries["config"]
         /\ RevocationsStand' /\ OthersWorkIsKept' /\ SomebodyRemains'
<1> DEFINE before == op[o].seen
           s == "provider"
<1>1. op[o].at \in Running BY DEF Running, CommandPlaces
<1>2. /\ Covers("provider", before) /\ Wanted(o, before) # {} /\ op[o] \in Commands /\ EnrollKnows(op[o])
  BY <1>1, Known
<1>3. op[o].kind # "enroll" BY <1>2 DEF EnrollKnows, ProviderSteps
<1>4. {"grants", "config", "provider"} \subseteq Stores /\ before \in Listed BY <1>2 DEF Stores, Files, Commands
<1>5. "grants" # "provider" /\ "config" # "provider" OBVIOUS
<1>6. entries' = [entries EXCEPT ![s] = Wanted(o, before)] /\ s \in Stores /\ Covers(s, before) /\ s # "grants"
    BY <1>2, <1>4
<1> HIDE DEF before, s
<1>7. /\ entries' \in [Stores -> Listed] /\ entries'[s] = Wanted(o, before)
      /\ \A t \in Stores \ {s} : entries'[t] = entries[t]
      /\ RevocationsStand' /\ OthersWorkIsKept' /\ SomebodyRemains'
  BY <1>1, <1>2, <1>3, <1>4, <1>6, WriteKeeps
<1> QED BY <1>4, <1>5, <1>7 DEF before, s

LEMMA PutKnows ==
  ASSUME OnboardingInv, NEW o \in Operations, Put(o)
  PROVE  OnboardingInv'
<1>1. op[o].at = "putting" /\ op[o].at \in Running /\ UNCHANGED <<workflow, guard, promise, written, inWindow>>
  BY DEF Put, Running, CommandPlaces
<1>0. OnboardingTypes /\ Alone(o,
    op[o]) /\ AddKnows(op[o]) /\ EnrollKnows(op[o]) /\ RevokeKnows(op[o]) /\ op[o] \in Commands
  BY <1>1, Known DEF OnboardingInv
<1>2. op[o].kind \in {"add", "revoke"} BY <1>0, <1>1 DEF EnrollKnows, Commands, OnboardKinds, ProviderSteps
<1>3. CASE entries' = [entries EXCEPT !["provider"] = Wanted(o, op[o].seen)]
           /\ (op' = ToPlace(o, "confirming") \/ op' = Ended(o, "partial"))
  <2>1. /\ entries' \in [Stores -> Listed] /\ entries'["provider"] = Wanted(o, op[o].seen)
        /\ entries'["grants"] = entries["grants"] /\ entries'["config"] = entries["config"]
        /\ RevocationsStand' /\ OthersWorkIsKept' /\ SomebodyRemains'
    BY <1>1, <1>3, PutKeeps
  <2>2. PICK place, v : /\ Becomes(o, place, op[o].file, v, op[o].read, op[o].seen)
                        /\ \/ place = "confirming" /\ v = op[o].verdict
                           \/ place = "ending" /\ v = "partial"
    BY <1>0, <1>3, AtBecomes, EndBecomes DEF CommandPlaces, Verdicts
  <2>3. Knows(o, op[o])'
    BY <1>0, <1>1, <1>2, <2>1, <2>2
       DEF Becomes, Knows, Alone, AddKnows, EnrollKnows, RevokeKnows, Through, Done, Running, CommandPlaces,
           FileSteps,
         ProviderSteps
  <2>4. workflow = o BY <1>1, Known
  <2>5. CommandsKnow' BY <2>2, <2>3, <2>4, Knowing DEF Becomes
  <2>6. OnboardingTypes'
      BY <1>0, <1>1, <2>1, <2>2 DEF OnboardingTypes, OnboardingTypeOK, Becomes, Listed, Commands, CommandPlaces
  <2> QED BY <2>1, <2>5, <2>6 DEF OnboardingInv
<1>4. CASE op' = Ended(o, "partial") /\ UNCHANGED entries
  <2>1. Becomes(o, "ending", op[o].file, "partial", op[o].read, op[o].seen) BY <1>0, <1>4, EndBecomes DEF Verdicts
  <2>2. Knows(o, op[o])'
    BY <1>0, <1>1, <1>2, <1>4, <2>1
       DEF Becomes, Knows, Alone, AddKnows, EnrollKnows, RevokeKnows, Through, Done, Running, CommandPlaces,
           FileSteps,
         ProviderSteps
  <2> QED BY <1>0, <1>1, <1>4, <2>1, <2>2, QuietStep DEF Becomes, OnboardingTypes, OnboardingTypeOK
<1> QED BY <1>3, <1>4 DEF Put

LEMMA EndKnows ==
  ASSUME OnboardingInv, NEW o \in Operations, End(o)
  PROVE  OnboardingInv'
<1>1. op[o].at = "ending" /\ op[o].at \in Running /\ op' = Closed(o, "answered") /\ UNCHANGED <<entries, guard,
    written, inWindow>>
      /\ workflow' = Unlocked
  BY DEF End, Running, CommandPlaces
<1>0. OnboardingTypes /\ RevokeKnows(op[o]) /\ op[o] \in Commands /\ workflow = o
  BY <1>1, Known DEF OnboardingInv
<1>2. /\ op' \in [Operations -> Commands] /\ \A q \in Operations \ {o} : op'[q] = op[q]
      /\ op'[o].at = "answered" /\ op'[o].verdict = "none"
  BY <1>0, <1>1, OverBecomes
<1>3. CommandsKnow' BY <1>0, <1>2, RestStill, Knowing
<1>4. promise' \in [People -> {"nothing", "no grants", "no trace"}]
  BY <1>0 DEF End, OnboardingTypes, OnboardingTypeOK
<1>5. /\ \A q \in People \ {op[o].person} : promise'[q] = promise[q]
      /\ \/ promise'[op[o].person] = promise[op[o].person]
         \/ op[o].kind = "revoke" /\ op[o].verdict = "applied"
         \/ op[o].kind = "revoke" /\ op[o].verdict = "partial" /\ promise'[op[o].person] = "no grants"
  BY <1>0 DEF End, OnboardingTypes, OnboardingTypeOK, Commands
<1>6. RevocationsStand'
  BY <1>0, <1>1, <1>5 DEF OnboardingInv, RevocationsStand, RevokeKnows, Done
<1>7. OnboardingTypes' BY <1>0, <1>1, <1>2, <1>4 DEF OnboardingTypes, OnboardingTypeOK, Commands, CommandPlaces
<1>8. OthersWorkIsKept' /\ SomebodyRemains' BY <1>1 DEF OnboardingInv, OthersWorkIsKept, SomebodyRemains
<1> QED BY <1>3, <1>6, <1>7, <1>8 DEF OnboardingInv

LEMMA DieKnows ==
  ASSUME OnboardingInv, NEW o \in Operations, DieAnywhere(o)
  PROVE  OnboardingInv'
<1>1. op[o].at \in Running /\ op' = Closed(o, "dead") /\ UNCHANGED <<workflow, guard, promise, written, inWindow>>
  <2>1. op[o].at \in CommandPlaces BY DEF OnboardingInv, OnboardingTypes, Commands
  <2> QED BY <2>1 DEF DieAnywhere, Running
<1>0. OnboardingTypes /\ workflow = o BY <1>1, Known DEF OnboardingInv
<1>2. /\ op' \in [Operations -> Commands] /\ \A q \in Operations \ {o} : op'[q] = op[q]
      /\ op'[o].at = "dead" /\ op'[o].verdict = "none"
  BY <1>0, <1>1, OverBecomes
<1>3. CommandsKnow' BY <1>0, <1>2, RestStill, Knowing
<1>4. entries' \in [Stores -> Listed] /\ RevocationsStand' /\ OthersWorkIsKept' /\ SomebodyRemains'
  <2>1. CASE entries' = entries
    BY <1>0, <1>1, <2>1
        DEF OnboardingInv, OnboardingTypes, OnboardingTypeOK, Listed, RevocationsStand, OthersWorkIsKept,
            SomebodyRemains
  <2>2. CASE op[o].at = "putting" /\ entries' = [entries EXCEPT !["provider"] = Wanted(o, op[o].seen)]
    BY <1>1, <2>2, PutKeeps
  <2> QED BY <2>1, <2>2 DEF DieAnywhere
<1>5. OnboardingTypes'
    BY <1>0, <1>1, <1>2, <1>4 DEF OnboardingTypes, OnboardingTypeOK, Commands, CommandPlaces, Listed
<1> QED BY <1>3, <1>4, <1>5 DEF OnboardingInv

LEMMA ClearKnows ==
  ASSUME OnboardingInv, ClearWorkflow \/ \E f \in Files : ClearFile(f)
  PROVE  OnboardingInv'
<1>1. UNCHANGED <<entries, op, promise, written, inWindow>> BY DEF ClearWorkflow, ClearFile
<1>2. CommandsKnow'
  <2>1. CASE ClearWorkflow
    <3> SUFFICES ASSUME NEW q \in Operations PROVE Knows(q, op[q])' BY DEF CommandsKnow
    <3>1. Alone(q, op[q]) /\ op[q] \in Commands BY DEF OnboardingInv, CommandsKnow, Knows, OnboardingTypes
    <3>2. op[q].at \notin Running
      <4>1. op[q].at \in Running => workflow = q BY <3>1 DEF Alone
      <4>2. op[workflow].at = "dead" BY <2>1 DEF ClearWorkflow
      <4> QED BY <4>1, <4>2 DEF Running
    <3>3. op[q].at \in {"idle", "answered", "dead"} /\ op[q].verdict = "none"
        BY <3>1, <3>2 DEF Alone, Running, Commands, CommandPlaces
    <3> QED BY <1>1, <3>3, RestStill
  <2>2. CASE \E f \in Files : ClearFile(f)
    <3>1. UNCHANGED workflow BY <2>2 DEF ClearFile
    <3> QED BY <1>1, <3>1, KnowsStill DEF CommandsKnow, OnboardingInv
  <2> QED BY <2>1, <2>2
<1>3. OnboardingTypes'
  BY <1>1 DEF OnboardingInv, OnboardingTypes, OnboardingTypeOK, ClearWorkflow, ClearFile
<1>4. RevocationsStand' /\ OthersWorkIsKept' /\ SomebodyRemains'
  BY <1>1 DEF OnboardingInv, RevocationsStand, OthersWorkIsKept, SomebodyRemains
<1> QED BY <1>2, <1>3, <1>4 DEF OnboardingInv

LEMMA OnboardingSteps == OnboardingInv /\ [OnboardingNext]_onboardVars => OnboardingInv'
<1>1. ASSUME OnboardingInv, NEW o \in Operations, OnboardStep(o) PROVE OnboardingInv'
  BY <1>1, StartKnows, ReadFilesKnows, RecheckKnows, LockFileKnows, CompareKnows, ReplaceFileKnows, ReleaseKnows,
     InspectKnows, SecondLookKnows, PutKnows, ReadBackKnows, EndKnows, DieKnows DEF OnboardStep
<1>2. ASSUME OnboardingInv, UNCHANGED onboardVars PROVE OnboardingInv'
  <2>1. UNCHANGED <<entries, workflow, guard, op, promise, written, inWindow>> BY <1>2 DEF onboardVars
  <2>2. CommandsKnow' BY <1>2, <2>1, KnowsStill DEF CommandsKnow, OnboardingInv
  <2> QED BY <1>2, <2>1, <2>2
       DEF OnboardingInv, OnboardingTypes, OnboardingTypeOK, RevocationsStand, OthersWorkIsKept, SomebodyRemains
<1> QED BY <1>1, <1>2, ClearKnows, HandEditKeeps DEF OnboardingNext

\* Whatever commands do, fail to do or die at, and whoever edits by hand: what a
\* revocation told the operator stands until the person is let in again,
\* "applied" is true, others lose no entry but in a write already begun, and
\* somebody is always let in.
THEOREM OnboardingAlwaysHolds == OnboardingSpec => []OnboardingHolds
<1>1. OnboardingInv => OnboardingHolds
  <2> SUFFICES ASSUME OnboardingInv PROVE AppliedIsTrue BY DEF OnboardingHolds, OnboardingInv, OnboardingTypes
  <2> SUFFICES ASSUME NEW o \in Operations, op[o].at = "ending", op[o].verdict = "applied"
               PROVE  CASE op[o].kind = "add" -> op[o].person \in entries["config"] \cap entries["provider"]
                        [] op[o].kind = "enroll" -> op[o].person \in entries["grants"]
                        [] op[o].kind = "revoke" -> op[o].person \notin UNION {entries[s] : s \in Stores}
    BY DEF AppliedIsTrue
  <2>1. op[o].at \in Running BY DEF Running, CommandPlaces
  <2>2. AddKnows(op[o]) /\ EnrollKnows(op[o]) /\ RevokeKnows(op[o]) /\ op[o].kind \in OnboardKinds
    BY <2>1, Known DEF Commands
  <2>3. CASE op[o].kind = "add" BY <2>2, <2>3 DEF AddKnows, Done
  <2>4. CASE op[o].kind = "enroll" BY <2>2, <2>4 DEF EnrollKnows, Done
  <2>5. CASE op[o].kind = "revoke"
    <3>1. \A s \in Stores : op[o].person \notin entries[s] BY <2>2, <2>5 DEF RevokeKnows, Done, Stores, Files
    <3> QED BY <2>5, <3>1
  <2> QED BY <2>2, <2>3, <2>4, <2>5 DEF OnboardKinds
<1> QED BY <1>1, OnboardingStarts, OnboardingSteps, PTL DEF OnboardingSpec

=============================================================================

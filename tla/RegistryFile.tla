---------------------------- MODULE RegistryFile ----------------------------
(***************************************************************************)
(* The OAuth model registry on disk: updateState and readState of          *)
(* src/src/runtime/oauth-state.js with the lock file of                    *)
(* src/src/runtime/oauth-lock.js.                                          *)
(*                                                                         *)
(* Processes update the registry under a lock file: read the state, write  *)
(* it to the .last-good file, write the next one to the file itself, each  *)
(* by a rename.  A process may die between any two steps and any file      *)
(* operation may fail.  Readers take no lock.                              *)
(***************************************************************************)
EXTENDS Naturals

CONSTANTS
    Updaters,   \* calls of updateState, each in a process of its own
    Reclaims,   \* TRUE on darwin, where a dead owner's lock can be taken over
    NoOwner,    \* the lock file does not exist
    NoPid       \* the lock file exists and is empty

ASSUME LockAssumption ==
    /\ NoOwner \notin Updaters /\ NoPid \notin Updaters /\ NoOwner # NoPid
    /\ Reclaims \in BOOLEAN

VARIABLES
    main,       \* the registry file
    backup,     \* the .last-good file
    broken,     \* the files whose content does not parse
    lock,       \* whose pid the lock file holds
    pc,         \* per update: where updateState is
    previous    \* per update: the state it has read

vars == <<main, backup, broken, lock, pc, previous>>

States == [revision : Nat, updates : SUBSET Updaters]

\* A file that does not exist, and the null of readState.
NoState == [revision |-> 0, updates |-> {}]

Working == {"opened", "locked", "read", "backedUp", "written", "undone"}
Places == Working \cup {"idle", "done", "failed", "crashed"}

TypeOK ==
    /\ main \in States /\ backup \in States
    /\ broken \subseteq {"main", "backup"}
    /\ lock \in Updaters \cup {NoOwner, NoPid}
    /\ pc \in [Updaters -> Places]
    /\ previous \in [Updaters -> States]

Init ==
    /\ main = NoState /\ backup = NoState /\ broken = {}
    /\ lock = NoOwner
    /\ pc = [u \in Updaters |-> "idle"]
    /\ previous = [u \in Updaters |-> NoState]

\* readState: the file, or else the snapshot, or else null.
Readable ==
    IF main.revision > 0 /\ "main" \notin broken THEN main
    ELSE IF backup.revision > 0 /\ "backup" \notin broken THEN backup
    ELSE NoState

files == <<main, backup, broken>>

-----------------------------------------------------------------------------
\* acquireLock.

\* Exclusive creation of the lock file; EEXIST when it is there already.
OpenLock(u) ==
    /\ pc[u] = "idle"
    /\ \/ /\ lock = NoOwner
          /\ lock' = NoPid
          /\ pc' = [pc EXCEPT ![u] = "opened"]
       \/ /\ lock # NoOwner
          /\ pc' = [pc EXCEPT ![u] = "failed"]
          /\ UNCHANGED lock
    /\ UNCHANGED <<files, previous>>

WritePid(u) ==
    /\ pc[u] = "opened"
    /\ lock' = u
    /\ pc' = [pc EXCEPT ![u] = "locked"]
    /\ UNCHANGED <<files, previous>>

\* shlock: a lock that is free, or whose owner is dead.
Dead == {u \in Updaters : pc[u] = "crashed"}

\* Changed form of TakeNativeLock: a lock that looks old is taken over.
TakeNativeLock_Steals(u) ==
    /\ pc[u] = "idle"
    /\ lock' = u
    /\ pc' = [pc EXCEPT ![u] = "locked"]
    /\ UNCHANGED <<files, previous>>

TakeNativeLock(u) ==
    /\ pc[u] = "idle"
    /\ \/ /\ lock \in Dead \cup {NoOwner}
          /\ lock' = u
          /\ pc' = [pc EXCEPT ![u] = "locked"]
       \/ /\ lock \notin Dead \cup {NoOwner}
          /\ pc' = [pc EXCEPT ![u] = "failed"]
          /\ UNCHANGED lock
    /\ UNCHANGED <<files, previous>>

Acquire(u) == IF Reclaims THEN TakeNativeLock(u) ELSE OpenLock(u) \/ WritePid(u)

-----------------------------------------------------------------------------
\* updateState under the lock.

\* Read, unless the file exists and neither copy can be read, or the caller
\* expected another revision (which it may do).
Read(u) ==
    /\ pc[u] = "locked"
    /\ previous' = [previous EXCEPT ![u] = Readable]
    /\ \/ /\ ~(Readable = NoState /\ main.revision > 0)
          /\ pc' = [pc EXCEPT ![u] = "read"]
       \/ pc' = [pc EXCEPT ![u] = "undone"]
    /\ UNCHANGED <<files, lock>>

\* Changed form of Backup: the first snapshot is kept.
Backup_Once(u) ==
    /\ pc[u] = "read"
    /\ \/ /\ previous[u] # NoState /\ backup = NoState
          /\ backup' = previous[u]
          /\ broken' = broken \ {"backup"}
       \/ /\ previous[u] = NoState \/ backup # NoState
          /\ UNCHANGED <<backup, broken>>
    /\ pc' = [pc EXCEPT ![u] = "backedUp"]
    /\ UNCHANGED <<main, lock, previous>>

\* The snapshot, when there was a state to keep.
Backup(u) ==
    /\ pc[u] = "read"
    /\ \/ /\ previous[u] # NoState
          /\ backup' = previous[u]
          /\ broken' = broken \ {"backup"}
       \/ /\ previous[u] = NoState
          /\ UNCHANGED <<backup, broken>>
    /\ pc' = [pc EXCEPT ![u] = "backedUp"]
    /\ UNCHANGED <<main, lock, previous>>

\* change(previous), whose revision must be the next one.
Changed(state, u) == [revision |-> state.revision + 1, updates |-> state.updates \cup {u}]

Write(u) ==
    /\ pc[u] = "backedUp"
    /\ main' = Changed(previous[u], u)
    /\ broken' = broken \ {"main"}
    /\ pc' = [pc EXCEPT ![u] = "written"]
    /\ UNCHANGED <<backup, lock, previous>>

\* Changed form of StepFails: the file is written in place and left half-way.
StepFails_Torn(u) ==
    /\ pc[u] \in {"read", "backedUp"}
    /\ pc' = [pc EXCEPT ![u] = "undone"]
    /\ broken' = broken \cup {IF pc[u] = "read" THEN "backup" ELSE "main"}
    /\ UNCHANGED <<main, backup, lock, previous>>

\* Anything between the read and a rename throws: the files stay as they are.
StepFails(u) ==
    /\ pc[u] \in {"read", "backedUp"}
    /\ pc' = [pc EXCEPT ![u] = "undone"]
    /\ UNCHANGED <<files, lock, previous>>

\* release: only the pid that is in the file may remove it.
Release(u) ==
    /\ pc[u] \in {"written", "undone"}
    /\ lock = u
    /\ lock' = NoOwner
    /\ pc' = [pc EXCEPT ![u] = IF @ = "written" THEN "done" ELSE "failed"]
    /\ UNCHANGED <<files, previous>>

\* Writing the pid, changing the mode of the lock file or removing it fails:
\* the lock file stays.
LockFails(u) ==
    /\ pc[u] \in {"opened", "locked", "written", "undone"}
    /\ pc' = [pc EXCEPT ![u] = "failed"]
    /\ UNCHANGED <<files, lock, previous>>

Crash(u) ==
    /\ pc[u] \in Working \cup {"failed"}
    /\ pc' = [pc EXCEPT ![u] = "crashed"]
    /\ UNCHANGED <<files, lock, previous>>

Step(u) ==
    \/ Acquire(u)
    \/ Read(u) \/ Backup(u) \/ Write(u) \/ StepFails(u)
    \/ Release(u) \/ LockFails(u) \/ Crash(u)

Next == \E u \in Updaters : Step(u)

Spec == Init /\ [][Next]_vars

\* The disk, or a person, damages one of the two files while both are good.
Damage ==
    /\ broken = {}
    /\ \/ main.revision > 0 /\ broken' = {"main"}
       \/ backup.revision > 0 /\ broken' = {"backup"}
    /\ UNCHANGED <<main, backup, lock, pc, previous>>

DamagedSpec == Init /\ [][Next \/ Damage]_vars

-----------------------------------------------------------------------------
\* An update that was written is in the state every reader gets, and stays
\* there: no other process overwrites it from an older read, though the lock of
\* a dead process is taken over and an update may die half-way.
NoLostUpdate == \A u \in Updaters : pc[u] \in {"written", "done"} => u \in Readable.updates

\* Readers, who take no lock and fall back to the snapshot, see a cell that
\* goes from one update to the next, whatever step a process dies at.
Store == INSTANCE RegistryStore WITH revision <- Readable.revision, updates <- Readable.updates

ImplementsStore == Store!Spec

\* docs/oauth-recovery.md: "a last-good snapshot".  From the second update on,
\* damage to one of the two files costs a reader one update at most, also when
\* an update was under way or died.
SnapshotIsClose ==
    main.revision > 1 =>
        /\ Readable # NoState
        /\ main.revision <= Readable.revision + 1
        /\ \E u \in Updaters : main.updates \subseteq Readable.updates \cup {u}
=============================================================================

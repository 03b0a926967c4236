------------------------- MODULE AdmissionManifest -------------------------
(***************************************************************************)
(* The admission manifest of a root of the local search: which files may   *)
(* be read, and which paths were revoked                                   *)
(* (src/packages/local-search/admission-refresh.js, admission.js, and the  *)
(* verified reads of scope.js).                                            *)
(*                                                                         *)
(* A refresh screens every file and replaces the manifest; a revocation    *)
(* adds a path to it.  Both run in processes of their own, take a lock     *)
(* directory, may give up at every await and may die at any step, while    *)
(* files are edited and readers read.  Sources are versions; a manifest's  *)
(* generation is its content.                                              *)
(***************************************************************************)
EXTENDS Naturals, FiniteSets

CONSTANTS
    Documents,  \* files of the root
    MaxEdits,   \* versions of a file after the first
    Clean,      \* versions the screening approves
    Refreshes,  \* processes that refresh
    Revokers,   \* processes that revoke
    Readers

ASSUME AdmissionAssumption ==
    MaxEdits \in Nat /\ Clean \subseteq 0..MaxEdits /\ "none" \notin Refreshes \cup Revokers

VARIABLES
    source,     \* per file: its version on disk
    manifest,   \* what the manifest holds; "files" lists <<file, version>>
    mutex,      \* the process whose lock directory exists, "none" without one
    worker,     \* per process: its step and what it has read
    reading,    \* per reader: the read under way
    served,     \* <<file, version>> that readers returned
    revoked     \* files whose revocation was answered "revoked" or "alreadyRevoked"

admissionVars == <<source, manifest, mutex, worker, reading, served, revoked>>

Absent == [state |-> "absent", files |-> {}, revoked |-> {}]
Idle == [at |-> "idle", previous |-> Absent, found |-> {}, left |-> {}, target |-> {}]
NoRead == [at |-> "idle", file |-> {}, generation |-> Absent, version |-> 0]
Writers == Refreshes \cup Revokers

AdmissionInit ==
    /\ source \in [Documents -> {0}] /\ manifest = Absent /\ mutex = "none"
    /\ worker = [w \in Writers |-> Idle] /\ reading = [r \in Readers |-> NoRead]
    /\ served = {} /\ revoked = {}

\* What a writer does next, and the files it leaves alone.
Goes(w, at) == worker' = [worker EXCEPT ![w].at = at]
Rest == UNCHANGED <<source, reading, served>>

----------------------------------------------------------------------------
(* Writers. *)

BeginWrite(w) ==
    /\ worker[w].at = "idle"
    /\ \E t \in SUBSET Documents :
         /\ IF w \in Refreshes THEN t = {} ELSE t # {}
         /\ worker' = [worker EXCEPT ![w] = [Idle EXCEPT !.at = "locking", !.target = t]]
    /\ UNCHANGED <<manifest, mutex, revoked>> /\ Rest

\* acquireManifestLock: mkdir succeeds for one; the others look again until
\* their deadline, whoever holds the directory and whether it lives or not.
TakeLock(w) ==
    /\ worker[w].at = "locking" /\ mutex = "none"
    /\ mutex' = w /\ Goes(w, "locked")
    /\ UNCHANGED <<manifest, revoked>> /\ Rest

\* The deadline or a cancellation, seen at an await: a holder lets go.
Abandon(w) ==
    /\ worker[w].at \in {"locking", "locked", "scanning", "checked"}
    /\ IF worker[w].at = "locking" THEN Goes(w, "failed") ELSE Goes(w, "releasing")
    /\ UNCHANGED <<manifest, mutex, revoked>> /\ Rest

\* The manifest as this writer found it.  A refresh starts from any, a
\* revocation only from one that exists.
ReadManifest(w) ==
    /\ worker[w].at = "locked"
    /\ worker' = [worker EXCEPT ![w].previous = manifest, ![w].left = Documents,
         ![w].at = IF w \in Refreshes THEN "scanning"
                   ELSE IF manifest.state = "absent" THEN "releasing"
                   ELSE IF worker[w].target \subseteq manifest.revoked THEN "answered" ELSE "checked"]
    /\ UNCHANGED <<manifest, mutex, revoked>> /\ Rest

\* One file of the scan: revoked paths are passed over, the others are read
\* and approved or denied.
Screen(w) ==
    /\ worker[w].at = "scanning"
    /\ \E f \in worker[w].left :
         worker' = [worker EXCEPT ![w].left = @ \ {f},
             ![w].found = IF f \in worker[w].previous.revoked THEN @
                          ELSE @ \cup ({<<f, source[f]>>} \cap (Documents \X Clean))]
    /\ UNCHANGED <<manifest, mutex, revoked>> /\ Rest

\* Every candidate is read again: one that changed ends the refresh.
Reread(w) ==
    /\ worker[w].at = "scanning" /\ worker[w].left = {}
    /\ IF \A c \in worker[w].found : source[c[1]] = c[2] THEN Goes(w, "checked") ELSE Goes(w, "releasing")
    /\ UNCHANGED <<manifest, mutex, revoked>> /\ Rest

\* Changed form of Written: a refresh forgets the revocations it found.
Written_Fresh(w) ==
    IF w \in Refreshes
    THEN [state |-> "present", files |-> worker[w].found, revoked |-> {}]
    ELSE [worker[w].previous EXCEPT !.revoked = @ \cup worker[w].target]

Written(w) ==
    IF w \in Refreshes
    THEN [state |-> "present", files |-> worker[w].found, revoked |-> worker[w].previous.revoked]
    ELSE [worker[w].previous EXCEPT !.revoked = @ \cup worker[w].target]

\* publishManifest: the lock must be this process's and the manifest the one
\* it started from; storage and size may refuse.
Prepare(w) ==
    /\ worker[w].at = "checked"
    /\ \/ mutex = w /\ manifest = worker[w].previous /\ Goes(w, "prepared")
       \/ Goes(w, "releasing")
    /\ UNCHANGED <<manifest, mutex, revoked>> /\ Rest

\* The second look at manifest and lock, before the rename.
LookOnceMore(w) ==
    /\ worker[w].at = "prepared"
    /\ IF mutex = w /\ manifest = worker[w].previous THEN Goes(w, "publishing") ELSE Goes(w, "releasing")
    /\ UNCHANGED <<manifest, mutex, revoked>> /\ Rest

\* The rename, and the directory is synchronised, which may fail after it.
Publish(w) ==
    /\ worker[w].at = "publishing"
    /\ manifest' = Written(w)
    /\ Goes(w, "answered") \/ Goes(w, "releasing")
    /\ UNCHANGED <<mutex, revoked>> /\ Rest

\* The result is what the manifest now says, and the lock directory goes.
Release(w) ==
    /\ worker[w].at \in {"answered", "releasing"} /\ mutex = w
    /\ mutex' = "none"
    /\ IF worker[w].at = "answered"
       THEN Goes(w, "done") /\ revoked' = revoked \cup worker[w].target
       ELSE Goes(w, "failed") /\ UNCHANGED revoked
    /\ UNCHANGED manifest /\ Rest

\* A process dies and leaves its lock directory; somebody removes it by hand.
Die(w) ==
    /\ worker[w].at \notin {"idle", "done", "failed", "dead"} /\ Goes(w, "dead")
    /\ UNCHANGED <<manifest, mutex, revoked>> /\ Rest

Tidy ==
    /\ mutex \in Writers /\ worker[mutex].at = "dead" /\ mutex' = "none"
    /\ UNCHANGED <<manifest, worker, revoked>> /\ Rest

----------------------------------------------------------------------------
(* Editors and readers. *)

Edit ==
    /\ \E f \in Documents : source[f] < MaxEdits /\ source' = [source EXCEPT ![f] = @ + 1]
    /\ UNCHANGED <<manifest, mutex, worker, reading, served, revoked>>

\* admissionFor: listed and not revoked.
Admitted(m, f) == m.state = "present" /\ f \notin m.revoked /\ \E v \in 0..MaxEdits : <<f, v>> \in m.files

\* readVerifiedBytes: the admission is looked up, the file is read.
Open(r) ==
    /\ reading[r].at = "idle"
    /\ \E f \in Documents :
         /\ Admitted(manifest, f)
         /\ reading' = [reading EXCEPT ![r] = [at |-> "read", file |-> {f}, generation |-> manifest,
                                               version |-> source[f]]]
    /\ UNCHANGED <<source, manifest, mutex, worker, served, revoked>>

\* The file did not change under the read, its hash is the one admitted, and
\* the manifest is still of the generation that admitted it.
Verify(r) ==
    /\ reading[r].at = "read"
    /\ \E f \in reading[r].file :
         served' = served \cup (IF /\ manifest = reading[r].generation
                                   /\ source[f] = reading[r].version
                                   /\ <<f, reading[r].version>> \in manifest.files
                                THEN {<<f, reading[r].version>>} ELSE {})
    /\ reading' = [reading EXCEPT ![r] = NoRead]
    /\ UNCHANGED <<source, manifest, mutex, worker, revoked>>

----------------------------------------------------------------------------

AdmissionNext ==
    \/ Edit \/ Tidy
    \/ \E r \in Readers : Open(r) \/ Verify(r)
    \/ \E w \in Writers :
         \/ BeginWrite(w) \/ TakeLock(w) \/ Abandon(w) \/ ReadManifest(w) \/ Screen(w) \/ Reread(w)
         \/ Prepare(w) \/ LookOnceMore(w) \/ Publish(w) \/ Release(w) \/ Die(w)

AdmissionSpec == AdmissionInit /\ [][AdmissionNext]_admissionVars

\* Readers return only versions that were screened and approved, however
\* files are edited between the screening, the manifest and the read.
ServesScreened == \A s \in served : s[2] \in Clean

\* And a revocation that was answered holds for good: no refresh that raced it,
\* started before it, or died around it brings the path back, and nothing
\* reads it again.
AdmissionHolds ==
    [][/\ ServesScreened'
       /\ revoked' \subseteq manifest'.revoked
       /\ \A s \in served' \ served : s[1] \notin revoked]_admissionVars
=============================================================================

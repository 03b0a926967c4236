-------------------------- MODULE AtelierReconcile --------------------------
(***************************************************************************)
(* A projection of a source is brought in line with its origin:            *)
(* reconcileAtelierSource of src/src/atelier-reconcile.js.  The projected  *)
(* files are replaced one by one, the graph is rebuilt, and the registries *)
(* that name the origin's hash are replaced one by one; when something     *)
(* fails, what was replaced is put back, unless somebody else wrote it.    *)
(*                                                                         *)
(* Others edit every file and the origin at any time, and the process may  *)
(* die.  A file is the version of the origin it stands for and the edits   *)
(* of others it holds; what a projection adds to its origin is left out.   *)
(***************************************************************************)
EXTENDS Naturals, Sequences, SequencesExt

CONSTANTS
    Projections,  \* the enrolled files, in order
    Registries,   \* the registries, in order
    Amendments,   \* edits of these files by others
    MaxVersions   \* versions of the origin; the projection is of version 0

ASSUME ReconcileAssumption ==
    /\ Projections \in Seq(ToSet(Projections)) /\ Registries \in Seq(ToSet(Registries))
    /\ MaxVersions \in Nat \ {0}

VARIABLES
    copies,    \* the content of each file
    upstream,  \* the version of the origin
    kept,      \* the backup: contents by file, or none
    turn,      \* the reconciliation: its step, the version it read, the files
               \* still to write, those written, and its conflicts
    found,      \* what it read of each file
    amended,   \* per file: the edits of others made so far
    unseen,    \* those made after its last look at a file it was to replace
    touched    \* files others wrote since it read them

reconcileVars == <<copies, upstream, kept, turn, found, amended, unseen, touched>>

Items == Projections \o Registries
ItemSet == ToSet(Items)
Blank == [version |-> 0, edits |-> {}]

ReconcileInit ==
    /\ copies = [f \in ItemSet |-> Blank] /\ upstream = 1 /\ kept = {}
    /\ turn = [at |-> "idle", version |-> 0, todo |-> <<>>, done |-> <<>>, conflicts |-> {}]
    /\ found = copies /\ amended = [f \in ItemSet |-> {}] /\ unseen = {} /\ touched = {}

\* What the reconciliation writes: its version, and what it read besides.
Made(f) == [found[f] EXCEPT !.version = turn.version]

StepTo(place) == turn' = [turn EXCEPT !.at = place]

\* A failure: whatever was written is put back, registries first.
Fails == StepTo(IF turn.done = <<>> THEN "failed" ELSE "restoring")

OriginStable == upstream = turn.version

----------------------------------------------------------------------------

\* The projection must be the approved one before anything is read.
CheckProjection ==
    /\ turn.at = "idle"
    /\ StepTo(IF \A f \in ToSet(Projections) : copies[f] = Blank THEN "approved" ELSE "failed")
    /\ UNCHANGED <<copies, upstream, kept, found, amended, unseen, touched>>

\* The plan: origin, files and registries are read.
ReadEverything ==
    /\ turn.at = "approved"
    /\ turn' = [turn EXCEPT !.at = "planned", !.version = upstream, !.todo = Items]
    /\ found' = copies /\ touched' = {}
    /\ UNCHANGED <<copies, upstream, kept, amended, unseen>>

BackUpEverything ==
    /\ turn.at = "planned"
    /\ \/ ~OriginStable /\ Fails /\ UNCHANGED kept
       \/ OriginStable /\ StepTo("kept") /\ kept' = {found}
    /\ UNCHANGED <<copies, upstream, found, amended, unseen, touched>>

CheckAgain ==
    /\ turn.at = "kept"
    /\ StepTo(IF \A f \in ToSet(Projections) : copies[f] = Blank THEN "writing" ELSE "failed")
    /\ UNCHANGED <<copies, upstream, kept, found, amended, unseen, touched>>

\* atomic, up to its last look at the file; registries also need a stable
\* origin.
Look ==
    /\ turn.at \in {"writing", "committing"} /\ turn.todo # <<>>
    /\ LET f == Head(turn.todo) IN
       /\ turn.at = "writing" <=> f \in ToSet(Projections)
       /\ IF copies[f] = found[f] /\ (turn.at = "committing" => OriginStable)
          THEN StepTo(IF turn.at = "writing" THEN "replacing" ELSE "publishing") ELSE Fails
    /\ UNCHANGED <<copies, upstream, kept, found, amended, unseen, touched>>

Rename ==
    /\ turn.at \in {"replacing", "publishing"}
    /\ LET f == Head(turn.todo) IN copies' = [copies EXCEPT ![f] = Made(f)]
    /\ StepTo(IF turn.at = "replacing" THEN "verifying" ELSE "checking")
    /\ UNCHANGED <<upstream, kept, found, amended, unseen, touched>>

\* A file that is not as it was written is left to whoever wrote it.
Confirm ==
    /\ turn.at \in {"verifying", "checking"}
    /\ LET f == Head(turn.todo) IN
       IF copies[f] = Made(f)
       THEN turn' = [turn EXCEPT !.at = IF @ = "verifying" THEN "writing" ELSE "committing",
                                 !.todo = Tail(@), !.done = <<f>> \o @]
       ELSE Fails
    /\ UNCHANGED <<copies, upstream, kept, found, amended, unseen, touched>>

Projected == \A f \in ToSet(Projections) : copies[f] = Made(f)

\* All are projected: the graph is built, and must be fresh.
Build ==
    /\ turn.at = "writing" /\ Len(turn.todo) = Len(Registries)
    /\ IF Projected /\ OriginStable THEN StepTo("built") ELSE Fails
    /\ UNCHANGED <<copies, upstream, kept, found, amended, unseen, touched>>

CheckBuilt ==
    /\ turn.at = "built"
    /\ \/ Fails
       \/ /\ Projected /\ OriginStable /\ \A f \in ToSet(Registries) : copies[f] = found[f]
          /\ StepTo("committing")
    /\ UNCHANGED <<copies, upstream, kept, found, amended, unseen, touched>>

Finish ==
    /\ turn.at = "committing" /\ turn.todo = <<>>
    /\ IF OriginStable /\ \A f \in ToSet(Registries) : copies[f] = Made(f) THEN StepTo("reconciled") ELSE Fails
    /\ UNCHANGED <<copies, upstream, kept, found, amended, unseen, touched>>

----------------------------------------------------------------------------

\* Changed form of LookBack: the file is put back as it is.
LookBack_Not ==
    /\ turn.at = "restoring" /\ turn.done # <<>> /\ StepTo("putting back")
    /\ UNCHANGED <<copies, upstream, kept, found, amended, unseen, touched>>

\* What is written is put back, last first, if it still is as written.
LookBack ==
    /\ turn.at = "restoring" /\ turn.done # <<>>
    /\ LET f == Head(turn.done) IN
       \/ copies[f] = Made(f) /\ StepTo("putting back")
       \/ turn' = [turn EXCEPT !.done = Tail(@), !.conflicts = @ \cup {f}]
    /\ UNCHANGED <<copies, upstream, kept, found, amended, unseen, touched>>

PutBack ==
    /\ turn.at = "putting back"
    /\ LET f == Head(turn.done) IN copies' = [copies EXCEPT ![f] = found[f]]
    /\ StepTo("put back")
    /\ UNCHANGED <<upstream, kept, found, amended, unseen, touched>>

ConfirmBack ==
    /\ turn.at = "put back"
    /\ LET f == Head(turn.done) IN
       turn' = [turn EXCEPT !.at = "restoring", !.done = Tail(@), !.conflicts = IF copies[f] = found[f] THEN @ ELSE @ \cup {f}]
    /\ UNCHANGED <<copies, upstream, kept, found, amended, unseen, touched>>

Restored ==
    /\ turn.at = "restoring" /\ turn.done = <<>> /\ StepTo("failed")
    /\ UNCHANGED <<copies, upstream, kept, found, amended, unseen, touched>>

Over == {"idle", "failed", "reconciled", "dead"}

ReconcilerDies ==
    /\ turn.at \notin Over /\ StepTo("dead")
    /\ UNCHANGED <<copies, upstream, kept, found, amended, unseen, touched>>

----------------------------------------------------------------------------
(* Others *)

\* The file a rename is under way for.
Pending ==
    IF turn.at \in {"replacing", "publishing"} THEN {Head(turn.todo)}
    ELSE IF turn.at = "putting back" THEN {Head(turn.done)} ELSE {}

Amend(f, e) ==
    /\ turn.at \notin {"failed", "reconciled", "dead"}
    /\ \A g \in ItemSet : e \notin amended[g]
    /\ copies' = [copies EXCEPT ![f].edits = @ \cup {e}]
    /\ amended' = [amended EXCEPT ![f] = @ \cup {e}]
    /\ unseen' = unseen \cup IF f \in Pending THEN {e} ELSE {}
    /\ touched' = touched \cup {f}
    /\ UNCHANGED <<upstream, kept, turn, found>>

OriginChanges ==
    /\ turn.at \notin Over /\ upstream < MaxVersions /\ upstream' = upstream + 1
    /\ UNCHANGED <<copies, kept, turn, found, amended, unseen, touched>>

ReconcileNext ==
    \/ CheckProjection \/ ReadEverything \/ BackUpEverything \/ CheckAgain \/ Look \/ Rename \/ Confirm
    \/ Build \/ CheckBuilt \/ Finish \/ LookBack \/ PutBack \/ ConfirmBack \/ Restored \/ ReconcilerDies
    \/ \E f \in ItemSet, e \in Amendments : Amend(f, e)
    \/ OriginChanges

ReconcileSpec == ReconcileInit /\ [][ReconcileNext]_reconcileVars

\* However a reconciliation ends, alive or not, and whoever else writes: no
\* edit of somebody else is overwritten but in the instant between a look and
\* its rename; a file it has replaced is in its backup as it was read; and
\* unless it died, all files that nobody else wrote stand for one version, the
\* new one if it succeeded, the old one if it failed, or are named as conflicts.
ReconcilesOrRestores ==
    /\ \A f \in ItemSet : amended[f] \ unseen \subseteq copies[f].edits
    /\ \A f \in ItemSet : copies[f].version # 0 => \E k \in kept : k[f] = found[f]
    /\ \A f \in ItemSet \ (touched \cup turn.conflicts) :
         /\ turn.at = "reconciled" => copies[f] = Made(f)
         /\ turn.at = "failed" /\ kept # {} => copies[f] = found[f]
=============================================================================

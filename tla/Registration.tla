---------------------------- MODULE Registration ----------------------------
(***************************************************************************)
(* Hooks are registered in the settings file of the user's agent:          *)
(* src/scripts/register-hook.js under the transaction of an installation   *)
(* (src/bin/install.sh), and the scripts that register one optional hook   *)
(* each.  Registrars, the user and other programs write the same file.     *)
(*                                                                         *)
(* A registrar reads, merges, backs up, and renames a new file into place; *)
(* under a transaction it first records what a rollback may expect, and    *)
(* looks at the file again.  Every file operation is a step of its own; a  *)
(* registrar may die after any of them, which makes the installation roll  *)
(* back.  A setting is a hook of ours in its place, or a foreign edit.     *)
(***************************************************************************)
EXTENDS FiniteSets, Sequences, SequencesExt

CONSTANTS
    Installers,   \* installations, each with a transaction of its own
    Scripts,      \* runs of the scripts without a transaction
    ForeignEdits  \* edits of the file by somebody else

OptionalHooks == {"title", "rabbit", "completion"}
Registrars == Installers \cup Scripts

ASSUME RegistrationAssumption == Installers \cap Scripts = {}

VARIABLES
    settings,   \* the settings file
    backups,    \* contents copied to backup files
    record,     \* per installer: the record of its transaction, {} or {[before, previous, after]}
    work,       \* per registrar: its step, what is left to register, what it read and made
    edited,     \* foreign edits made
    exposed,    \* those made after somebody's last look and before its rename
    original,   \* per installer: the file it found
    disturbed   \* installers during or after whose work somebody else wrote

registrationVars == <<settings, backups, record, work, edited, exposed, original, disturbed>>

NoFile == [exists |-> FALSE, prompt |-> <<>>, stop |-> <<>>, foreign |-> {}, valid |-> TRUE]
NoWork == [at |-> "idle", left |-> <<>>, previous |-> NoFile, content |-> NoFile]

\* dispatch and rabbit share one event, title and completion another.
With(hooks, hook, remove) ==
    SelectSeq(hooks, LAMBDA h : h # hook) \o IF remove THEN <<>> ELSE <<hook>>

\* A hook of ours is stripped and added at the end; nothing else is touched.
Merge(s, hook, remove) ==
    IF hook \in {"dispatch", "rabbit"}
    THEN [s EXCEPT !.exists = TRUE, !.prompt = With(@, hook, remove)]
    ELSE [s EXCEPT !.exists = TRUE, !.stop = With(@, hook, remove)]

RegistrationInit ==
    /\ settings \in {NoFile, [NoFile EXCEPT !.exists = TRUE, !.prompt = <<"rabbit">>]}
    /\ backups = {} /\ record = [i \in Installers |-> {}]
    /\ work = [r \in Registrars |-> NoWork]
    /\ edited = {} /\ exposed = {}
    /\ original = [i \in Installers |-> NoFile] /\ disturbed = {}

MoveTo(r, place) == work' = [work EXCEPT ![r].at = place]

\* Nobody but i wrote.
Writes(r, s) ==
    /\ settings' = s
    /\ disturbed' = disturbed \cup {i \in Installers \ {r} : work[i].at # "idle"}

\* backupExisting
BackedUp == backups' = backups \cup IF settings.exists THEN {settings} ELSE {}

----------------------------------------------------------------------------
(* A registration under a transaction *)

BeginInstall(i) ==
    /\ work[i].at = "idle"
    /\ \E hooks \in {<<"dispatch">>, <<"dispatch", "title">>, <<"dispatch", "title", "rabbit">>} :
         work' = [work EXCEPT ![i].at = "ready", ![i].left = hooks]
    /\ original' = [original EXCEPT ![i] = settings]
    /\ UNCHANGED <<settings, backups, record, edited, exposed, disturbed>>

\* The file is read and the hook merged; one that is no settings is refused.
ReadSettings(i) ==
    /\ work[i].at = "ready"
    /\ work' = [work EXCEPT ![i].at = IF settings.valid THEN "read" ELSE "failed",
                  ![i].previous = settings, ![i].content = Merge(settings, Head(work[i].left), FALSE)]
    /\ UNCHANGED <<settings, backups, record, edited, exposed, original, disturbed>>

\* The next registrar, or the test of the installation.
NextHook(i) ==
    work' = [work EXCEPT ![i].at = IF Len(work[i].left) > 1 THEN "ready" ELSE "testing", ![i].left = Tail(@),
                         ![i].previous = NoFile, ![i].content = NoFile]

\* A file that has changed since, or that the transaction has not left so, is
\* refused; one that needs no change is left alone.
Prepare(i) ==
    LET w == work[i] IN
    /\ w.at = "read"
    /\ IF settings # w.previous \/ \E t \in record[i] : t.after # w.previous
       THEN MoveTo(i, "failed")
       ELSE IF w.previous = w.content THEN NextHook(i) ELSE MoveTo(i, "prepared")
    /\ UNCHANGED <<settings, backups, record, edited, exposed, original, disturbed>>

BackUp(i) ==
    /\ work[i].at = "prepared" /\ MoveTo(i, "backed up") /\ BackedUp
    /\ UNCHANGED <<settings, record, edited, exposed, original, disturbed>>

\* Both states of the file that the following write may leave are expected.
RecordTransaction(i) ==
    LET w == work[i] IN
    /\ w.at = "backed up" /\ MoveTo(i, "recorded")
    /\ record' = [record EXCEPT ![i] =
         {[before |-> IF @ = {} THEN w.previous ELSE (CHOOSE t \in @ : TRUE).before,
           previous |-> w.previous, after |-> w.content]}]
    /\ UNCHANGED <<settings, backups, edited, exposed, original, disturbed>>

\* Changed form of LookAgain: the file is not looked at again.
LookAgain_Not(i) ==
    /\ work[i].at = "recorded"
    /\ MoveTo(i, "looked")
    /\ UNCHANGED <<settings, backups, record, edited, exposed, original, disturbed>>

LookAgain(i) ==
    /\ work[i].at = "recorded"
    /\ MoveTo(i, IF settings = work[i].previous THEN "looked" ELSE "failed")
    /\ UNCHANGED <<settings, backups, record, edited, exposed, original, disturbed>>

Replace(i) ==
    /\ work[i].at = "looked" /\ Writes(i, work[i].content) /\ NextHook(i)
    /\ UNCHANGED <<backups, record, edited, exposed, original>>

Registering == {"ready", "read", "prepared", "backed up", "recorded", "looked", "testing"}

\* A registrar fails or dies, or the installed hook does not answer.
InstallFails(i) ==
    /\ work[i].at \in Registering /\ MoveTo(i, "failed")
    /\ UNCHANGED <<settings, backups, record, edited, exposed, original, disturbed>>

\* The record is removed with the directory of the transaction.
Installed(i) ==
    /\ work[i].at = "testing"
    /\ work' = [work EXCEPT ![i] = [NoWork EXCEPT !.at = "installed"]]
    /\ record' = [record EXCEPT ![i] = {}]
    /\ UNCHANGED <<settings, backups, edited, exposed, original, disturbed>>

----------------------------------------------------------------------------
(* The rollback of a failed installation *)

\* What the file may be for a rollback.
Expected(t) == {t.after, t.previous}

BeginRollback(i) ==
    /\ work[i].at = "failed"
    /\ work' = [work EXCEPT ![i] = [NoWork EXCEPT !.previous = settings, !.at =
         IF record[i] = {} THEN "restored"
         ELSE IF \A t \in record[i] : settings \in Expected(t) THEN "undoing" ELSE "refused"]]
    /\ UNCHANGED <<settings, backups, record, edited, exposed, original, disturbed>>

BackUpAgain(i) ==
    /\ work[i].at = "undoing" /\ MoveTo(i, "undo backed up") /\ BackedUp
    /\ UNCHANGED <<settings, record, edited, exposed, original, disturbed>>

LookBefore(i) ==
    /\ work[i].at = "undo backed up"
    /\ MoveTo(i, IF settings = work[i].previous THEN "undo looked" ELSE "refused")
    /\ UNCHANGED <<settings, backups, record, edited, exposed, original, disturbed>>

Restore(i) ==
    /\ work[i].at = "undo looked"
    /\ Writes(i, (CHOOSE t \in record[i] : TRUE).before)
    /\ work' = [work EXCEPT ![i] = [NoWork EXCEPT !.at = "restored"]]
    /\ record' = [record EXCEPT ![i] = {}]
    /\ UNCHANGED <<backups, edited, exposed, original>>

\* The rollback fails or dies, and the record stays for the user.
RollbackFails(i) ==
    /\ work[i].at \in {"undoing", "undo backed up", "undo looked"} /\ MoveTo(i, "stuck")
    /\ UNCHANGED <<settings, backups, record, edited, exposed, original, disturbed>>

----------------------------------------------------------------------------
(* A script of one optional hook: it does not look at the file again. *)

ReadForScript(s) ==
    /\ work[s].at = "idle"
    /\ \E hook \in OptionalHooks, remove \in BOOLEAN :
         work' = [work EXCEPT ![s] = [NoWork EXCEPT !.at = IF settings.valid THEN "read" ELSE "ended",
                                        !.content = Merge(settings, hook, remove)]]
    /\ UNCHANGED <<settings, backups, record, edited, exposed, original, disturbed>>

BackUpForScript(s) ==
    /\ work[s].at = "read" /\ MoveTo(s, "looked") /\ BackedUp
    /\ UNCHANGED <<settings, record, edited, exposed, original, disturbed>>

ReplaceForScript(s) ==
    /\ work[s].at = "looked" /\ Writes(s, work[s].content)
    /\ work' = [work EXCEPT ![s] = [NoWork EXCEPT !.at = "ended"]]
    /\ UNCHANGED <<backups, record, edited, exposed, original>>

ScriptDies(s) ==
    /\ work[s].at \in {"read", "looked"} /\ MoveTo(s, "ended")
    /\ UNCHANGED <<settings, backups, record, edited, exposed, original, disturbed>>

----------------------------------------------------------------------------

Looked == {r \in Registrars : work[r].at \in {"looked", "undo looked"}}

\* Somebody edits the file, perhaps into something that is no settings.
EditSettings(e) ==
    /\ e \notin edited
    /\ \E valid \in BOOLEAN :
         settings' = [settings EXCEPT !.exists = TRUE, !.foreign = @ \cup {e}, !.valid = valid]
    /\ edited' = edited \cup {e} /\ exposed' = exposed \cup IF Looked = {} THEN {} ELSE {e}
    /\ disturbed' = disturbed \cup {i \in Installers : work[i].at # "idle"}
    /\ UNCHANGED <<backups, record, work, original>>

RegistrationNext ==
    \/ \E i \in Installers :
         \/ BeginInstall(i) \/ ReadSettings(i) \/ Prepare(i) \/ BackUp(i) \/ RecordTransaction(i)
         \/ LookAgain(i) \/ Replace(i) \/ InstallFails(i) \/ Installed(i)
         \/ BeginRollback(i) \/ BackUpAgain(i) \/ LookBefore(i) \/ Restore(i) \/ RollbackFails(i)
    \/ \E s \in Scripts : ReadForScript(s) \/ BackUpForScript(s) \/ ReplaceForScript(s) \/ ScriptDies(s)
    \/ \E e \in ForeignEdits : EditSettings(e)

RegistrationSpec == RegistrationInit /\ [][RegistrationNext]_registrationVars

----------------------------------------------------------------------------

\* The safety contract of register-hook.js, "NEVER overwrites the file": an
\* edit of somebody else is still in the file, or at least in a backup, however
\* registrars, scripts and rollbacks overlap and die; unless it was made in the
\* instant between somebody's last look at the file and its rename.
EditsSurvive ==
    \A e \in edited : e \in exposed \/ \E s \in backups \cup {settings} : e \in s.foreign

\* "Both expected states are rollback-safe if the following atomic write
\* fails": an installation that fails anywhere, after any number of hooks,
\* leaves the file as it found it; only where somebody else wrote meanwhile may
\* the rollback be refused.
RollbackIsSafe ==
    \A i \in Installers \ disturbed :
      /\ work[i].at = "restored" => settings = original[i]
      /\ work[i].at # "refused"

\* Installing and uninstalling cost nobody anything: neither the others, their
\* edits, nor the user who asked, the file there was.
SettingsHold == EditsSurvive /\ RollbackIsSafe
=============================================================================

--------------------------- MODULE SearchService ---------------------------
(***************************************************************************)
(* The freshness service is enabled and disabled: the operations of        *)
(* src/packages/local-search/service.js, launchd, and the start of the     *)
(* runner it keeps alive (service-runner.js; the rest of the runner is     *)
(* SearchFreshness).                                                       *)
(*                                                                         *)
(* Three files stand for a service: the plist, a receipt and a marker with *)
(* the generation of its launch, acknowledged by its runner.  Operations   *)
(* follow one another, nothing in the code keeps two apart; each may be    *)
(* killed between any two steps (bin/myos-search-service.js allows it 15   *)
(* seconds).  What the files hold beside the generation is left out.       *)
(***************************************************************************)
EXTENDS Naturals, Sequences

CONSTANTS
    MaxOperations,  \* operations asked for; each enable has its generation
    MaxTrouble      \* launchctl calls, file operations and operators that fail

ASSUME ServiceAssumption == MaxOperations \in Nat /\ MaxTrouble \in Nat

VARIABLES
    files,        \* plist: whether it exists; receipt: its generation; marker:
                  \* its generation and the acknowledged one (0: none)
    registration, \* of launchd: "absent", "loaded", "leaving" after a bootout
    daemon,       \* the process of the runner: its step, its receipt's generation
    beat,         \* the status file: its phase, "old" before this launch
    op,           \* the operation under way: its step, generation, files made
    promised,     \* what the last operation answered: "on", "off" or "nothing"
    spent         \* operations asked for, troubles met

serviceVars == <<files, registration, daemon, beat, op, promised, spent>>

None == [gen |-> 0, ack |-> 0]
NoWorker == [at |-> "none", gen |-> 0]
NoOperation == [at |-> "idle", gen |-> 0, made |-> <<>>]

ServiceInit ==
    /\ files = [plist |-> FALSE, receipt |-> 0, marker |-> None]
    /\ registration = "absent" /\ daemon = NoWorker /\ beat = "none" /\ op = NoOperation
    /\ promised = "nothing" /\ spent = [operations |-> 0, trouble |-> 0]

\* A call fails, or answers what tells nothing.
Trouble == spent.trouble < MaxTrouble /\ spent' = [spent EXCEPT !.trouble = @ + 1]

\* validateReceipt: the plist is the one of the receipt, and so is the marker
\* if there is one.
Valid == files.receipt # 0 /\ files.plist /\ (files.marker = None \/ files.marker.gen = files.receipt)

Leftovers == files.receipt = 0 /\ (files.plist \/ files.marker # None)

Proceeds(step) == op' = [op EXCEPT !.at = step]
Answer(promise) == op' = NoOperation /\ promised' = promise

----------------------------------------------------------------------------
(* enable *)

\* What it finds first: artifacts without their receipt are not ours.
BeginEnable ==
    /\ op.at = "idle" /\ spent.operations < MaxOperations
    /\ spent' = [spent EXCEPT !.operations = @ + 1]
    /\ IF Leftovers \/ (files.receipt # 0 /\ ~Valid)
       THEN Answer("nothing")
       ELSE op' = [NoOperation EXCEPT !.at = "looking", !.gen = files.receipt] /\ promised' = "nothing"
    /\ UNCHANGED <<files, registration, daemon, beat>>

\* launchctl print: a registration without a receipt, or none that can be
\* told, is refused; one of ours is only waited for; none is to be made.
LookUp ==
    /\ op.at = "looking"
    /\ \/ Trouble /\ Answer("nothing") /\ UNCHANGED beat
       \/ /\ registration # "absent" /\ UNCHANGED <<spent, beat>>
          /\ IF op.gen = 0 THEN Answer("nothing") ELSE Proceeds("joining") /\ UNCHANGED promised
       \/ /\ registration = "absent" /\ UNCHANGED <<spent, promised>>
          /\ beat' = IF beat = "none" THEN beat ELSE "old"
          /\ op' = [op EXCEPT !.at = IF op.gen = 0 THEN "plist" ELSE "receipt", !.gen = spent.operations]
    /\ UNCHANGED <<files, registration, daemon>>

Wrote(made, next) == op' = [op EXCEPT !.at = next, !.made = made \o @]

\* The plist, the receipt and the marker are created in this order; the last
\* two are replaced if the service has a receipt.
WriteArtifact ==
    /\ \/ /\ op.at = "plist" /\ files' = [files EXCEPT !.plist = TRUE] /\ Wrote(<<"plist">>, "receipt")
       \/ /\ op.at = "receipt" /\ files' = [files EXCEPT !.receipt = op.gen]
          /\ Wrote(IF files.receipt = 0 THEN <<"receipt">> ELSE <<>>, "marker")
       \/ /\ op.at = "marker" /\ files' = [files EXCEPT !.marker = [gen |-> op.gen, ack |-> 0]]
          /\ Wrote(IF files.marker = None THEN <<"marker">> ELSE <<>>, "bootstrap")
    /\ UNCHANGED <<registration, daemon, beat, promised, spent>>

WriteFails ==
    /\ op.at \in {"plist", "receipt", "marker"} /\ Trouble /\ Proceeds("bootout")
    /\ UNCHANGED <<files, registration, daemon, beat, promised>>

\* launchctl bootstrap loads the plist and starts its runner, or fails with or
\* without having done so.
Bootstrap ==
    /\ op.at = "bootstrap"
    /\ \/ registration = "absent" /\ Proceeds("waiting") /\ UNCHANGED spent
       \/ Trouble /\ Proceeds("bootout")
    /\ \/ registration' = "loaded" /\ daemon' = [NoWorker EXCEPT !.at = "starting"]
       \/ op'.at = "bootout" /\ UNCHANGED <<registration, daemon>>
    /\ UNCHANGED <<files, beat, promised>>

\* waitForAck: launched, acknowledged, and seen well since.
Acknowledged ==
    /\ registration # "absent" /\ files.marker = [gen |-> op.gen, ack |-> op.gen]
    /\ beat \in {"starting", "watching", "paused"}

\* One that joins a label an operation booted out and was then killed says
\* the same of a runner about to end; no property speaks of that answer.
EnableSucceeds ==
    /\ op.at \in {"waiting", "joining"} /\ Acknowledged
    /\ Answer(IF registration = "loaded" THEN "on" ELSE "nothing")
    /\ UNCHANGED <<files, registration, daemon, beat, spent>>

\* The deadline of waitForAck: a launch of our own is undone, a registration
\* found is left as it is.
EnableTimesOut ==
    /\ \/ op.at = "waiting" /\ Proceeds("bootout") /\ UNCHANGED promised
       \/ op.at = "joining" /\ Answer("nothing")
    /\ UNCHANGED <<files, registration, daemon, beat, spent>>

----------------------------------------------------------------------------
(* disable *)

BeginDisable ==
    /\ op.at = "idle" /\ spent.operations < MaxOperations
    /\ spent' = [spent EXCEPT !.operations = @ + 1]
    /\ CASE Leftovers -> Answer("nothing")
         [] files.receipt = 0 /\ ~Leftovers -> Answer("off")
         [] files.receipt # 0 /\ ~Valid -> Answer("nothing")
         [] OTHER -> Proceeds("asking") /\ promised' = "nothing"
    /\ UNCHANGED <<files, registration, daemon, beat>>

\* An answer that tells nothing counts as no registration here, for the
\* verification follows.
AskBeforeStop ==
    /\ op.at = "asking"
    /\ \/ Trouble /\ Proceeds("verifying")
       \/ UNCHANGED spent /\ Proceeds(IF registration = "absent" THEN "verifying" ELSE "stopping")
    /\ UNCHANGED <<files, registration, daemon, beat, promised>>

----------------------------------------------------------------------------
(* Stopping, for both *)

\* launchctl bootout: the label leaves, its process is told to stop.  When
\* nothing is registered it may answer either way.
Bootout ==
    /\ op.at \in {"bootout", "stopping"}
    /\ \/ /\ Proceeds(IF op.at = "bootout" THEN "undoing" ELSE "verifying")
          /\ registration' = (IF registration = "absent" THEN "absent" ELSE "leaving")
          /\ UNCHANGED <<spent, promised>>
       \/ Trouble /\ Answer("nothing") /\ UNCHANGED registration
       \/ registration = "absent" /\ Answer("nothing") /\ UNCHANGED <<registration, spent>>
    /\ UNCHANGED <<files, daemon, beat>>

\* Changed form of Unregistered: a label on its way out is taken for gone.
Unregistered_NotLoaded == registration # "loaded"

\* verifyStopped: launchd says that the label, and with it the process, is gone.
Unregistered == registration = "absent"

VerifyStopped ==
    /\ \/ op.at = "undoing" /\ Unregistered /\ Proceeds("removing")
       \/ op.at = "verifying" /\ Unregistered /\ op' = [op EXCEPT !.at = "removing", !.made = <<"marker", "plist", "receipt">>]
    /\ UNCHANGED <<files, registration, daemon, beat, promised, spent>>

\* Its deadline: rollbackIncomplete, stopVerificationFailed.
NotStopped ==
    /\ op.at \in {"undoing", "verifying"} /\ registration # "absent" /\ Answer("nothing")
    /\ UNCHANGED <<files, registration, daemon, beat, spent>>

Without(f) ==
    CASE f = "plist" -> [files EXCEPT !.plist = FALSE]
      [] f = "receipt" -> [files EXCEPT !.receipt = 0]
      [] f = "marker" -> [files EXCEPT !.marker = None]

\* The artifacts go one by one, those of the operation in reverse order.
RemoveArtifact ==
    /\ op.at = "removing" /\ op.made # <<>>
    /\ \/ files' = Without(Head(op.made)) /\ op' = [op EXCEPT !.made = Tail(@)] /\ UNCHANGED <<promised, spent>>
       \/ Trouble /\ Answer("nothing") /\ UNCHANGED files
    /\ UNCHANGED <<registration, daemon, beat>>

\* An enable that was undone fails; a disable publishes that it is off.
Removed ==
    /\ op.at = "removing" /\ op.made = <<>>
    /\ \/ op.gen # 0 /\ Answer("nothing") /\ UNCHANGED <<beat, spent>>
       \/ op.gen = 0 /\ Answer("off") /\ beat' = "disabled" /\ UNCHANGED spent
       \/ op.gen = 0 /\ Trouble /\ Answer("nothing") /\ UNCHANGED beat
    /\ UNCHANGED <<files, registration, daemon>>

\* The command is killed with its operation half done.
OperatorDies ==
    /\ op.at # "idle" /\ Trouble /\ op' = NoOperation
    /\ UNCHANGED <<files, registration, daemon, beat, promised>>

----------------------------------------------------------------------------
(* The runner, under launchd *)

\* KeepAlive: launched again as long as the marker exists.
Relaunch ==
    /\ registration = "loaded" /\ daemon.at = "none" /\ files.marker # None
    /\ daemon' = [NoWorker EXCEPT !.at = "starting"]
    /\ UNCHANGED <<files, registration, beat, op, promised, spent>>

\* The receipt and the marker are checked, and a first heartbeat published; a
\* runner that does not find them says so and ends.
CheckReceipt ==
    /\ daemon.at = "starting"
    /\ IF Valid /\ files.marker # None
       THEN daemon' = [at |-> "checked", gen |-> files.receipt] /\ beat' = "starting"
       ELSE daemon' = NoWorker /\ beat' = "degraded"
    /\ UNCHANGED <<files, registration, op, promised, spent>>

ReadMarker ==
    /\ daemon.at = "checked"
    /\ IF files.marker.gen = daemon.gen
       THEN daemon' = [daemon EXCEPT !.at = "acknowledging"] /\ UNCHANGED beat
       ELSE daemon' = NoWorker /\ beat' = "degraded"
    /\ UNCHANGED <<files, registration, op, promised, spent>>

AcknowledgeLaunch ==
    /\ daemon.at = "acknowledging"
    /\ IF files.marker # None
       THEN /\ files' = [files EXCEPT !.marker = [gen |-> daemon.gen, ack |-> daemon.gen]]
            /\ daemon' = [daemon EXCEPT !.at = "up"] /\ UNCHANGED beat
       ELSE daemon' = NoWorker /\ beat' = "degraded" /\ UNCHANGED files
    /\ UNCHANGED <<registration, op, promised, spent>>

Heartbeat ==
    /\ daemon.at = "up" /\ beat' \in {"watching", "paused", "degraded"}
    /\ UNCHANGED <<files, registration, daemon, op, promised, spent>>

\* It ends, told to or not, with or without a last word; launchd forgets a
\* label that was booted out when its process is gone.
WorkerEnds ==
    /\ daemon.at # "none" /\ daemon' = NoWorker
    /\ beat' \in {beat, "stopped", "degraded"}
    /\ UNCHANGED <<files, registration, op, promised, spent>>

LabelGone ==
    /\ registration = "leaving" /\ daemon.at = "none" /\ registration' = "absent"
    /\ UNCHANGED <<files, daemon, beat, op, promised, spent>>

\* The user logs out, which ends everything, and in: launchd loads the plist.
LogInAgain ==
    /\ Trouble /\ op' = NoOperation
    /\ IF files.plist
       THEN registration' = "loaded" /\ daemon' = [NoWorker EXCEPT !.at = "starting"]
       ELSE registration' = "absent" /\ daemon' = NoWorker
    /\ UNCHANGED <<files, beat, promised>>

----------------------------------------------------------------------------

ServiceNext ==
    \/ BeginEnable \/ LookUp \/ WriteArtifact \/ WriteFails \/ Bootstrap \/ EnableSucceeds \/ EnableTimesOut
    \/ BeginDisable \/ AskBeforeStop
    \/ Bootout \/ VerifyStopped \/ NotStopped \/ RemoveArtifact \/ Removed \/ OperatorDies
    \/ Relaunch \/ CheckReceipt \/ ReadMarker \/ AcknowledgeLaunch \/ Heartbeat \/ WorkerEnds \/ LabelGone
    \/ LogInAgain

ServiceSpec == ServiceInit /\ [][ServiceNext]_serviceVars

\* status: what a user is told, the phase of the runner if nothing is amiss.
StatusAnswer ==
    CASE files.receipt = 0 -> "serviceNotEnabled"
      [] files.receipt # 0 /\ (~Valid \/ files.marker = None) -> "ownershipCollision"
      [] Valid /\ files.marker # None /\ files.marker.ack # files.receipt -> "missingHeartbeat"
      [] Valid /\ files.marker # None /\ files.marker.ack = files.receipt /\ registration = "absent" -> "registrationMissing"
      [] OTHER -> IF beat \in {"none", "old"} THEN "missingHeartbeat" ELSE beat

\* What a runner has checked stays so while it lives: no operation, whatever
\* fails or is killed half way, replaces or removes the receipt and the marker
\* of a process that has not been seen to end.
RunnersAreOwned ==
    daemon.at \in {"checked", "acknowledging", "up"} =>
        files.plist /\ files.receipt = daemon.gen /\ files.marker.gen = daemon.gen

\* An answer stands until the next operation, over crashes of the runner and
\* a new login: after a successful enable the status is that of the runner it
\* saw acknowledged, after a successful disable nothing runs, is registered or
\* would be at the next login.
AnswersStand ==
    /\ promised = "on" => StatusAnswer \in {"starting", "watching", "paused", "degraded", "stopped"}
    /\ promised = "off" => /\ registration = "absent" /\ daemon.at = "none" /\ ~files.plist
                           /\ StatusAnswer = "serviceNotEnabled"

\* Neither the runner nor the user is told what the other's files no longer say.
ServiceIsAsTold == RunnersAreOwned /\ AnswersStand
=============================================================================

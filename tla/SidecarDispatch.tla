--------------------------- MODULE SidecarDispatch ---------------------------
(***************************************************************************)
(* One dispatch with its background sidecars: dispatchTaskWithBackground   *)
(* of src/src/task-dispatcher.js, startBackgroundTasks and                 *)
(* runBackgroundTask of src/src/background/background-agent-runner.js,     *)
(* the slot semaphore of SidecarSlots, and the OAuth model registry as far *)
(* as a failing sidecar uses it.                                           *)
(*                                                                         *)
(* What one provider process does is CommandTeardown's business: here it   *)
(* ends with one of four outcomes.  The registry is the set of models in   *)
(* quarantine; other processes change it at any time.                      *)
(***************************************************************************)
EXTENDS Naturals, Sequences, FiniteSets

CONSTANTS
    Order,      \* plan.backgroundTasks, in plan order
    Required,   \* tasks with required === true
    Writable,   \* tasks with mode "workspace_write"
    Pinned,     \* tasks with a model of their own
    Limit,      \* MYOS_BACKGROUND_MAX_CONCURRENT
    Policy,     \* CODEX_CLASS_POLICY models of the task class, best first
    Recovery    \* TRUE when runBackgroundTask reads an OAuth registry

Tasks == {Order[i] : i \in 1..Len(Order)}
Models == {Policy[i] : i \in 1..Len(Policy)}
Own == "own"     \* the model a pinned task names
NoModel == "none"

ASSUME PlanAssumption ==
    /\ Order \in Seq(Tasks) /\ Required \cup Writable \cup Pinned \subseteq Tasks
    /\ \A i, j \in 1..Len(Order) : Order[i] = Order[j] => i = j
    /\ Limit \in 1..20 /\ Recovery \in BOOLEAN /\ Policy \in Seq(Models)

VARIABLES
    dispatch,     \* where dispatchTaskWithBackground is
    started,      \* how many tasks startBackgroundTasks has mapped
    place,        \* per task: where runBackgroundTask is
    slot, active, waiters,   \* the variables of SidecarSlots
    model,        \* per task: the model of its invocation
    attempt,      \* per task: provider runs so far
    outcome,      \* per task: how its last provider run ended
    late,         \* tasks whose deadline has passed
    captured,     \* tasks whose patch was captured and verified
    result,       \* per task: status of the result, "none" before it
    quarantined,  \* models with a quarantineUntil in the future
    gathered,     \* tasks whose results the required promise delivered
    persisted,    \* tasks whose results are in the sidecar-results file
    unsaved,      \* whether the last write of that file failed
    answer        \* what the dispatch result reports of its sidecars

slots == <<slot, active, waiters>>
tasks == <<place, model, attempt, outcome, late, captured, result>>
caller == <<dispatch, started, gathered, persisted, unsaved, answer>>
vars == <<slots, tasks, quarantined, caller>>

Slots == INSTANCE SidecarSlots
            WITH Calls <- Tasks, MaxOf <- [t \in Tasks |-> Limit], pc <- slot

Places == {"unstarted", "waiting", "running", "refreshing", "finished", "rejected"}
Statuses == {"none", "planned", "skipped", "failed", "completed", "needs-review"}
Outcomes == {"none", "ok", "unsupported", "failed", "cleanupFailed"}

\* "answered" leaves a handler behind, "closed" does not.
Stages == {"gate", "mapping", "required", "dispatching", "grace", "answered", "closed", "threw", "crashed"}

TypeOK ==
    /\ dispatch \in Stages
    /\ started \in 0..Len(Order)
    /\ place \in [Tasks -> Places]
    /\ model \in [Tasks -> Models \cup {Own, NoModel}]
    /\ attempt \in [Tasks -> 0..2]
    /\ outcome \in [Tasks -> Outcomes]
    /\ late \subseteq Tasks /\ captured \subseteq Tasks
    /\ result \in [Tasks -> Statuses]
    /\ quarantined \subseteq Models
    /\ gathered \subseteq Tasks /\ persisted \subseteq Tasks /\ unsaved \in BOOLEAN
    /\ answer \in [results : SUBSET Tasks, graceUsed : BOOLEAN]
    /\ Slots!TypeOK

Init ==
    /\ dispatch = "gate" /\ started = 0
    /\ place = [t \in Tasks |-> "unstarted"]
    /\ Slots!Init
    /\ model = [t \in Tasks |-> NoModel]
    /\ attempt = [t \in Tasks |-> 0]
    /\ outcome = [t \in Tasks |-> "none"]
    /\ late = {} /\ captured = {}
    /\ result = [t \in Tasks |-> "none"]
    /\ quarantined \in SUBSET Models
    /\ gathered = {} /\ persisted = {} /\ unsaved = FALSE
    /\ answer = [results |-> {}, graceUsed |-> FALSE]

Finished == {t \in Tasks : place[t] = "finished"}
Rejected == {t \in Tasks : place[t] = "rejected"}

\* startBackgroundTasks runs to its end before any other callback does, and
\* none does in a process that is gone.
Async == dispatch \notin {"gate", "mapping", "crashed"}

\* selectModels: the eligible models of the task class, of which the best one
\* is taken.
Eligible == Models \ quarantined
Best(models) ==
    Policy[CHOOSE i \in 1..Len(Policy) : Policy[i] \in models /\ \A j \in 1..(i - 1) : Policy[j] \notin models]

\* The run ends with a result; nothing else of the task changes.
Settle(t, status) ==
    /\ place' = [place EXCEPT ![t] = "finished"]
    /\ result' = [result EXCEPT ![t] = status]

-----------------------------------------------------------------------------
\* startBackgroundTasks

\* One of the gates answers for all tasks: switched off, not enabled or legacy
\* observe mode (planned); a sidecar's own fan-out, a loaded host or a provider
\* in quarantine (skipped).  Both promises then deliver every result.
GateClosed ==
    /\ dispatch = "gate"
    /\ \E status \in {"planned", "skipped"} : result' = [t \in Tasks |-> status]
    /\ place' = [t \in Tasks |-> "finished"]
    /\ started' = Len(Order)
    /\ gathered' = Tasks
    /\ dispatch' = "required"
    /\ UNCHANGED <<slots, model, attempt, outcome, late, captured, quarantined, persisted, unsaved, answer>>

GateOpen ==
    /\ dispatch = "gate"
    /\ dispatch' = IF Order = <<>> THEN "required" ELSE "mapping"
    /\ gathered' = Required
    /\ UNCHANGED <<slots, tasks, quarantined, started, persisted, unsaved, answer>>

Mapping(t) ==
    /\ dispatch = "mapping" /\ t = Order[started + 1]
    /\ started' = started + 1
    /\ dispatch' = IF started + 1 = Len(Order) THEN "required" ELSE "mapping"
    /\ UNCHANGED <<quarantined, gathered, persisted, unsaved, answer, late, captured, outcome, attempt>>

\* The task kind is in quarantine, or the invocation of a read-only task cannot
\* be built: skipped, even when the task is required.
MapSkipped(t) ==
    /\ Mapping(t)
    /\ Settle(t, "skipped")
    /\ UNCHANGED <<slots, model>>

\* A writable task without a usable worktree is refused: the repository is
\* dirty or writing is disabled (a failure only if required), or the request
\* is invalid (a failure).  A worktree whose invocation cannot be built is
\* kept, and the task fails.
MapRefused(t) ==
    /\ Mapping(t) /\ t \in Writable
    /\ \/ Settle(t, IF t \in Required THEN "failed" ELSE "skipped")
       \/ Settle(t, "failed")
    /\ UNCHANGED <<slots, model>>

\* resolveTaskModel: a task's own model, else the best eligible model; with a
\* registry and no eligible model the invocation cannot be built (MapSkipped,
\* MapRefused), without a registry the profile's default model is used.
Chosen(t) ==
    CASE t \in Pinned -> Own
      [] t \notin Pinned /\ Recovery -> Best(Eligible)
      [] OTHER -> Policy[1]

\* The invocation, with its model, is built before the slot is asked for, and
\* is not built again when the slot comes.
MapRun(t) ==
    /\ Mapping(t)
    /\ Recovery /\ t \notin Pinned => Eligible # {}
    /\ model' = [model EXCEPT ![t] = Chosen(t)]
    /\ \/ Slots!Take(t) /\ place' = [place EXCEPT ![t] = "running"]
       \/ Slots!Park(t) /\ place' = [place EXCEPT ![t] = "waiting"]
    /\ UNCHANGED result

-----------------------------------------------------------------------------
\* runBackgroundTask, from the slot on

Woken(t) ==
    /\ Async /\ slot[t] = "woken"
    /\ \/ Slots!Take(t) /\ place' = [place EXCEPT ![t] = "running"]
       \/ Slots!Park(t) /\ UNCHANGED place
    /\ UNCHANGED <<model, attempt, outcome, late, captured, result, quarantined, caller>>

\* The deadline counts from the start of the task, waiting included; what it
\* decides is whether a task may be retried.
DeadlinePasses(t) ==
    /\ Async /\ place[t] \in {"waiting", "running", "refreshing"} /\ t \notin late \cup Writable \cup Pinned
    /\ late' = late \cup {t}
    /\ UNCHANGED <<slots, place, model, attempt, outcome, captured, result, quarantined, caller>>


Conclude_CapturesAlways(t, end) ==
    /\ Slots!Release(t)
    /\ captured' = IF t \in Writable THEN captured \cup {t} ELSE captured
    /\ Settle(t, IF end # "ok" THEN "failed" ELSE IF t \in Writable THEN "needs-review" ELSE "completed")
    /\ UNCHANGED quarantined

\* What follows the attempt loop, in one callback: the finally releases the
\* slot; the patch of a writer whose processes are gone is collected; output
\* with an error or without a summary is not accepted; a success lifts the
\* quarantine of its model unless the registry is locked.
Conclude(t, end) ==
    /\ Slots!Release(t)
    /\ \E accepted, collected \in BOOLEAN :
        LET writes == t \in Writable
            ok == end = "ok" /\ accepted /\ (writes => collected)
        IN /\ accepted \/ writes \/ Recovery
           /\ captured' = IF writes /\ end # "cleanupFailed" /\ collected
                          THEN captured \cup {t} ELSE captured
           /\ Settle(t, CASE ~ok -> "failed"
                          [] ok /\ writes -> "needs-review"
                          [] OTHER -> "completed")
           /\ \/ UNCHANGED quarantined
              \/ ok /\ Recovery /\ quarantined' = quarantined \ {model[t]}

\* recordFailure puts an unsupported model in quarantine for an hour.
AfterFailure(t, end) ==
    IF end = "unsupported" THEN quarantined \cup ({model[t]} \cap Models) ELSE quarantined

\* The provider run ends.  Without a registry, or after a success, the loop
\* ends; so it does when the registry cannot be updated.  Otherwise the
\* failure is recorded and, time permitting, the registry is refreshed.
RunEnds(t, end) ==
    /\ Async /\ place[t] = "running"
    /\ attempt' = [attempt EXCEPT ![t] = @ + 1]
    /\ outcome' = [outcome EXCEPT ![t] = end]
    /\ \/ Conclude(t, end)
       \/ /\ Recovery /\ end # "ok"
          /\ quarantined' = AfterFailure(t, end)
          /\ place' = [place EXCEPT ![t] = "refreshing"]
          /\ UNCHANGED <<slots, captured, result>>
    /\ UNCHANGED <<model, late, caller>>

\* Changed form of Rejects: a throw leaves the slot taken.
Rejects_LeaksSlot(t) ==
    /\ Async /\ place[t] \in {"running", "refreshing"}
    /\ place' = [place EXCEPT ![t] = "rejected"]
    /\ dispatch' = IF dispatch \in {"grace", "answered", "closed"} THEN dispatch ELSE "crashed"
    /\ UNCHANGED <<slots, model, attempt, outcome, late, captured, result, quarantined, started, gathered,
                   persisted, unsaved, answer>>

\* The promise of the task is rejected: its output cannot be read (a line of
\* it is null), or the fallback cannot be invoked.  The finally releases the
\* slot.  Until the grace race nothing handles a rejection of allPromise, and
\* the process ends; from then on it is dropped.
Rejects(t) ==
    /\ Async /\ place[t] \in {"running", "refreshing"}
    /\ Slots!Release(t)
    /\ place' = [place EXCEPT ![t] = "rejected"]
    /\ dispatch' = IF dispatch \in {"grace", "answered", "closed"} THEN dispatch ELSE "crashed"
    /\ UNCHANGED <<model, attempt, outcome, late, captured, result, quarantined, started, gathered,
                   persisted, unsaved, answer>>

\* The eligible models other than the one that failed.
Fallbacks(t) == Eligible \ {model[t]}

MayRetry(t) ==
    /\ attempt[t] = 1
    /\ t \notin Writable \cup Pinned
    /\ outcome[t] = "unsupported"
    /\ t \notin late
    /\ Fallbacks(t) # {}

\* After the refresh: one more run with the fallback, in the same slot.
Retry(t) ==
    /\ Async /\ place[t] = "refreshing" /\ MayRetry(t)
    /\ model' = [model EXCEPT ![t] = Best(Fallbacks(t))]
    /\ place' = [place EXCEPT ![t] = "running"]
    /\ UNCHANGED <<slots, attempt, outcome, late, captured, result, quarantined, caller>>

\* No retry, or the refresh itself failed: the first failure stands.
StopRetrying(t) ==
    /\ Async /\ place[t] = "refreshing"
    /\ Conclude(t, outcome[t])
    /\ UNCHANGED <<model, attempt, outcome, late, caller>>

\* Other processes record failures and successes, quarantines expire.
OthersChangeRegistry ==
    /\ Async /\ Recovery
    /\ \E m \in Models : quarantined' \in {quarantined \cup {m}, quarantined \ {m}}
    /\ UNCHANGED <<slots, tasks, caller>>

-----------------------------------------------------------------------------
\* dispatchTaskWithBackground

\* persistSidecarResults replaces the file, unless there is nothing to write.
\* Its failure is swallowed: the file is then as it was, or no longer readable.
Persist(results) ==
    \/ results = {} /\ UNCHANGED <<persisted, unsaved>>
    \/ results # {} /\ persisted' = results /\ unsaved' = FALSE
    \/ results # {} /\ persisted' \in {persisted, {}} /\ unsaved' = TRUE

\* requiredPromise is fulfilled.
RequiredSettled ==
    /\ dispatch = "required" /\ gathered \subseteq Finished
    /\ Persist(gathered)
    /\ dispatch' = "dispatching"
    /\ UNCHANGED <<slots, tasks, quarantined, started, gathered, answer>>

\* dispatchTask(request) returns, or throws to the caller.
Dispatched ==
    /\ dispatch = "dispatching"
    /\ dispatch' \in {"grace", "threw"}
    /\ UNCHANGED <<slots, tasks, quarantined, started, gathered, persisted, unsaved, answer>>

\* allPromise wins the race.
AllInGrace ==
    /\ dispatch = "grace" /\ Finished = Tasks
    /\ Persist(Tasks)
    /\ answer' = [results |-> Tasks, graceUsed |-> FALSE]
    /\ dispatch' = "closed"
    /\ UNCHANGED <<slots, tasks, quarantined, started, gathered>>

\* Changed form of GraceExpires: the answer does not say that it is partial.
GraceExpires_Silent ==
    /\ dispatch = "grace" /\ Tasks # {}
    /\ Persist(gathered)
    /\ answer' = [results |-> gathered, graceUsed |-> FALSE]
    /\ dispatch' = "answered"
    /\ UNCHANGED <<slots, tasks, quarantined, started, gathered>>

\* The grace timer wins, or a rejected task settles the race for it: the answer
\* carries the required results only.
GraceExpires ==
    /\ dispatch = "grace" /\ Tasks # {}
    /\ Persist(gathered)
    /\ answer' = [results |-> gathered, graceUsed |-> TRUE]
    /\ dispatch' = "answered"
    /\ UNCHANGED <<slots, tasks, quarantined, started, gathered>>

\* Changed form of LatePersist: the handler is left behind when the race was
\* won instead of lost.
LatePersist_WrongBranch ==
    /\ dispatch = "answered" /\ ~answer.graceUsed /\ Finished = Tasks
    /\ Persist(Tasks)
    /\ dispatch' = "closed"
    /\ UNCHANGED <<slots, tasks, quarantined, started, gathered, answer>>

\* The handler left behind when the race was lost: it writes all results, or
\* drops them all when one task was rejected.
LatePersist ==
    /\ dispatch = "answered"
    /\ \/ Finished = Tasks /\ Persist(Tasks)
       \/ Rejected # {} /\ UNCHANGED <<persisted, unsaved>>
    /\ dispatch' = "closed"
    /\ UNCHANGED <<slots, tasks, quarantined, started, gathered, answer>>

Ends == Outcomes \ {"none"}

TaskStep(t) ==
    \/ MapSkipped(t) \/ MapRefused(t) \/ MapRun(t)
    \/ Woken(t) \/ Retry(t) \/ StopRetrying(t) \/ Rejects(t)
    \/ \E end \in Ends : RunEnds(t, end)

Next ==
    \/ GateClosed \/ GateOpen
    \/ \E t \in Tasks : TaskStep(t) \/ DeadlinePasses(t)
    \/ OthersChangeRegistry
    \/ RequiredSettled \/ Dispatched \/ AllInGrace \/ GraceExpires \/ LatePersist

\* Callbacks run, provider runs end (CommandTeardown!AlwaysSettles), refreshes
\* are bounded, dispatchTask returns and timers fire.
Spec ==
    /\ Init /\ [][Next]_vars
    /\ WF_vars(GateClosed \/ GateOpen)
    /\ \A t \in Tasks : WF_vars(TaskStep(t))
    /\ WF_vars(RequiredSettled) /\ WF_vars(Dispatched)
    /\ WF_vars(AllInGrace \/ GraceExpires) /\ WF_vars(LatePersist)

-----------------------------------------------------------------------------
\* However a run ends, retried, rejected or failed in any of its writes, its
\* slot is given back with it: the slots taken are those of the tasks at work,
\* there are never more than the limit, and no task is parked while one of them
\* is idle and nobody woken is about to take it.
SlotsFollowRuns ==
    /\ Slots!At("holding") = {t \in Tasks : place[t] \in {"running", "refreshing"}}
    /\ Slots!CountsHolders /\ active <= Limit
    /\ Slots!WorkConserving

\* docs/oauth-recovery.md: "Before a queued default is used, current registry
\* visibility, auth, freshness and quarantine are checked again."
QueuedDefaultRechecked ==
    [][\A t \in Tasks \ Pinned :
          place[t] = "waiting" /\ place'[t] = "running" => model'[t] \notin quarantined]_vars

\* docs/coauthoring.md: a writer's success is a handback for review with its
\* patch; when cleanup failed there is no patch and the task has failed.
WriterHandsBack ==
    \A t \in Writable \cap Finished :
        /\ result[t] # "completed"
        /\ result[t] = "needs-review" => t \in captured
        /\ outcome[t] = "cleanupFailed" => result[t] = "failed" /\ t \notin captured

\* An answer that does not admit to pending results has them all, no answer
\* lacks a required one or lists one that is not there, and the file has what
\* the answer lists, unless the last write of it failed.
AnswerIsHonest ==
    dispatch \in {"answered", "closed"} =>
        /\ Required \subseteq answer.results /\ answer.results \subseteq Finished
        /\ ~answer.graceUsed => answer.results = Tasks
        /\ ~unsaved => answer.results \subseteq persisted


\* Results that come after the answer still reach the file; only a failed write
\* or a rejected task may keep them from it.
LateResultsPersisted ==
    dispatch = "answered" ~> dispatch = "closed" /\ (persisted = Tasks \/ unsaved \/ Rejected # {})
=============================================================================

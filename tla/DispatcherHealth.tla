-------------------------- MODULE DispatcherHealth --------------------------
(***************************************************************************)
(* The health of the dispatcher: recordDispatcherHealthEvent and           *)
(* applyDispatcherAutoRepair of                                            *)
(* src/src/promotion/dispatcher-health-policy.js, the stages of            *)
(* dispatcher-health-version-policy.js, the canary that promotes them, and *)
(* the replacement of the fast-path document (src/src/fastpath-store.js).  *)
(*                                                                         *)
(* Every operation reads the state file, and writes it by a rename; a      *)
(* repair replaces the fast-path document in between.  Nothing is locked:  *)
(* operations of several processes overlap and may die at every step.      *)
(* What an event says is left out but for its target; an override of the   *)
(* stage by the environment is left out.                                   *)
(***************************************************************************)
EXTENDS Naturals, FiniteSets, Sequences, SequencesExt

CONSTANTS
    Reporters,      \* processes that record an event
    Repairers,      \* processes that apply a repair
    Canaries,       \* runs of the promotion canary
    HealthTargets,  \* what failures are counted for
    Sources,        \* data sources with a fast-path template
    Quarantinable,  \* targets of a type that may be quarantined
    Corrected,      \* targets whose failures ask for a repair at once
    Check,          \* the target of the canary's check
    MinObserved, MinCreated, MinValidated,  \* criteria of v1
    RepeatedFailure \* failureThreshold

Operators == Reporters \cup Repairers \cup Canaries

ASSUME HealthAssumption ==
    /\ Sources \cup Quarantinable \cup Corrected \subseteq HealthTargets
    /\ Sources \cap Corrected = {}     \* a correction is about a route
    /\ Check \in Corrected \ (Sources \cup Quarantinable)
    /\ {MinObserved, MinCreated, MinValidated, RepeatedFailure} \subseteq Nat \ {0}

HealthFailure(t, protected) == [kind |-> "failure", target |-> t, protected |-> protected, action |-> 0]
Other(kind, t, n) == [kind |-> kind, target |-> t, protected |-> FALSE, action |-> n]

VARIABLES
    health,     \* the state file
    fastpaths,  \* per source: its entries in DISPATCH-FASTPATHS.json
    operation,  \* per process: its step, event and copies of the two files
    outcomes    \* <<process, event>> of the operations that were completed

healthVars == <<health, fastpaths, operation, outcomes>>

NoHealth ==
    [stage |-> "v1", observed |-> 0, created |-> 0, validated |-> 0, incidents |-> 0,
     failures |-> [t \in HealthTargets |-> 0], quarantined |-> {},
     actions |-> [t \in HealthTargets |-> <<>>]]    \* the status of each repair action
NoPaths == [s \in Sources |-> 0]
Fresh == [at |-> "idle", event |-> Other("none", Check, 0), state |-> NoHealth, doc |-> NoPaths]

HealthInit ==
    /\ health = NoHealth /\ fastpaths = NoPaths
    /\ operation = [p \in Operators |-> Fresh] /\ outcomes = {}

----------------------------------------------------------------------------
(* What an event makes of a state. *)

\* recordFailure: a repair action unless one is open, a quarantine when it is
\* safe.
RecordFailure(s, e) ==
    LET t == e.target
        count == s.failures[t] + 1
        create == (t \in Corrected \/ count >= RepeatedFailure) /\ "open" \notin ToSet(s.actions[t])
    IN  [s EXCEPT !.failures[t] = count,
                  !.actions[t] = IF create THEN Append(@, "open") ELSE @,
                  !.created = @ + IF create /\ s.stage = "v1" THEN 1 ELSE 0,
                  !.quarantined = IF count >= RepeatedFailure /\ ~e.protected /\ t \in Quarantinable
                                  THEN @ \cup {t} ELSE @]

\* markRepairAction by id; an id that no longer exists marks nothing.
Marked(s, e, status) ==
    IF e.action \in DOMAIN s.actions[e.target] THEN [s EXCEPT !.actions[e.target][e.action] = status] ELSE s

\* Changed form of Reported: a validation counts whatever it finds.
Reported_Unmatched(s, e) ==
    CASE e.kind = "failure" -> RecordFailure(s, e)
      [] e.kind = "success" -> [s EXCEPT !.failures[e.target] = 0]
      [] e.kind = "validated" -> [Marked(s, e, "validated") EXCEPT !.validated = @ + 1]
      [] e.kind = "resolved" -> Marked(s, e, "resolved")
      [] e.kind = "incident" -> [s EXCEPT !.incidents = @ + 1]
      [] OTHER -> s

\* The body of recordDispatcherHealthEvent; an incident is a quarantine that
\* was unsafe or a repair that had to be rolled back.
Reported(s, e) ==
    CASE e.kind = "failure" -> RecordFailure(s, e)
      [] e.kind = "success" -> [s EXCEPT !.failures[e.target] = 0]
      [] e.kind = "validated" ->
           [Marked(s, e, "validated") EXCEPT
              !.validated = @ + IF s.stage = "v1" /\ e.action \in DOMAIN s.actions[e.target] THEN 1 ELSE 0]
      [] e.kind = "resolved" -> Marked(s, e, "resolved")
      [] e.kind = "incident" -> [s EXCEPT !.incidents = @ + IF s.stage = "v1" THEN 1 ELSE 0]
      [] OTHER -> s

\* Protected targets are never quarantined, so that no protected quarantine
\* stands in the way.
PromotesHealth(s) ==
    /\ s.stage = "v1" /\ s.incidents = 0
    /\ s.observed >= MinObserved /\ s.created >= MinCreated /\ s.validated >= MinValidated

\* applyDispatcherHealthMetricEvent: counted for the active stage, and
\* promoted unless that is disabled.
Measured(s) ==
    LET m == [s EXCEPT !.observed = @ + IF s.stage = "v1" THEN 1 ELSE 0]
    IN  {m} \cup IF PromotesHealth(m) THEN {[m EXCEPT !.stage = "v2"]} ELSE {}

----------------------------------------------------------------------------
(* Recording an event. *)

\* The state as it is read: some of its quarantines have expired.
ReadsHealth(p, at, e) ==
    \E gone \in SUBSET health.quarantined :
      operation' = [operation EXCEPT ![p] = [at |-> at, event |-> e, doc |-> NoPaths,
                                             state |-> [health EXCEPT !.quarantined = @ \ gone]]]

Leaves(p, how) == operation' = [operation EXCEPT ![p] = [Fresh EXCEPT !.at = how]]
Ended(p) == outcomes' = outcomes \cup {<<p, operation[p].event>>}

\* A lookup that finds data succeeds as a route and a check as nothing, so
\* that their failures are never cleared.
Outcomes ==
    {HealthFailure(t, FALSE) : t \in HealthTargets}
    \cup {Other("success", t, 0) : t \in HealthTargets \ (Sources \cup {Check})}

\* Events that name a protected surface; it matters where a quarantine would follow.
ProtectedOutcomes == {HealthFailure(t, TRUE) : t \in Quarantinable}

Controls ==
    {Other("incident", Check, 0)}
    \cup {Other(kind, t, 1) : kind \in {"validated", "resolved"}, t \in HealthTargets}

Events == Outcomes \cup ProtectedOutcomes \cup Controls

BeginEvent(p) ==
    /\ operation[p].at = "idle"
    /\ \E e \in Events : ReadsHealth(p, "recording", e)
    /\ UNCHANGED <<health, fastpaths, outcomes>>

EndEvent(p) ==
    /\ operation[p].at = "recording"
    /\ health' \in Measured(Reported(operation[p].state, operation[p].event))
    /\ Ended(p) /\ Leaves(p, "done")
    /\ UNCHANGED fastpaths

\* Not written, because the file system refused or the process died.
HealthLost(p) ==
    /\ operation[p].at \notin {"idle", "done", "failed"} /\ Leaves(p, "failed")
    /\ UNCHANGED <<health, fastpaths, outcomes>>

----------------------------------------------------------------------------
(* The canary: a gap is reported for its check, the check runs, and the      *)
(* repair that the gap created is validated.                                 *)

BeginCanary(p) ==
    /\ operation[p].at = "idle" /\ health.stage = "v1"
    /\ ReadsHealth(p, "gap", HealthFailure(Check, FALSE))
    /\ UNCHANGED <<health, fastpaths, outcomes>>

\* The gap is written; when it created no action there is none to validate.
EndGap(p) ==
    /\ operation[p].at = "gap"
    /\ LET s == operation[p].state
           reported == Reported(s, operation[p].event)
           action == IF Len(reported.actions[Check]) > Len(s.actions[Check]) THEN Len(reported.actions[Check]) ELSE 0
       IN  /\ health' \in Measured(reported)
           /\ Ended(p)
           /\ operation' = [operation EXCEPT ![p] =
                              [Fresh EXCEPT !.at = "checking", !.event = Other("validated", Check, action)]]
    /\ UNCHANGED fastpaths

\* A check that passes is followed by its validation; one that fails is not.
BeginValidation(p) ==
    /\ operation[p].at = "checking" /\ ReadsHealth(p, "recording", operation[p].event)
    /\ UNCHANGED <<health, fastpaths, outcomes>>

----------------------------------------------------------------------------
(* Applying a repair. *)

\* buildAutoRepairPlan: in v2, for a failure of a data source with a template;
\* whatever became of the action since.
Planned(s, e) == s.stage = "v2" /\ e.target \in Sources /\ e.action \in DOMAIN s.actions[e.target]

BeginRepair(p) ==
    /\ operation[p].at = "idle"
    /\ \E t \in HealthTargets :
         LET e == Other("repair", t, 1) IN
         /\ Planned(health, e)
         /\ operation' = [operation EXCEPT ![p] = [at |-> "planned", event |-> e, state |-> health, doc |-> NoPaths]]
    /\ UNCHANGED <<health, fastpaths, outcomes>>

\* auditFastpathsDoc: no intent twice; its other findings are a choice of ValidateCandidate.
Audited(doc) == \A s \in Sources : doc[s] <= 1
WithCandidate(doc, t) == [doc EXCEPT ![t] = @ + 1]

Closed(s, e, status) == [s EXCEPT !.actions[e.target][e.action] = status]

\* The document is read and the candidate validated against it: an intent that
\* is there, or another fault of the document, closes the action.  Writes that
\* are switched off leave everything as it is.
ValidateCandidate(p) ==
    LET e == operation[p].event IN
    /\ operation[p].at = "planned"
    /\ \/ /\ Audited(WithCandidate(fastpaths, e.target))
          /\ operation' = [operation EXCEPT ![p].at = "replacing", ![p].doc = fastpaths]
          /\ UNCHANGED <<health, outcomes>>
       \/ health' = Closed(operation[p].state, e, "auto_repair_blocked") /\ Leaves(p, "done") /\ UNCHANGED outcomes
       \/ Leaves(p, "done") /\ UNCHANGED <<health, outcomes>>
    /\ UNCHANGED fastpaths

\* writeFastpathsWithSnapshot: the whole document as this process read it, and
\* the entry, audited once more.
ReplacePaths(p) ==
    LET e == operation[p].event IN
    /\ operation[p].at = "replacing"
    /\ fastpaths' = WithCandidate(operation[p].doc, e.target) /\ Audited(fastpaths')
    /\ operation' = [operation EXCEPT ![p].at = "replaced"]
    /\ UNCHANGED <<health, outcomes>>

EndRepair(p) ==
    /\ operation[p].at = "replaced"
    /\ health' \in Measured(Closed(operation[p].state, operation[p].event, "auto_applied"))
    /\ Ended(p) /\ Leaves(p, "done")
    /\ UNCHANGED fastpaths

----------------------------------------------------------------------------

HealthNext ==
    \/ \E p \in Operators : EndEvent(p) \/ HealthLost(p)
    \/ \E p \in Reporters : BeginEvent(p)
    \/ \E p \in Repairers : BeginRepair(p) \/ ValidateCandidate(p) \/ ReplacePaths(p) \/ EndRepair(p)
    \/ \E p \in Canaries : BeginCanary(p) \/ EndGap(p) \/ BeginValidation(p)

HealthSpec == HealthInit /\ [][HealthNext]_healthVars

----------------------------------------------------------------------------

Reports(kind, targets) == {o \in outcomes : o[2].kind = kind /\ o[2].target \in targets}

\* However operations overlap, overwrite one another and die: a target is in
\* quarantine only after repeated failures, not all of them protected; a stage
\* that repairs by itself is active only after as many events, and validations
\* of repairs, as it asks for; and the document holds an entry of this origin
\* at most once, for a source that failed repeatedly, in such a stage.
HealthIsEarned ==
    /\ \A t \in health.quarantined :
         /\ Cardinality(Reports("failure", {t})) >= RepeatedFailure
         /\ \E o \in Reports("failure", {t}) : ~o[2].protected
    /\ (health.stage = "v2" \/ \E s \in Sources : fastpaths[s] > 0) =>
         /\ Cardinality(outcomes) >= MinObserved
         /\ Cardinality(Reports("failure", HealthTargets)) >= MinCreated
         /\ \E t \in HealthTargets :
              Reports("validated", {t}) # {} /\ Reports("failure", {t}) # {}
         /\ Cardinality(Reports("validated", HealthTargets)) >= MinValidated
    /\ \A s \in Sources :
         /\ fastpaths[s] <= 1
         /\ fastpaths[s] = 1 => Cardinality(Reports("failure", {s})) >= RepeatedFailure
=============================================================================

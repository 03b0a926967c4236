------------------------ MODULE ParallelizationPolicy ------------------------
(***************************************************************************)
(* The state file of the parallelization stages:                           *)
(* recordParallelizationRun of                                             *)
(* src/src/promotion/parallelization-version-policy.js, with readState and *)
(* writeState of staged-promotion-policy.js.                               *)
(*                                                                         *)
(* A call records the results of one run: it reads the file, updates the   *)
(* health of providers and task kinds, counts the run for its stage,       *)
(* promotes the stage when there is evidence, and writes the file by a     *)
(* rename.  There is no lock: calls of several processes overlap.          *)
(***************************************************************************)
EXTENDS Integers, FiniteSets, Sequences

CONSTANTS
    Recorders,          \* calls of recordParallelizationRun
    RecordedRuns,       \* the runs they may record
    Runners, Kinds,     \* what a result counts for: its runner, its task kind
    MinRuns, MinTasks, MinUseful,   \* promotion criteria of v2 and v3
    MaxFailurePercent,
    FailureThreshold, TimeoutThreshold,     \* failures before a quarantine
    QuarantineHours, TimeoutHours,          \* how long it lasts
    MaxHours            \* bound on the clock

Targets == Runners \cup Kinds
Stages == {"writable_sidecars_v1", "v2", "v3", "v4"}
NextStage == [v2 |-> "v3", v3 |-> "v4"]
RequiresCapability == {"v3"}

\* The result of a task, and what a plan says of a run.
RunResults ==
    [runner : Runners, kind : Kinds, status : {"completed", "failed"}, timeout : BOOLEAN,
     useful : BOOLEAN, capable : BOOLEAN]
SomeRuns == [stage : Stages \cup {"active"}, results : Seq(RunResults)]

ASSUME PolicyAssumption ==
    /\ Runners \cap Kinds = {}
    /\ FailureThreshold \in Nat \ {0} /\ TimeoutThreshold \in Nat /\ MaxHours \in Nat
    /\ QuarantineHours \in Nat \ {0} /\ TimeoutHours \in Nat \ {0}
    /\ MinRuns \in [DOMAIN NextStage -> Nat \ {0}] /\ MinTasks \in [DOMAIN NextStage -> Nat]
    /\ MinUseful \in [DOMAIN NextStage -> Nat] /\ MaxFailurePercent \in Nat
    /\ RecordedRuns \subseteq SomeRuns

VARIABLES
    file,       \* the state file
    hour,       \* the clock
    writing,    \* per call: where it is
    seen,       \* per call: the state it has read
    began,      \* per call: the clock when it began
    recorded    \* per call: the run it records, with its stage once it has

policyVars == <<file, hour, writing, seen, began, recorded>>

NoMetrics == [runs |-> 0, tasks |-> 0, failed |-> 0, useful |-> 0, capable |-> FALSE,
              streakRuns |-> 0, streakTasks |-> 0]

DefaultState ==
    [activeStage |-> "writable_sidecars_v1",
     stages      |-> [s \in Stages |-> NoMetrics],
     failures    |-> [t \in Targets |-> 0],
     until       |-> [t \in Targets |-> 0]]     \* 0: not in quarantine

NothingRun == [stage |-> "active", results |-> <<>>]

PolicyInit ==
    /\ file = DefaultState /\ hour = 1
    /\ writing = [c \in Recorders |-> "idle"]
    /\ seen = [c \in Recorders |-> DefaultState]
    /\ began = [c \in Recorders |-> 0]
    /\ recorded = [c \in Recorders |-> NothingRun]

-----------------------------------------------------------------------------
(* Health of providers and task kinds.                                     *)

\* A quarantine that has expired is dropped before the results are counted.
Unexpired(state, now) ==
    [state EXCEPT !.until = [t \in Targets |-> IF @[t] <= now THEN 0 ELSE @[t]]]

\* Changed form of Failure: a timeout counts for the provider as well.
Failure_OfProvider(state, target, result, now) ==
    LET count == state.failures[target] + 1
        threshold == IF result.timeout THEN TimeoutThreshold ELSE FailureThreshold
        hours == IF result.timeout THEN TimeoutHours ELSE QuarantineHours
        counted == [state EXCEPT !.failures[target] = count]
    IN  IF count < threshold \/ state.until[target] # 0 THEN counted
        ELSE [counted EXCEPT !.until[target] = now + hours]

\* recordHealthFailure: a timeout is no fault of the provider, and of a task
\* kind only at a higher threshold.
Failure(state, target, result, now) ==
    LET count == state.failures[target] + 1
        threshold == IF result.timeout THEN TimeoutThreshold ELSE FailureThreshold
        hours == IF result.timeout THEN TimeoutHours ELSE QuarantineHours
        counted == [state EXCEPT !.failures[target] = count]
    IN  IF result.timeout /\ target \in Runners THEN state
        ELSE IF count < threshold \/ state.until[target] # 0 THEN counted
        ELSE [counted EXCEPT !.until[target] = now + hours]

\* updateParallelizationHealth, for one result: a success clears the counts.
Judge(state, result, now) ==
    IF result.status = "completed"
    THEN [state EXCEPT !.failures[result.runner] = 0, !.failures[result.kind] = 0]
    ELSE Failure(Failure(state, result.runner, result, now), result.kind, result, now)

\* All of them, in their order.
Health(state, results, now) ==
    LET judged[n \in 0..Len(results)] ==
          IF n = 0 THEN Unexpired(state, now) ELSE Judge(judged[n - 1], results[n], now)
    IN  judged[Len(results)]

-----------------------------------------------------------------------------
(* Evidence for the next stage.                                            *)

Completed(results) == {i \in DOMAIN results : results[i].status = "completed"}
Failed(results) == {i \in DOMAIN results : results[i].status = "failed"}
Useful(results) == {i \in Completed(results) : results[i].useful}
Capable(results) == {i \in DOMAIN results : results[i].capable}

Counted(metrics, results) ==
    LET done == Cardinality(Completed(results))
        bad == Cardinality(Failed(results))
    IN  [runs |-> metrics.runs + (IF bad = 0 THEN 1 ELSE 0),
         tasks |-> metrics.tasks + done,
         failed |-> metrics.failed + bad,
         useful |-> metrics.useful + Cardinality(Useful(results)),
         capable |-> metrics.capable \/ Capable(results) # {},
         streakRuns |-> IF bad = 0 THEN metrics.streakRuns + 1 ELSE 0,
         streakTasks |-> IF bad = 0 THEN metrics.streakTasks + done ELSE 0]

Eligible(stage, m) ==
    /\ stage \in DOMAIN NextStage
    /\ stage \in RequiresCapability => m.capable
    /\ m.useful >= MinUseful[stage]
    /\ \/ /\ m.runs >= MinRuns[stage] /\ m.tasks >= MinTasks[stage]
          /\ m.failed * 100 <= MaxFailurePercent * (m.tasks + m.failed)
       \/ m.streakRuns >= MinRuns[stage] /\ m.streakTasks >= MinTasks[stage]

\* The stage a run counts for: the one its plan names, or else the active one.
StageOf(state, r) == IF r.stage = "active" THEN state.activeStage ELSE r.stage

\* Count a run that executed something and promote its stage, unless automatic
\* promotion is disabled.
Promoted(state, r) ==
    LET stage == StageOf(state, r)
        metrics == Counted(state.stages[stage], r.results)
        counted == [state EXCEPT !.stages[stage] = metrics]
    IN  IF r.results = <<>> THEN state
        ELSE IF Eligible(stage, metrics) THEN [counted EXCEPT !.activeStage = NextStage[stage]]
        ELSE counted

-----------------------------------------------------------------------------
BeginRecord(c) ==
    /\ writing[c] = "idle"
    /\ \E r \in RecordedRuns : recorded' = [recorded EXCEPT ![c] = r]
    /\ seen' = [seen EXCEPT ![c] = file]
    /\ began' = [began EXCEPT ![c] = hour]
    /\ writing' = [writing EXCEPT ![c] = "read"]
    /\ UNCHANGED <<file, hour>>

\* The call returns or throws, and its copy of the state is gone.
EndRun(c, how) ==
    /\ writing' = [writing EXCEPT ![c] = how]
    /\ seen' = [seen EXCEPT ![c] = DefaultState]
    /\ began' = [began EXCEPT ![c] = 0]

WriteRun(c) ==
    /\ writing[c] = "read"
    /\ LET judged == Health(seen[c], recorded[c].results, began[c])
       IN  \/ file' = Promoted(judged, recorded[c])
           \/ file' = judged    \* automatic promotion is disabled
    /\ recorded' = [recorded EXCEPT ![c].stage = StageOf(seen[c], recorded[c])]
    /\ EndRun(c, "done")
    /\ UNCHANGED hour

\* The write throws, or the process dies before the rename.
WriteFails(c) ==
    /\ writing[c] = "read"
    /\ recorded' = [recorded EXCEPT ![c] = NothingRun]
    /\ EndRun(c, "failed")
    /\ UNCHANGED <<file, hour>>

Hour ==
    /\ hour < MaxHours
    /\ hour' = hour + 1
    /\ UNCHANGED <<file, writing, seen, began, recorded>>

PolicyNext ==
    \/ \E c \in Recorders : BeginRecord(c) \/ WriteRun(c) \/ WriteFails(c)
    \/ Hour

PolicySpec == PolicyInit /\ [][PolicyNext]_policyVars

-----------------------------------------------------------------------------
\* The failed results about a target that ended calls recorded.
Failures(target) ==
    UNION {{<<c, i>> : i \in {j \in Failed(recorded[c].results) :
                                  target \in {recorded[c].results[j].runner, recorded[c].results[j].kind}}} :
             c \in {d \in Recorders : writing[d] = "done"}}

Faults(target) == {f \in Failures(target) : ~recorded[f[1]].results[f[2]].timeout}

\* The comment at parallelization-version-policy.js:12: "Timeouts are a budget
\* problem, not a provider fault".  However calls overlap and overwrite one
\* another, a provider is in quarantine only after enough failures that were no
\* timeouts, and a task kind with nothing but timeouts only after as many as
\* their threshold asks.
QuarantinesAreEarned ==
    \A t \in Targets : file.until[t] # 0 =>
        \/ Cardinality(Faults(t)) >= FailureThreshold
        \/ t \in Kinds /\ Faults(t) # {} /\ Cardinality(Failures(t)) >= FailureThreshold
        \/ t \in Kinds /\ Cardinality(Failures(t)) >= TimeoutThreshold

\* A stage above v2 is active only after as many runs without any failure as
\* its criteria ask for, recorded for the stage below, though calls overlap,
\* fail and overwrite one another.
StageIsEarned ==
    \A s \in DOMAIN NextStage : file.activeStage = NextStage[s] =>
        Cardinality({c \in Recorders :
            /\ writing[c] = "done" /\ recorded[c].stage = s
            /\ Failed(recorded[c].results) = {}}) >= MinRuns[s]

\* Overlapping writers lose evidence but never invent it, neither of failures
\* nor of successes.
PolicyIsEarned == QuarantinesAreEarned /\ StageIsEarned

\* The comment at parallelization-version-policy.js:473: "a run recorded under a
\* pinned/older stage must not regress global state".  A call that overwrites
\* nothing does not take the active stage back from v4 to v3.
PinnedRunNeverRegresses ==
    [][\A c \in Recorders :
        writing[c] = "read" /\ writing'[c] = "done" /\ seen[c] = file /\ file.activeStage = "v4"
            => file'.activeStage = "v4"]_policyVars
=============================================================================

---------------------------- MODULE HookSidecars ----------------------------
(***************************************************************************)
(* The sidecars a prompt hook starts by itself, and how their results come *)
(* back: handleUserPromptSubmit of src/bin/myos-dispatch-hook with         *)
(* src/bin/myos-sidecar.js and src/src/desktop-fanout-gate.js.             *)
(*                                                                         *)
(* Every prompt of a session runs a hook, a process of its own, after the  *)
(* hook of the prompt before.  It shows the results that have come in      *)
(* since, marks them in the manifest of the session, starts lanes as       *)
(* detached sidecars within an hourly cap and records them in the          *)
(* manifest.  Sidecars write their result files in place, each named after *)
(* its lane, and so do hooks their manifest.  The surface may kill a hook. *)
(***************************************************************************)
EXTENDS Naturals, Sequences, FiniteSets

CONSTANTS
    MaxPrompts,      \* prompts of the session
    LanePlans,       \* the background tasks a prompt may get, by lane id
    Deliverable,     \* lanes whose role the desktop gate lets through
    LanesPerPrompt,  \* the 2 of availableCap and of the gate
    HourlyCap,       \* its 6
    MaxTrouble       \* bound on hooks killed or failing, and on failed saves

Prompts == 1..MaxPrompts
HookLanes == UNION {{lanes[i] : i \in 1..Len(lanes)} : lanes \in LanePlans}

\* The planner gives the tasks of a prompt different ids.
ASSUME HookAssumption ==
    /\ {MaxPrompts, LanesPerPrompt, HourlyCap, MaxTrouble} \subseteq Nat
    /\ LanePlans \subseteq Seq(HookLanes)
    /\ \A lanes \in LanePlans : \A i, j \in DOMAIN lanes : lanes[i] = lanes[j] => i = j

\* A sidecar, by the prompt that started it and its lane.
Sidecars == Prompts \X HookLanes

VARIABLES
    manifest,   \* manifest.json of the session
    result,     \* per lane: the result file
    sidecar,    \* per run: its process
    hook,       \* the hook of the latest prompt
    shown,      \* what prompts were told: pairs of a prompt and a run
    aged,       \* prompts up to this one are more than an hour old
    trouble     \* what went wrong so far

hookVars == <<manifest, result, sidecar, hook, shown, aged, trouble>>

Empty == [is |-> "absent", delivered |-> {}, dispatched |-> {}]
TornManifest == [Empty EXCEPT !.is = "torn"]

\* Places of a hook, in their order; "answered", "killed" and "threw" end it.
HookOver == {"answered", "killed", "threw"}
Saving == {"marking", "markOpen", "recording", "recordOpen"}
HookPlaces == HookOver \cup Saving \cup {"begin", "planning", "spawning", "answering"}

HookTypeOK ==
    /\ manifest \in [is : {"absent", "torn", "whole"}, delivered : SUBSET HookLanes, dispatched : SUBSET Sidecars]
    /\ result \in [HookLanes -> [by : {0} \cup Prompts, whole : BOOLEAN]]
    /\ sidecar \in [Sidecars -> {"none", "running", "writing", "wrote", "gone"}]
    /\ hook.at \in HookPlaces /\ hook.prompt \in {0} \cup Prompts
    /\ hook.ready \subseteq Sidecars /\ hook.lanes \in Seq(HookLanes)
    /\ shown \subseteq Prompts \X Sidecars /\ aged \in {0} \cup Prompts
    /\ trouble.spoiled + trouble.died <= MaxTrouble

HookInit ==
    /\ manifest = Empty
    /\ result = [l \in HookLanes |-> [by |-> 0, whole |-> FALSE]]
    /\ sidecar = [r \in Sidecars |-> "none"]
    /\ hook = [prompt |-> 0, at |-> "answered", ready |-> {}, copy |-> Empty, lanes |-> <<>>]
    /\ shown = {} /\ aged = 0
    /\ trouble = [spoiled |-> 0, died |-> 0, dropped |-> {}]

\* loadSidecarManifest: a file that does not parse is an empty manifest.
Loaded == IF manifest.is = "whole" THEN manifest ELSE [Empty EXCEPT !.is = "whole"]

-----------------------------------------------------------------------------
(* The hook.                                                               *)

\* The next prompt; a hook that died gave its prompt up.
Submit ==
    /\ hook.at \in HookOver /\ hook.prompt < MaxPrompts
    /\ hook' = [prompt |-> hook.prompt + 1, at |-> "begin", ready |-> {}, copy |-> Empty, lanes |-> <<>>]
    /\ UNCHANGED <<manifest, result, sidecar, shown, aged, trouble>>

\* Results that parse and whose lane is not marked; a half-written file is
\* left for the next prompt.
Ready == {r \in Sidecars :
    result[r[2]] = [by |-> r[1], whole |-> TRUE] /\ r[2] \notin Loaded.delivered}

\* Changed form of Collect: a file is marked before it is known to parse.
Collect_MarksFirst ==
    /\ hook.at = "begin"
    /\ LET files == {l \in HookLanes : result[l].by # 0} \ Loaded.delivered
       IN hook' = [hook EXCEPT !.ready = Ready, !.copy = [Loaded EXCEPT !.delivered = @ \cup files],
                               !.at = IF files = {} THEN "planning" ELSE "marking"]
    /\ UNCHANGED <<manifest, result, sidecar, shown, aged, trouble>>

\* collectAndMarkDeliveredResults: read, and mark what is ready.
Collect ==
    /\ hook.at = "begin"
    /\ hook' = [hook EXCEPT
         !.ready = Ready,
         !.copy = [Loaded EXCEPT !.delivered = @ \cup {r[2] : r \in Ready}],
         !.at = IF Ready = {} THEN "planning" ELSE "marking"]
    /\ UNCHANGED <<manifest, result, sidecar, shown, aged, trouble>>

\* saveSidecarManifest: the file is truncated, then filled.
After(at) == IF at \in {"marking", "markOpen"} THEN "planning" ELSE "answering"

OpenManifest ==
    /\ hook.at \in {"marking", "recording"}
    /\ manifest' = TornManifest
    /\ hook' = [hook EXCEPT !.at = IF @ = "marking" THEN "markOpen" ELSE "recordOpen"]
    /\ UNCHANGED <<result, sidecar, shown, aged, trouble>>

FillManifest ==
    /\ hook.at \in {"markOpen", "recordOpen"}
    /\ manifest' = hook.copy
    /\ hook' = [hook EXCEPT !.at = After(@)]
    /\ UNCHANGED <<result, sidecar, shown, aged, trouble>>

Troubled == trouble.spoiled + trouble.died >= MaxTrouble

\* A save throws, before or after the truncation, and the hook goes on.
SaveFails ==
    /\ hook.at \in Saving /\ ~Troubled
    /\ hook' = [hook EXCEPT !.at = After(@)]
    /\ trouble' = [trouble EXCEPT !.spoiled = @ + 1]
    /\ UNCHANGED <<manifest, result, sidecar, shown, aged>>

\* gateDesktopFanout: the first lanes of the roles with a deliverable, two at
\* most, in the order of the plan.
Gated(lanes) ==
    LET kept == {i \in 1..Len(lanes) : lanes[i] \in Deliverable}
        count == IF Cardinality(kept) < LanesPerPrompt THEN Cardinality(kept) ELSE LanesPerPrompt
        InOrder(f) == \A k \in 1..count : Cardinality({i \in kept : i < f[k]}) = k - 1
    IN {[k \in 1..count |-> lanes[f[k]]] : f \in {f \in [1..count -> kept] : InOrder(f)}}

\* countDispatchedInLastHour.
Recent(dispatched) == {r \in dispatched : r[1] > aged}

Allowance(copy) ==
    LET left == HourlyCap - Cardinality(Recent(copy.dispatched))
    IN IF left < 0 THEN 0 ELSE IF left < LanesPerPrompt THEN left ELSE LanesPerPrompt

\* The plan of the prompt, gated; the manifest is read again.  Lanes start on
\* the claude surface, when fan-out is on, the goal is large, nothing blocks
\* it, no lookup has run for the prompt and a worker is installed.
Plan ==
    /\ hook.at = "planning"
    /\ \E lanes \in {<<>>} \cup UNION {Gated(p) : p \in LanePlans} :
         LET allowed == Allowance(Loaded)
             chosen == SubSeq(lanes, 1, IF Len(lanes) < allowed THEN Len(lanes) ELSE allowed)
         IN hook' = [hook EXCEPT !.lanes = chosen, !.copy = Loaded,
                                 !.at = IF chosen = <<>> THEN "answering" ELSE "spawning"]
    /\ UNCHANGED <<manifest, result, sidecar, shown, aged, trouble>>

\* Planning throws: the prompt is told of the error, and of no result.
PlanThrows ==
    /\ hook.at = "planning" /\ ~Troubled
    /\ hook' = [hook EXCEPT !.at = "threw"]
    /\ trouble' = [trouble EXCEPT !.died = @ + 1, !.dropped = @ \cup {r[2] : r \in hook.ready}]
    /\ UNCHANGED <<manifest, result, sidecar, shown, aged>>

\* After the last lane: record what was started, if anything was.
Spawned(copy, rest) ==
    IF rest # <<>> THEN "spawning"
    ELSE IF \E r \in copy.dispatched : r[1] = hook.prompt THEN "recording" ELSE "answering"

\* spawnSidecarTask, and the entry in the copy of the manifest.
SpawnLane ==
    /\ hook.at = "spawning"
    /\ LET run == <<hook.prompt, Head(hook.lanes)>>
           copy == [hook.copy EXCEPT !.dispatched = @ \cup {run}]
       IN /\ sidecar' = [sidecar EXCEPT ![run] = "running"]
          /\ hook' = [hook EXCEPT !.lanes = Tail(@), !.copy = copy, !.at = Spawned(copy, Tail(hook.lanes))]
    /\ UNCHANGED <<manifest, result, shown, aged, trouble>>

SpawnFails ==
    /\ hook.at = "spawning"
    /\ hook' = [hook EXCEPT !.lanes = Tail(@), !.at = Spawned(hook.copy, Tail(hook.lanes))]
    /\ UNCHANGED <<manifest, result, sidecar, shown, aged, trouble>>

\* The route block with the results goes to the prompt.
Answer ==
    /\ hook.at = "answering"
    /\ shown' = shown \cup ({hook.prompt} \X hook.ready)
    /\ hook' = [hook EXCEPT !.at = "answered"]
    /\ UNCHANGED <<manifest, result, sidecar, aged, trouble>>

\* The surface kills the hook, which may be in the middle of a save, or have
\* marked what it has not shown.
HookKilled ==
    /\ hook.at \notin HookOver /\ ~Troubled
    /\ hook' = [hook EXCEPT !.at = "killed"]
    /\ trouble' = [spoiled |-> trouble.spoiled + (IF hook.at \in {"markOpen", "recordOpen"} THEN 1 ELSE 0),
                   died |-> trouble.died + (IF hook.at \in {"markOpen", "recordOpen"} THEN 0 ELSE 1),
                   dropped |-> trouble.dropped \cup
                       {r[2] : r \in IF hook.at \in {"begin", "marking", "markOpen"} THEN {} ELSE hook.ready}]
    /\ UNCHANGED <<manifest, result, sidecar, shown, aged>>

-----------------------------------------------------------------------------
(* The sidecars, and the clock.                                            *)

\* writeResultFile, in place: opened, then filled.
StartWriting(r) ==
    /\ sidecar[r] = "running"
    /\ sidecar' = [sidecar EXCEPT ![r] = "writing"]
    /\ result' = [result EXCEPT ![r[2]] = [by |-> r[1], whole |-> FALSE]]
    /\ UNCHANGED <<manifest, hook, shown, aged, trouble>>

\* When another sidecar of the lane wrote meanwhile, the texts may mix.
EndWriting(r) ==
    /\ sidecar[r] = "writing"
    /\ sidecar' = [sidecar EXCEPT ![r] = "wrote"]
    /\ \E whole \in BOOLEAN :
         /\ result[r[2]] = [by |-> r[1], whole |-> FALSE] => whole
         /\ result' = [result EXCEPT ![r[2]] = [by |-> r[1], whole |-> whole]]
    /\ UNCHANGED <<manifest, hook, shown, aged, trouble>>

\* No worker after all, or killed, perhaps while it writes.
Vanish(r) ==
    /\ sidecar[r] \in {"running", "writing"}
    /\ sidecar' = [sidecar EXCEPT ![r] = "gone"]
    /\ UNCHANGED <<manifest, result, hook, shown, aged, trouble>>

\* The entries of one more prompt are an hour old.
HourPasses ==
    /\ aged < hook.prompt
    /\ aged + 1 = hook.prompt => hook.at \in HookOver
    /\ aged' = aged + 1
    /\ UNCHANGED <<manifest, result, sidecar, hook, shown, trouble>>

HookNext ==
    \/ Submit \/ Collect \/ OpenManifest \/ FillManifest \/ SaveFails
    \/ Plan \/ PlanThrows \/ SpawnLane \/ SpawnFails \/ Answer \/ HookKilled
    \/ \E r \in Sidecars : StartWriting(r) \/ EndWriting(r) \/ Vanish(r)
    \/ HourPasses

HookSpec == HookInit /\ [][HookNext]_hookVars

-----------------------------------------------------------------------------
\* test/auto-fanout.test.js: "injected into additionalContext once, never
\* twice".  A lane is reported once more for every spoiled save at most.
ReportedOnce ==
    \A l \in HookLanes : Cardinality({s \in shown : s[2][2] = l}) <= 1 + trouble.spoiled

\* test/auto-fanout.test.js: "seventh lane in an hour is not spawned".  Only
\* the lanes of a hook that died are missing in the count, while every save
\* succeeds.
CapKept ==
    trouble.spoiled = 0 =>
        Cardinality(Recent({r \in Sidecars : sidecar[r] # "none"}))
            <= HourlyCap + LanesPerPrompt * trouble.died

\* A prompt is told of whole results of sidecars of earlier prompts only,
\* whichever sidecars of the lane write at the time.
ReportsAreWhole == \A s \in shown : sidecar[s[2]] = "wrote" /\ s[2][1] < s[1]

\* A lane that is marked has been reported, or is about to be, or its hook died
\* or failed after the mark.
MarksAreReports ==
    \A l \in Loaded.delivered :
        \/ l \in trouble.dropped
        \/ \E s \in shown : s[2][2] = l
        \/ hook.at \notin HookOver /\ l \in {r[2] : r \in hook.ready}

\* What hooks owe the session whatever dies between their steps.
HooksHold == HookTypeOK /\ ReportedOnce /\ CapKept /\ ReportsAreWhole /\ MarksAreReports

\* CHANGELOG.md: "their results are injected into the next prompt's route
\* context".  A hook reports every result that is whole when it looks and was
\* not reported before.
ResultsArrive ==
    [][hook.at = "begin" /\ hook'.at \in {"marking", "planning"} =>
        \A l \in HookLanes :
            result[l].whole /\ ~(\E s \in shown : s[2] = <<result[l].by, l>>)
                => <<result[l].by, l>> \in hook'.ready]_hookVars
=============================================================================

---------------------------- MODULE DispatchPlan ----------------------------
(***************************************************************************)
(* The plan of a dispatch: resolveDispatchPlan of                          *)
(* src/src/workspace-context.js, with the sidecars of                      *)
(* src/src/parallelization-planner.js, the scale of src/src/goal-scale.js  *)
(* and the authority of typed-evidence-shadow-policy.js.                   *)
(*                                                                         *)
(* Two planners read one prompt: the legacy one, and the typed-evidence    *)
(* one that is compared with it and, at a later stage, may replace it.     *)
(* What is read in a prompt are features of it: each regular expression    *)
(* and score of the code stands for one.  The steps are the functions of   *)
(* the code, in its order; a step forgets what no later one reads.         *)
(***************************************************************************)
EXTENDS Naturals, FiniteSets, FiniteSetsExt

CONSTANTS
    Projects,           \* slugs of the project index
    ProtectedProjects   \* those whose writes are gated

ASSUME ProjectsAssumption == ProtectedProjects \subseteq Projects /\ IsFiniteSet(Projects)

NoProject == "none"
Maybe == Projects \cup {NoProject}
FastTypes == {"none", "recipe", "tool", "data", "reference", "project"}

VARIABLES
    planAt,     \* the function that was last left
    found,      \* what is known of the prompt at this point
    legacy,     \* the plan of each planner
    shadow,
    chosen      \* the plan returned: "none", "legacy" or "shadow"

planVars == <<planAt, found, legacy, shadow, chosen>>

NoPlan == [branch |-> "none", slug |-> NoProject, lane |-> "none", stops |-> FALSE, systems |-> 0,
           tasks |-> 0, writers |-> 0, envelope |-> 0, scale |-> 0]

PlanInit ==
    /\ planAt = "prompt" /\ found = [owners |-> {}] /\ chosen = "none"
    /\ legacy = NoPlan /\ shadow = NoPlan

----------------------------------------------------------------------------
(* collectDispatchSignals *)

\* Projects named in the prompt by slug, name or path; one whose name holds
\* the others' stands alone.
Ownership(named, outermost) == IF outermost \in named THEN {outermost} ELSE named

\* Changed form of FastpathOf: a shortcut into another project is kept.
FastpathOf_AnyOwner(type, into, long, owners) ==
    IF long \/ Cardinality(owners) > 1 THEN "none" ELSE type

\* A shortcut survives a short prompt that names no other owner.
FastpathOf(type, into, long, owners) ==
    IF long \/ Cardinality(owners) > 1 \/ (owners # {} /\ into \notin owners) THEN "none" ELSE type

\* The project with the best score: an owner, or else one that is mentioned;
\* none in a complaint about routing; the last one in a short follow-up that
\* mentions none.
ProjectOf(owners, mentioned, complaint, last, research, strong) ==
    LET best == IF Cardinality(owners) > 1 THEN NoProject
                ELSE IF owners # {} THEN CHOOSE p \in owners : TRUE ELSE mentioned
        kept == IF complaint THEN NoProject ELSE IF best = NoProject THEN last ELSE best
    IN  IF research /\ ~strong THEN NoProject ELSE kept

Collect ==
    /\ planAt = "prompt" /\ planAt' = "collected"
    /\ found' \in
         (UNION {LET fast == FastpathOf(type, into, long, owners) IN
                 {[owners |-> owners, recipe |-> FALSE, fast |-> fast,
                   into |-> IF fast = "none" THEN NoProject ELSE into, project |-> project,
                   last |-> IF project = last THEN last ELSE NoProject] :
                    project \in {ProjectOf(owners, mentioned, complaint, last, research, strong) :
                                  mentioned \in Maybe, complaint, research, strong \in BOOLEAN}} :
                 owners \in {Ownership(named, outermost) : named \in SUBSET Projects, outermost \in Maybe},
                 type \in FastTypes, long \in BOOLEAN, into, last \in Maybe})
         \cup {[owners |-> {}, recipe |-> TRUE, fast |-> "none", into |-> NoProject,
                project |-> NoProject, last |-> NoProject]}
    /\ UNCHANGED <<legacy, shadow, chosen>>

----------------------------------------------------------------------------
(* chooseSourceOwner, buildDataLookupRouting, and the branches of both       *)
(* planners.                                                                 *)

\* What was selected from the configured data sources.
DataKinds == {"none", "websites", "records", "preferred"}

SourceOwner(q) ==
    LET project == q.project # NoProject IN
    CASE q.mail /\ q.action = "read"                                -> "capability"
      [] q.status                                                   -> "fallback"
      [] q.data = "preferred" /\ q.intent = "directive"             -> "data"
      [] project /\ (q.operation \/ q.data = "websites")     -> "project"
      [] q.data = "records" /\ q.intent = "directive"               -> "data"
      [] project                                                    -> "project"
      [] q.data # "none" /\ q.intent = "directive"                  -> "data"
      [] q.capability = "strong"                                    -> "capability"
      [] OTHER                                                      -> "fallback"

\* A lookup without a model: reading, with direct for sources that are all
\* read-only and no term that asks for a worker.
DataLane(q) == IF q.action = "read" /\ q.direct THEN "data_lookup" ELSE "worker_skill"

\* What a plan carries of its context is counted by goal-scale.js: the lane,
\* candidates, projects and data.
Skeleton(branch, slug, lane, stops, context) ==
    [NoPlan EXCEPT !.branch = branch, !.slug = slug, !.lane = lane, !.stops = stops,
                   !.systems = 1 + Cardinality(context)]
RecipePlan == Skeleton("recipe", NoProject, "recipe_dispatcher", TRUE, {"capability"})

Context(q) ==
    (IF q.capability # "none" THEN {"capability"} ELSE {})
    \cup (IF q.project # NoProject THEN {"project"} ELSE {})
    \cup (IF q.data # "none" THEN {"data"} ELSE {})

LegacyPlan(q) ==
    LET owner == SourceOwner(q)
        scoped == q.capability # "none"
    IN  CASE q.recipe                                -> RecipePlan
          [] q.fast # "none"                         -> Skeleton("fastpath", NoProject, q.lane, TRUE, Context(q) \ {"data"})
          [] owner = "project" /\ q.project # NoProject -> Skeleton("project", q.project, q.lane, TRUE, Context(q))
          [] owner = "data" /\ q.intent = "directive" -> Skeleton("data", NoProject, DataLane(q), TRUE, {"data"})
          [] OTHER -> Skeleton(IF scoped THEN "capability" ELSE "fallback", q.project, q.lane,
                               q.lane \in {"recipe_dispatcher", "workflow"}, Context(q))

ShadowLane(q, owner) ==
    CASE owner = "data"          -> DataLane(q)
      [] q.fast = "recipe"       -> "recipe_dispatcher"
      [] q.fast = "tool"         -> "tool"
      [] q.fast = "data"         -> "data_lookup"
      [] q.fast = "reference"    -> "reference_lookup"
      [] OTHER                   -> q.lane

ShadowPlan(q) ==
    LET owner == SourceOwner(q)
        lane == ShadowLane(q, owner)
    IN  IF q.recipe THEN RecipePlan
        ELSE Skeleton(owner, q.project, lane, lane \in {"recipe_dispatcher", "workflow", "data_lookup"}, Context(q))

\* With several owners no capability is looked for, and a worker takes it.
Queries(ambiguous) ==
    {q \in [recipe : {found.recipe}, fast : {found.fast}, project : {found.project}, mail : BOOLEAN,
            status : BOOLEAN, operation : BOOLEAN, direct : BOOLEAN, data : DataKinds,
            intent : {"directive", "exploratory"}, action : {"read", "write", "unknown"},
            capability : IF ambiguous THEN {"none"} ELSE {"none", "weak", "strong"},
            lane : {"worker_skill", "recipe_dispatcher", "workflow"}] :
       q.capability = "none" => q.lane = "worker_skill"}

Route ==
    /\ planAt = "collected" /\ planAt' = "routed"
    /\ \E plans \in {<<LegacyPlan(q), ShadowPlan(q), [intent |-> q.intent, action |-> q.action]>> :
                      q \in Queries(Cardinality(found.owners) > 1)} :
         legacy' = plans[1] /\ shadow' = plans[2] /\ found' = plans[3]
    /\ UNCHANGED chosen

----------------------------------------------------------------------------
(* buildParallelizationPlan *)

\* inferAggression: off for a prompt that forbids delegation, converses or asks
\* for no work; else as it is preferred, or deep.
Aggression(t, env) ==
    CASE ~t.work -> "off" [] env.override # "none" -> env.override [] OTHER -> "deep"

CriticalPath(p) ==
    CASE p.branch = "data" /\ p.lane = "data_lookup"          -> "deterministic_data_lookup"
      [] p.stops /\ p.lane \in {"recipe_dispatcher", "workflow"} -> p.lane
      [] p.branch = "project"                                 -> "project_context_then_worker"
      [] OTHER                                                -> p.lane
Deterministic == {"recipe_dispatcher", "workflow", "deterministic_data_lookup", "data_lookup"}

ProtectedWrite(p, action) == p.slug \in ProtectedProjects /\ action = "write"

\* gated: a hard gate found in the text, as all that needs an approval is
\* (goal-scale.js), or a switch, a missing credential or opt-in; a protected write.
Gated(p, t, action) == t.gated \/ ProtectedWrite(p, action)

\* repoEligibleForWritable; env.writable: attended, and a stage, a repository and
\* switches that allow it.
MayWrite(p, t, env, action) ==
    /\ ~Gated(p, t, action)
    /\ env.writable /\ action = "write" /\ p.lane \notin {"data_lookup", "workflow"}

Budget(aggression, max) ==
    CASE aggression = "off" -> 0 [] aggression = "balanced" -> Min({6, max}) [] OTHER -> max

\* The lanes: a writer first, then readers for the context, the checks and, for
\* a write, the safety; those of a quarantined kind are left out.  Readers for
\* capabilities and parts of the request only add to them.
WithFanout(p, t, env, action) ==
    LET aggression == Aggression(t, env)
        open == /\ ~Gated(p, t, action) /\ aggression # "off"
                /\ CriticalPath(p) \in Deterministic => CriticalPath(p) = "recipe_dispatcher" /\ t.commands
        writer == open /\ MayWrite(p, t, env, action) /\ "implement" \notin env.quarantined
        readers == IF action = "write" THEN 5 ELSE 4
        n == IF open THEN Min({Budget(aggression, env.max), readers + IF writer THEN 1 ELSE 0}) ELSE 0
    IN  [p EXCEPT !.stops = FALSE, !.tasks = n, !.writers = IF writer /\ n > 0 THEN 1 ELSE 0]

TextFeatures == [gated : BOOLEAN, work : BOOLEAN, commands : BOOLEAN]
EnvFeatures ==
    [writable : BOOLEAN, max : {1, 12}, override : {"none", "balanced"},
     quarantined : {{}, {"implement"}}]

\* The gates and switches that are kept for the scale and the envelope.
Fanout ==
    /\ planAt = "routed" /\ planAt' = "planned"
    /\ \E t \in TextFeatures, env \in EnvFeatures :
         /\ legacy' = WithFanout(legacy, t, env, found.action)
         /\ shadow' = WithFanout(shadow, t, env, found.action)
         /\ found' = [intent |-> found.intent, action |-> found.action,
                      gated |-> t.gated, explicit |-> env.override # "none"]
    /\ UNCHANGED chosen

----------------------------------------------------------------------------
(* inferGoalScale and finalizeDispatchPlan *)

One(sign) == IF sign THEN 1 ELSE 0

\* The scale of a plan, given as many sidecars as tasks.
GoalScale(p, g, write, tasks) ==
    LET acts == g.acts \/ g.handoff \/ write
        systems == p.systems + g.systems
        complex == p.lane \in {"workflow", "recipe_dispatcher"}
        fanned == tasks >= 2 /\ acts /\ (g.verbs >= 2 \/ systems >= 2 \/ g.planning \/ g.multi)
        score == One(g.multi) + One(g.autonomy) + One(g.planning /\ acts) + One(g.handoff)
                 + One(g.verbs >= 3) + One(systems >= 3) + One(complex /\ acts) + One(fanned)
        structural == g.multi \/ g.handoff \/ (g.autonomy /\ g.planning)
    IN  IF \/ score >= 3
           \/ acts /\ score >= 2 /\ structural
           \/ g.autonomy /\ g.planning /\ systems >= 2
           \/ g.verbs >= 3 /\ g.multi /\ systems >= 2
        THEN 4
        ELSE IF acts THEN 3 ELSE g.inactive

\* The contracts of the envelope are those of the scale before the sidecars
\* are known.  A small goal gives its sidecars up, unless a preference asks for
\* them.
Finalized(p, g, write) ==
    LET scale == GoalScale(p, g, write, p.tasks)
        small == scale <= 2 /\ ~found.explicit
    IN  [p EXCEPT !.systems = 0, !.scale = scale, !.envelope = GoalScale(p, g, write, 0),
                  !.tasks = IF small THEN 0 ELSE @, !.writers = IF small THEN 0 ELSE @]

\* isSafeAuthoritativeShadow: r is a route with the branch, lane, action and
\* intent of the shadow plan, and whether the prompt has a risky word.
SafeAuthoritative(stage, r) ==
    /\ stage # "v1" /\ ~r.risky /\ r.action = "read"
    /\ \/ r.branch = "data" /\ r.lane = "data_lookup"
       \/ r.branch = "capability" /\ r.lane = "reference_lookup"
       \/ /\ stage = "v3" /\ r.branch \in {"project", "capability"}
          /\ r.lane \in {"worker_skill", "reference_lookup"} /\ r.intent = "directive"

\* inactive: the scale of a prompt that asks for no action, by what it looks
\* up and how long it is; 2 is a small goal as 1 is.
GoalFeatures ==
    [acts : BOOLEAN, multi : BOOLEAN, autonomy : BOOLEAN, planning : BOOLEAN, handoff : BOOLEAN,
     verbs : {0, 3}, systems : {0, 2}, inactive : {1, 3}]

Finalize ==
    /\ planAt = "planned" /\ planAt' = "finalized"
    /\ \E plans \in {<<Finalized(legacy, g, found.action = "write"), Finalized(shadow, g, found.action = "write")>> :
                      g \in {f \in GoalFeatures : IF f.acts THEN f.inactive = 1 ELSE f.verbs = 0}} :
         legacy' = plans[1] /\ shadow' = plans[2]
    /\ UNCHANGED <<found, chosen>>

\* attachShadowDispatch
Authorize ==
    /\ planAt = "finalized" /\ planAt' = "done"
    /\ LET route(risky) == [risky |-> risky, action |-> found.action, branch |-> shadow.branch,
                            lane |-> shadow.lane, intent |-> found.intent]
       IN  chosen' \in {IF ~disabled /\ SafeAuthoritative(stage, route(risky)) THEN "shadow" ELSE "legacy" :
                           stage \in {"v1", "v2", "v3"}, risky, disabled \in BOOLEAN}
    /\ UNCHANGED <<found, legacy, shadow>>

PlanNext == Collect \/ Route \/ Fanout \/ Finalize \/ Authorize

PlanSpec == PlanInit /\ [][PlanNext]_planVars

----------------------------------------------------------------------------

\* Whoever is named owns the work: a project is routed to, or a shortcut
\* taken into one, only when no other project is named; with several owners
\* only a follow-up still goes to the last project.
OwnershipIsRespected ==
    planAt = "collected" /\ found.owners # {} =>
      /\ \A p \in {legacy', shadow'} :
           p.branch = "project" => {p.slug} = found.owners \/ p.slug = found.last
      /\ legacy'.branch = "fastpath" => {found.into} = found.owners

\* What is finally returned: sidecars only without a gate and never for a
\* small goal that did not ask for them; a single writer only for a write of an
\* unprotected project, which the typed-evidence planner is never chosen for;
\* and an envelope, made before the sidecars were known, that asks for
\* verification exactly if the final scale does.
FanoutIsSafe ==
    planAt = "done" =>
      \A p \in {legacy, shadow} :
        /\ p.tasks > 0 => ~found.gated /\ (p.scale >= 3 \/ found.explicit)
        /\ p.writers > 0 =>
             /\ found.action = "write" /\ p.slug \notin ProtectedProjects
             /\ p.tasks > 0 /\ p.scale >= 3 /\ chosen = "legacy"
        /\ p.envelope >= 3 <=> p.scale >= 3

PlansAreSafe == [][OwnershipIsRespected]_planVars /\ []FanoutIsSafe
=============================================================================

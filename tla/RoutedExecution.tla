-------------------------- MODULE RoutedExecution --------------------------
(***************************************************************************)
(* Routed execution: executeStep of src/src/decision/step-runner.js,       *)
(* executeRoutedTask of jev-executor.js and routeWithJev of jev-router.js. *)
(*                                                                         *)
(* Calls are processes of their own that share files: the claims and the   *)
(* receipts of steps, the claims of decisions, the log of decisions, the   *)
(* answer cache, the circuit file and the day's budget with its lock.  Any *)
(* of them may die between two file operations.                            *)
(***************************************************************************)
EXTENDS Naturals, FiniteSets

CONSTANTS
    Calls,          \* processes: myos-step and myos-run
    Steps,          \* step ids of one root task
    RecipeSteps,    \* those whose operation is recipe.run; the others retrieve evidence
    Dependencies,   \* per step: the steps it depends on
    DailyLimit,     \* MYOS_JEV_ROUTING_MAX_CALLS_PER_DAY
    MaxEdits,       \* bound: changes of a source
    NoStep, Free

ASSUME RoutedAssumption ==
    /\ IsFiniteSet(Calls) /\ Free \notin Calls
    /\ NoStep \notin Steps /\ RecipeSteps \subseteq Steps
    /\ Dependencies \in [Steps -> SUBSET Steps]
    /\ DailyLimit \in Nat

VARIABLES
    place,         \* per call: where it is
    step,       \* per call: the step it executes, NoStep for myos-run
    decision,   \* per call: the decision it executes, Free before there is one
    hash,       \* per call: the version of the source it has fingerprinted
    read,       \* per call: the version of the source it has read
    claimed,    \* step claims
    receipt,    \* per step: its receipt file
    executed,   \* decisions with an execution claim
    ran,        \* calls that have run their recipe
    logged,     \* decisions in the routing log that name a recipe
    cache,      \* the cached answer to the request
    circuit,    \* whether the circuit file blocks the provider
    budgetLock,       \* who holds the lock of the day's budget
    used,       \* the calls counted in the budget file; DailyLimit + 1 when it is torn
    asked,      \* calls that have asked the provider
    source      \* the version of the evidence source

stepVars == <<claimed, receipt, hash, read>>
execVars == <<executed, ran>>
routeVars == <<logged, cache, circuit>>
budgetVars == <<budgetLock, used, asked>>
routedVars == <<place, step, decision, stepVars, execVars, routeVars, budgetVars, source>>

Evidence == Steps \ RecipeSteps
NoReceipt == [state |-> "none", hash |-> 0, read |-> 0]
Torn == DailyLimit + 1
Answers == {"recipe", "none", "unsure"}

\* Decisions are named by the call that made them.
CallPlaces == {"idle", "unclaimed", "reading", "checking", "routing", "reserving", "counting",
           "counted", "asking", "routed", "running", "ok", "failed", "verifying",
           "refusing", "returned", "crashed"}

Receipts == [state : {"none", "torn", "verified", "failed"}, hash : Nat, read : Nat]

StepsTyped ==
    /\ place \in [Calls -> CallPlaces]
    /\ step \in [Calls -> Steps \cup {NoStep}]
    /\ decision \in [Calls -> Calls \cup {Free}]
    /\ hash \in [Calls -> Nat] /\ read \in [Calls -> Nat]
    /\ claimed \subseteq Steps /\ receipt \in [Steps -> Receipts]
    /\ executed \subseteq Calls /\ ran \subseteq Calls /\ logged \subseteq Calls
    /\ cache \in Answers \cup {"nothing"} /\ circuit \in {"closed", "open"}
    /\ budgetLock \in Calls \cup {Free} /\ used \in 0..Torn /\ asked \subseteq Calls
    /\ source \in Nat

StepsInit ==
    /\ place = [c \in Calls |-> "idle"]
    /\ step = [c \in Calls |-> NoStep]
    /\ decision = [c \in Calls |-> Free]
    /\ hash = [c \in Calls |-> 0] /\ read = [c \in Calls |-> 0]
    /\ claimed = {} /\ receipt = [s \in Steps |-> NoReceipt]
    /\ executed = {} /\ ran = {} /\ logged = {}
    /\ cache = "nothing" /\ circuit = "closed"
    /\ budgetLock = Free /\ used = 0 /\ asked = {}
    /\ source = 1

Goto(c, spot) == place' = [place EXCEPT ![c] = spot]

-----------------------------------------------------------------------------
\* executeStep, up to its claim.

\* A dependency's receipt is verified and its source has not changed since.
DependencyHolds(d) ==
    /\ receipt[d].state = "verified"
    /\ d \in Evidence => receipt[d].hash = source

\* Dependencies, source and an earlier receipt, before anything is claimed.
\* An earlier receipt is reused only for evidence, by the same step over the
\* same source; else it hands over to a worker.
BeginStep(c, s) ==
    /\ place[c] = "idle"
    /\ step' = [step EXCEPT ![c] = s]
    /\ hash' = [hash EXCEPT ![c] = source]
    /\ IF /\ \A d \in Dependencies[s] : DependencyHolds(d)
          /\ receipt[s].state \in {"none", "torn"}
       THEN Goto(c, "unclaimed")
       ELSE Goto(c, "returned")
    /\ UNCHANGED <<decision, claimed, receipt, read, execVars, routeVars, budgetVars, source>>

\* The claim is created exclusively; whoever finds it hands over.
ClaimStep(c) ==
    /\ place[c] = "unclaimed"
    /\ \/ /\ step[c] \notin claimed
          /\ claimed' = claimed \cup {step[c]}
          /\ Goto(c, IF step[c] \in RecipeSteps THEN "routing" ELSE "reading")
       \/ /\ Goto(c, "returned")
          /\ UNCHANGED claimed
    /\ UNCHANGED <<step, decision, receipt, hash, read, execVars, routeVars, budgetVars, source>>

-----------------------------------------------------------------------------
\* The evidence operations.

ReadSource(c) ==
    /\ place[c] = "reading"
    /\ read' = [read EXCEPT ![c] = source]
    /\ Goto(c, "checking")
    /\ UNCHANGED <<step, decision, claimed, receipt, hash, execVars, routeVars, budgetVars, source>>

\* Changed form of CheckSource: the fingerprint of the beginning is enough.
CheckSource_Once(c) ==
    /\ place[c] = "checking"
    /\ \/ Goto(c, "ok")
       \/ Goto(c, "failed")
    /\ UNCHANGED <<step, decision, stepVars, execVars, routeVars, budgetVars, source>>

\* The source must still have the fingerprint taken at the beginning; an
\* unsupported shape or an empty result fails as well.
CheckSource(c) ==
    /\ place[c] = "checking"
    /\ \/ source = hash[c] /\ Goto(c, "ok")
       \/ Goto(c, "failed")
    /\ UNCHANGED <<step, decision, stepVars, execVars, routeVars, budgetVars, source>>

-----------------------------------------------------------------------------
\* routeWithJev, for a request without a decision.

\* appendRoutingEvent of a decision: it is in the log, unless writing failed.
Decide(c) ==
    /\ decision' = [decision EXCEPT ![c] = c]
    /\ \/ logged' = logged \cup {c}
       \/ UNCHANGED logged
    /\ Goto(c, "routed")

\* Rules decide: mode off, input budget, no intent or candidates, no key, a
\* circuit that is open; or a deterministic match, a cached answer.
RouteLocally(c) ==
    /\ place[c] = "routing"
    /\ \/ Goto(c, "failed") /\ UNCHANGED <<decision, logged>>
       \/ Decide(c)
    /\ UNCHANGED <<step, stepVars, execVars, cache, circuit, budgetVars, source>>

\* Only a confident choice of a recipe is a decision.
UseAnswer(c, answer) ==
    IF answer = "recipe"
    THEN Decide(c)
    ELSE Goto(c, "failed") /\ UNCHANGED <<decision, logged>>

\* A cached answer younger than its time to live.
RouteFromCache(c) ==
    /\ place[c] = "routing" /\ cache # "nothing"
    /\ UseAnswer(c, cache)
    /\ UNCHANGED <<step, stepVars, execVars, cache, circuit, budgetVars, source>>

\* None, and the circuit is closed: the provider is asked if the budget allows it.
RouteByProvider(c) ==
    /\ place[c] = "routing" /\ cache = "nothing" /\ circuit = "closed"
    /\ Goto(c, "reserving")
    /\ UNCHANGED <<step, decision, stepVars, execVars, routeVars, budgetVars, source>>

\* reserveCall: the lock is created exclusively.
OpenBudgetLock(c) ==
    /\ place[c] = "reserving"
    /\ \/ budgetLock = Free /\ budgetLock' = c /\ Goto(c, "counting")
       \/ Goto(c, "failed") /\ UNCHANGED budgetLock
    /\ UNCHANGED <<step, decision, stepVars, execVars, routeVars, used, asked, source>>

\* The count, read and written in place under the lock.  At the limit, for a
\* file that does not parse or on a failed write, which may leave it torn,
\* the call is refused and the lock removed.
Count(c) ==
    /\ place[c] = "counting"
    /\ \/ used < DailyLimit /\ used' = used + 1 /\ Goto(c, "counted") /\ UNCHANGED budgetLock
       \/ used' \in {used, Torn} /\ budgetLock' = Free /\ Goto(c, "failed")
    /\ UNCHANGED <<step, decision, stepVars, execVars, routeVars, asked, source>>

\* The lock is removed and the provider asked; when removing it fails, the
\* call ends and the lock stays.
Unlock(c) ==
    /\ place[c] = "counted"
    /\ \/ budgetLock' = Free /\ asked' = asked \cup {c} /\ Goto(c, "asking")
       \/ Goto(c, "failed") /\ UNCHANGED <<budgetLock, asked>>
    /\ UNCHANGED <<step, decision, stepVars, execVars, routeVars, used, source>>

\* The answer of client.ask, which makes no retries: it is cached if there is
\* room.  An error opens the circuit.
Receive(c) ==
    /\ place[c] = "asking"
    /\ \/ \E answer \in Answers :
             /\ cache' \in {cache, answer}
             /\ UseAnswer(c, answer)
             /\ UNCHANGED circuit
       \/ circuit' = "open" /\ Goto(c, "failed") /\ UNCHANGED <<cache, decision, logged>>
    /\ UNCHANGED <<step, stepVars, execVars, budgetVars, source>>

\* An hour, or a minute for an unsure answer; a minute for the circuit.
Expire ==
    /\ cache' = "nothing" /\ circuit' = "closed"
    /\ UNCHANGED <<place, step, decision, stepVars, execVars, logged, budgetVars, source>>

-----------------------------------------------------------------------------
\* executeRoutedTask.

BeginRun(c) ==
    /\ place[c] = "idle"
    /\ Goto(c, "routing")
    /\ UNCHANGED <<step, decision, stepVars, execVars, routeVars, budgetVars, source>>

\* A request that brings a decision's id: it must be in the log, for the same
\* request and directory, and an hour old at most.
ReadDecision(c, d) ==
    /\ place[c] = "routing" /\ d \in logged
    /\ decision' = [decision EXCEPT ![c] = d]
    /\ Goto(c, "routed")
    /\ UNCHANGED <<step, stepVars, execVars, routeVars, budgetVars, source>>

\* Changed form of ClaimDecision: only this process's own claims are seen.
ClaimDecision_Local(c) ==
    /\ place[c] = "routed"
    /\ \/ executed' = executed \cup {decision[c]} /\ Goto(c, "running")
       \/ Goto(c, "failed") /\ UNCHANGED executed
    /\ UNCHANGED <<step, decision, stepVars, ran, routeVars, budgetVars, source>>

\* The approval, the handler, the fingerprint and the candidate are checked,
\* any of which may send the request away; then the decision is claimed.
ClaimDecision(c) ==
    /\ place[c] = "routed"
    /\ \/ /\ decision[c] \notin executed
          /\ executed' = executed \cup {decision[c]}
          /\ Goto(c, "running")
       \/ Goto(c, "failed") /\ UNCHANGED executed
    /\ UNCHANGED <<step, decision, stepVars, ran, routeVars, budgetVars, source>>

\* dispatcher.runRecipe, whose result may be unusable.
RunRecipe(c) ==
    /\ place[c] = "running"
    /\ ran' = ran \cup {c}
    /\ \/ Goto(c, "ok")
       \/ Goto(c, "failed")
    /\ UNCHANGED <<step, decision, stepVars, executed, routeVars, budgetVars, source>>

-----------------------------------------------------------------------------
\* The receipt of a step is written in place: truncated, then filled.
StartReceipt(c) ==
    /\ place[c] \in {"ok", "failed"} /\ step[c] # NoStep
    /\ receipt' = [receipt EXCEPT ![step[c]] = [NoReceipt EXCEPT !.state = "torn"]]
    /\ Goto(c, IF place[c] = "ok" THEN "verifying" ELSE "refusing")
    /\ UNCHANGED <<step, decision, claimed, hash, read, execVars, routeVars, budgetVars, source>>

FillReceipt(c) ==
    /\ place[c] \in {"verifying", "refusing"}
    /\ receipt' = [receipt EXCEPT ![step[c]] =
           [state |-> IF place[c] = "verifying" THEN "verified" ELSE "failed",
            hash |-> hash[c], read |-> read[c]]]
    /\ Goto(c, "returned")
    /\ UNCHANGED <<step, decision, claimed, hash, read, execVars, routeVars, budgetVars, source>>

ReturnRun(c) ==
    /\ place[c] \in {"ok", "failed"} /\ step[c] = NoStep
    /\ Goto(c, "returned")
    /\ UNCHANGED <<step, decision, stepVars, execVars, routeVars, budgetVars, source>>

\* The process dies; a budget file it was writing may be torn.
DieBetween(c) ==
    /\ place[c] \notin {"idle", "returned", "crashed"}
    /\ used' \in IF place[c] = "counting" THEN {used, Torn} ELSE {used}
    /\ Goto(c, "crashed")
    /\ UNCHANGED <<step, decision, stepVars, execVars, routeVars, budgetLock, asked, source>>

\* Someone edits the source.
EditSource ==
    /\ source <= MaxEdits
    /\ source' = source + 1
    /\ UNCHANGED <<place, step, decision, stepVars, execVars, routeVars, budgetVars>>

CallNext(c) ==
    \/ \E s \in Steps : BeginStep(c, s)
    \/ ClaimStep(c) \/ ReadSource(c) \/ CheckSource(c)
    \/ BeginRun(c) \/ RouteLocally(c) \/ RouteFromCache(c) \/ RouteByProvider(c)
    \/ OpenBudgetLock(c) \/ Count(c) \/ Unlock(c) \/ Receive(c)
    \/ \E d \in Calls : ReadDecision(c, d)
    \/ ClaimDecision(c) \/ RunRecipe(c)
    \/ StartReceipt(c) \/ FillReceipt(c) \/ ReturnRun(c) \/ DieBetween(c)

StepsNext == (\E c \in Calls : CallNext(c)) \/ Expire \/ EditSource

StepsSpec == StepsInit /\ [][StepsNext]_routedVars

-----------------------------------------------------------------------------
\* docs/jev-executable-routing.md: "Each decision can start execution at
\* most once", and recipes "are never silently replayed": no decision and no
\* step runs its recipe twice, though calls of one step race, bring the same
\* decision, or die after any of their file operations.
RunsOnce ==
    \A b, c \in ran :
        decision[b] = decision[c] \/ (step[b] # NoStep /\ step[b] = step[c]) => b = c

\* The provider is never asked more often than the day's limit, though a
\* process may die with the lock held or the budget file half-written.
BudgetKept == Cardinality(asked) <= DailyLimit

\* docs/jev-executable-routing.md: "changed sources ... hand off".  A verified
\* receipt never carries evidence read from another version of the source than
\* the one it is fingerprinted with, on which reuse and later steps rely.
EvidenceIsOfItsSource ==
    \A s \in Evidence : receipt[s].state = "verified" => receipt[s].read = receipt[s].hash

\* What routed execution promises whatever races or dies between its files.
ExecutionHolds == RunsOnce /\ BudgetKept /\ EvidenceIsOfItsSource
=============================================================================

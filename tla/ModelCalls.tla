----------------------------- MODULE ModelCalls -----------------------------
(***************************************************************************)
(* Language model calls: myosRun and its entry points of                   *)
(* src/src/runtime/llm-call.js, the plans of src/src/myos-routing.js, and  *)
(* the usage ledger of src/src/runtime/myos-usage-ledger.js that the spend *)
(* caps are read from.                                                     *)
(*                                                                         *)
(* A run resolves its lane and credentials, plans candidates, and tries    *)
(* them in order; runs of one process interleave wherever one awaits.      *)
(* Events are buffered and appended by a flush that may fail between its   *)
(* two files; a failed scheduled flush is an uncaught exception.  What a   *)
(* prompt says and which model of a provider is asked are left out; a      *)
(* model counts as plain, premium or Fable.                                *)
(***************************************************************************)
EXTENDS Naturals, FiniteSets, Sequences, SequencesExt

CONSTANTS
    ModelRuns,       \* calls of myosRun in one process
    Requests,   \* per run: the options its caller may pass
    Environments, \* what the process environment and the lane file may say
    Routes,     \* per lane: what the routing files may hold: override and assignment of
                \* the local catalog, merged: targets of the lane file, base: the policy
    Cap,        \* the global daily cap; every billable answer and reserve costs 1
    MaxFailedFlushes,  \* how many flushes may fail
    MaxChanges  \* how often other processes change the OAuth registry

Lanes == {"interactive_oauth", "unattended_api", "unattended_local"}
Providers == {"local", "whisper", "openai", "anthropic", "openrouter"}
Candidates == [p : Providers, auth : {"api", "oauth", "any"}, tier : {"plain", "premium", "fable"}]
Files == {"usage", "activity"}

\* What a caller may pass: its entry point and the options that matter here.
CallerOptions == [entry : STRING, auth : STRING, lane : STRING, policy : STRING, human : STRING,
                  audio : BOOLEAN, pinned : BOOLEAN]

ASSUME CallsAssumption ==
    /\ \A r \in ModelRuns : Requests[r] \subseteq CallerOptions
    /\ IsFiniteSet(ModelRuns)
    /\ Cap \in Nat /\ MaxFailedFlushes \in Nat /\ MaxChanges \in Nat

VARIABLES
    env,       \* forced: MYOS_AUTH_MODE; default: the lane file; unattended: MYOS_INITIATOR
    stage,     \* per run: its next step
    run,       \* per run: its resolved context, the candidates still to try, and
               \* asked: executionCandidate, which a provider is called with
    eligible,  \* providers with an eligible model in the OAuth registry
    buffer,    \* pendingWritesByFile: events <<file, run, kind>> not yet appended
    written,   \* per event: lines appended
    flushDue,  \* flushScheduled
    summary,   \* spendSummaryCache: {} or the cost it holds
    process,   \* "up" or "exited"
    budget     \* faults and changes still to come

callVars == <<env, stage, run, eligible, buffer, written, flushDue, summary, process, budget>>
ledgerVars == <<buffer, written, flushDue, process>>

OauthProvider(p) == p \in {"openai", "anthropic"}
NoRun == [auth |-> "none", lane |-> "none", human |-> FALSE, legacy |-> FALSE, cands |-> <<>>,
          asked |-> {}, fromRegistry |-> FALSE, retry |-> FALSE, billed |-> FALSE, late |-> FALSE]

CallsInit ==
    /\ env \in Environments
    /\ stage = [r \in ModelRuns |-> "idle"] /\ run = [r \in ModelRuns |-> NoRun]
    /\ eligible \in SUBSET {"openai", "anthropic"}
    /\ buffer = {} /\ written = [e \in Files \X ModelRuns \X {"warning", "outcome"} |-> 0]
    /\ flushDue = FALSE /\ summary = {} /\ process = "up"
    /\ budget = [faults |-> MaxFailedFlushes, changes |-> MaxChanges]

----------------------------------------------------------------------------
(* Entry points, lane and credentials. *)

\* Changed form of LegacyRoute: the initiator marker is not looked at.
LegacyRoute_NoMarker(q) ==
    IF q.auth # "none" \/ q.lane # "none" \/ q.policy # "none" THEN q
    ELSE IF q.audio THEN [q EXCEPT !.auth = "api", !.lane = "unattended_local", !.policy = "internal_automation"]
    ELSE [q EXCEPT !.auth = "oauth", !.lane = "interactive_oauth", !.policy = "interactive_session",
                   !.human = IF q.human = "unset" THEN "yes" ELSE @]

\* applyLegacyAuthRoute: an explicit contract is the caller's, audio stays
\* local, unattended work uses the API, everything else a person's OAuth.
LegacyRoute(q) ==
    IF q.auth # "none" \/ q.lane # "none" \/ q.policy # "none" THEN q
    ELSE IF q.audio THEN [q EXCEPT !.auth = "api", !.lane = "unattended_local", !.policy = "internal_automation"]
    ELSE IF env.unattended THEN [q EXCEPT !.auth = "api", !.lane = "unattended_api", !.policy = "internal_automation"]
    ELSE [q EXCEPT !.auth = "oauth", !.lane = "interactive_oauth", !.policy = "interactive_session",
                   !.human = IF q.human = "unset" THEN "yes" ELSE @]

Given(a, b) == IF a # "none" THEN a ELSE b

EntryOptions(q) ==
    CASE q.entry = "legacy" -> LegacyRoute(q)
      [] q.entry = "oauth" -> [q EXCEPT !.auth = "oauth", !.lane = Given(@, "interactive_oauth"),
                                        !.policy = Given(@, "interactive_session")]
      [] q.entry = "api" -> [q EXCEPT !.auth = "api", !.policy = Given(@, "internal_automation"),
                             !.lane = Given(@, IF q.audio THEN "unattended_local" ELSE "unattended_api")]
      [] OTHER -> q

AuthMode(q) == Given(env.forced, Given(q.auth, env.default))

DeriveLane(q) ==
    IF q.lane # "none" THEN q.lane
    ELSE IF q.policy = "interactive_session" \/ AuthMode(q) = "oauth" THEN "interactive_oauth"
    ELSE IF q.audio THEN "unattended_local" ELSE "unattended_api"

\* The guards before a plan is made: policy, lane and credentials agree, and
\* a person watches work that uses their subscription.
LaneAccepted(q) ==
    /\ (q.policy = "interactive_session") = (DeriveLane(q) = "interactive_oauth")
    /\ (AuthMode(q) = "oauth") = (DeriveLane(q) = "interactive_oauth")
    /\ DeriveLane(q) = "interactive_oauth" => q.human = "yes"

----------------------------------------------------------------------------
(* Plans. *)

Model(c) == c.p \notin {"local", "whisper"}

Expected(lane) == IF lane = "interactive_oauth" THEN "oauth" ELSE "api"

\* A local override may leave the credentials open, a local assignment may not.
Override(f, lane) == SelectSeq(f.override, LAMBDA c : ~Model(c) \/ c.auth \in {"any", Expected(lane)})
Assignment(f, lane) == SelectSeq(f.assignment, LAMBDA c : c.auth = Expected(lane))

\* The lane file replaces the targets of the policy, unchecked.
Merged(f) == IF f.merged = <<>> THEN f.base ELSE SelectSeq(f.base, LAMBDA c : ~Model(c)) \o f.merged

\* resolveRouteEntry: an override is the whole route, an assignment goes first.
RouteOf(f, lane) ==
    IF Override(f, lane) # <<>> THEN Override(f, lane)
    ELSE LET first == Assignment(f, lane)
             others == SelectSeq(Merged(f), LAMBDA c : c \notin ToSet(first))
         IN SelectSeq(others, LAMBDA c : ~Model(c)) \o first \o SelectSeq(others, Model)

\* Only a route nobody set by hand may become local or follow the registry.
AllowsLocal(f, q) == ~q.pinned /\ f.override = <<>> /\ f.assignment = <<>> /\ f.merged = <<>>

Pinned(lane) == [p |-> "openai", auth |-> IF lane = "interactive_oauth" THEN "oauth" ELSE "api", tier |-> "plain"]

\* resolveExecutionPlan: an explicit provider or model is the only candidate;
\* a route loses its deterministic tools when there is no audio.
PlanOf(q, route) ==
    IF q.pinned THEN <<Pinned(DeriveLane(q))>>
    ELSE SelectSeq(route, LAMBDA c : c.p = "whisper" => q.audio)

\* The OAuth default route: what the registry has eligible, Codex first.
RegistryCandidates ==
    LET of(p) == IF p \in eligible THEN <<[p |-> p, auth |-> "oauth", tier |-> "plain"]>> ELSE <<>>
    IN of("openai") \o of("anthropic")

LocalCandidate(local) == IF local THEN <<[p |-> "local", auth |-> "any", tier |-> "plain"]>> ELSE <<>>

Record(r, kind, billable) ==
    /\ buffer' = buffer \cup {<<f, r, kind>> : f \in IF billable THEN {"usage"} ELSE Files}
    /\ flushDue' = TRUE

\* A legacy helper that takes a person's subscription without a terminal and
\* without a marker leaves a warning in the ledger.
Warn(r, routed) ==
    \/ routed /\ ~env.unattended /\ Record(r, "warning", FALSE) /\ UNCHANGED <<written, process>>
    \/ UNCHANGED ledgerVars

Up == process = "up"

\* What is left of a run that has ended: whether its answer was billed.
End(r, how, billed) ==
    /\ stage' = [stage EXCEPT ![r] = how]
    /\ run' = [run EXCEPT ![r] = [NoRun EXCEPT !.billed = billed]]

\* A default route without an eligible Codex model waits for a scan first.
BeginCall(r) ==
    /\ stage[r] = "idle" /\ Up
    /\ \E q0 \in Requests[r] :
         LET q == EntryOptions(q0)
             routed == q0.entry = "legacy" /\ q0 # q /\ q.auth = "oauth"
         IN /\ Warn(r, routed)
            /\ \/ /\ ~LaneAccepted(q)
                  /\ stage' = [stage EXCEPT ![r] = "refused"] /\ UNCHANGED run
               \/ /\ LaneAccepted(q)
                  /\ \E files \in Routes[DeriveLane(q)], known \in BOOLEAN, local \in BOOLEAN :
                       LET plan == PlanOf(q, RouteOf(files, DeriveLane(q)))
                           default == /\ known /\ AllowsLocal(files, q) /\ AuthMode(q) = "oauth"
                                      /\ \E i \in DOMAIN plan : plan[i].p # "whisper"
                       IN /\ local => AllowsLocal(files, q) /\ ~q.audio
                          /\ run' = [run EXCEPT ![r] =
                               [NoRun EXCEPT !.auth = AuthMode(q), !.lane = DeriveLane(q),
                                  !.human = (q.human = "yes"), !.legacy = routed, !.fromRegistry = default,
                                  !.cands = LocalCandidate(local) \o
                                            (IF default THEN RegistryCandidates ELSE plan)]]
                          /\ \/ default /\ "openai" \notin eligible /\ stage' = [stage EXCEPT ![r] = "discover"]
                             \/ stage' = [stage EXCEPT ![r] = "attempt"]
    /\ UNCHANGED <<env, eligible, summary, budget>>

\* The plan with its remote candidates replaced by those of the registry.
Replanned(cands) == SelectSeq(cands, LAMBDA c : c.p = "local") \o RegistryCandidates

\* The scan returned, or failed, with a registry that others may have changed.
Discovered(r) ==
    /\ stage[r] = "discover" /\ Up
    /\ run' = [run EXCEPT ![r].cands = Replanned(@)]
    /\ stage' = [stage EXCEPT ![r] = "attempt"]
    /\ UNCHANGED <<env, eligible, ledgerVars, summary, budget>>

----------------------------------------------------------------------------
(* The ledger. *)

Lines(f) == {e \in buffer : e[1] = f}
Plus(lines) == [e \in DOMAIN written |-> written[e] + IF e \in lines THEN 1 ELSE 0]

FlushOk == written' = Plus(buffer) /\ buffer' = {}

\* Changed form of FlushFails: the buffer is cleared whatever happened.
FlushFails_Clears(n) ==
    /\ buffer # {} /\ budget.faults >= n
    /\ UNCHANGED written
    /\ buffer' = {}

\* The usage file is written first; the buffer is cleared after both.
FlushFails(n) ==
    /\ buffer # {} /\ budget.faults >= n
    /\ \/ UNCHANGED written
       \/ Lines("activity") # {} /\ written' = Plus(Lines("usage"))
    /\ UNCHANGED buffer

Spend == [budget EXCEPT !.faults = @ - 1]

ScheduledFlush ==
    /\ flushDue /\ Up /\ FlushOk
    /\ flushDue' = FALSE
    /\ UNCHANGED <<env, stage, run, eligible, summary, process, budget>>

\* A flush from setImmediate that throws is an uncaught exception: the process
\* exits, and its exit hook flushes once more.
ScheduledFlushFails ==
    /\ flushDue /\ Up
    /\ \/ /\ FlushFails(2) /\ budget' = [budget EXCEPT !.faults = @ - 2]
       \/ /\ buffer # {} /\ budget.faults >= 1 /\ budget' = Spend
          /\ \E usage \in {{}, IF Lines("activity") = {} THEN {} ELSE Lines("usage")} :
               written' = [e \in DOMAIN written |-> Plus(buffer)[e] + IF e \in usage THEN 1 ELSE 0]
          /\ buffer' = {}
    /\ process' = "exited" /\ flushDue' = FALSE
    /\ UNCHANGED <<env, stage, run, eligible, summary>>

\* The hooks of beforeExit, exit and the signals flush and never throw.
HookFlush ==
    \/ FlushOk /\ UNCHANGED budget
    \/ FlushFails(1) /\ budget' = Spend

Exit ==
    /\ Up /\ HookFlush
    /\ process' = "exited"
    /\ UNCHANGED <<env, stage, run, eligible, flushDue, summary>>

\* The first signal of its kind only runs its hook, once that is registered:
\* the process goes on.  (The next one ends it where it stands, as SIGKILL does.)
Signal ==
    /\ Up /\ (buffer # {} \/ \E e \in DOMAIN written : written[e] > 0)
    /\ HookFlush
    /\ UNCHANGED <<env, stage, run, eligible, flushDue, summary, process>>

----------------------------------------------------------------------------
(* What a call of a provider may end with. *)

\* HTTP statuses stand for their class: "busy" is 408, 409, 429 and 500 to 504.
Responses == {"answer", "bad output", "busy", "refused", "not json", "timeout", "network"}

\* isRetryableProviderError; output that is no JSON is quoted in the message,
\* so that what it says may look like a passing failure.
Retryable(response) ==
    CASE response \in {"busy", "timeout", "network"} -> {"retryable"}
      [] response = "bad output" -> {"fatal", "retryable"}
      [] OTHER -> {"fatal"}

\* Chat completions: a body that is no JSON may be tried elsewhere.
CallOpenAI(response) == IF response = "not json" THEN {"retryable"} ELSE Retryable(response)

\* Elsewhere it is an error like any other, whatever its status.
CallOpenRouter(response) == Retryable(response)
CallGoogle(response) == Retryable(response)
CallOpenAITranscription(response) == Retryable(response)

\* The local server: every failure is retryable, a refused socket after one cold start.
CallLocal(response) == {"retryable"}

\* recordFailure of the registry: only "unsupported model" lets another try.
CallWithSubscription(response) ==
    IF response \in {"refused", "bad output"} THEN {"unsupported", "fatal"} ELSE {"fatal"}

\* The error kinds of a call that gave no usable answer.
Errors(c, auth, response) ==
    CASE c.p = "local" -> CallLocal(response)
      [] c.p = "whisper" -> {"fatal", "retryable"}
      [] auth = "oauth" /\ Model(c) -> CallWithSubscription(response)
      [] c.p = "openrouter" -> CallOpenRouter(response)
      [] c.p = "openai" -> CallOpenAI(response) \cup CallOpenAITranscription(response)
      [] OTHER -> CallGoogle(response) \cup {"fatal"}

----------------------------------------------------------------------------
(* The candidate loop. *)

Move(r, retry) ==
    IF retry /\ Len(run[r].cands) > 1
    THEN /\ run' = [run EXCEPT ![r].cands = Tail(@), ![r].asked = {}]
         /\ stage' = [stage EXCEPT ![r] = "attempt"]
    ELSE run' = [run EXCEPT ![r].asked = {}] /\ stage' = [stage EXCEPT ![r] = "notify"]

\* The catch block.  With a subscription only an unsupported model lets the
\* next candidate try, and the failure goes to the registry: without that
\* record there is no retry, and with it a scan is awaited if time is left.
Fails(r, kind) ==
    LET c == Head(run[r].cands) IN
    IF run[r].auth = "oauth" /\ Model(c)
    THEN LET retry == kind = "unsupported" /\ ~run[r].late IN
         \/ Move(r, retry) /\ UNCHANGED eligible
         \/ Move(r, FALSE) /\ UNCHANGED eligible
         \/ /\ eligible' = IF kind = "unsupported" THEN eligible \ {c.p} ELSE eligible
            /\ \/ Move(r, retry)
               \/ /\ ~run[r].late /\ stage' = [stage EXCEPT ![r] = "rescan"]
                  /\ run' = [run EXCEPT ![r].retry = retry, ![r].asked = {}]
    ELSE Move(r, kind = "retryable") /\ UNCHANGED eligible

Rescanned(r) ==
    /\ stage[r] = "rescan" /\ Up
    /\ Move(r, run[r].retry) \/ Move(r, FALSE)
    /\ UNCHANGED <<env, eligible, ledgerVars, summary, budget>>

\* The lines of billed answers in the usage file; each of them costs 1.
BilledLines(w) == UNION {{r} \X (1..w[<<"usage", r, "outcome">>]) : r \in {s \in ModelRuns : run[s].billed}}
Cost(w) == Cardinality(BilledLines(w))

\* readSpendSummaryCached: the cached cost, or that of the ledger after a flush.
ReadSummary(cost) ==
    \/ summary = {cost} /\ UNCHANGED <<buffer, written, summary>>
    \/ summary = {} /\ FlushOk /\ cost = Cost(written') /\ summary' = {cost}

Costs == 0..(Cardinality(ModelRuns) * (MaxFailedFlushes + 1))

\* validateExecutionCandidate
Valid(r, c) ==
    /\ (run[r].auth = "oauth") = (run[r].lane = "interactive_oauth")
    /\ c.p = "whisper" => run[r].lane = "unattended_local"
    /\ c.p = "local" => c.auth = "any"
    /\ Model(c) =>
         /\ c.auth = "any" \/ c.auth = run[r].auth
         /\ c.tier = "fable" => run[r].auth = "oauth"
         /\ c.p = "anthropic" /\ run[r].auth = "oauth" => "anthropic" \in eligible

Stale(r, c) == run[r].fromRegistry /\ OauthProvider(c.p) /\ c.p \notin eligible
TooLate(r) == run[r].auth = "oauth" /\ run[r].late

\* applySpendPolicyToCandidate: an API call for a premium model is made with
\* the fallback model of the policy, unless the caller is on its allow list.
Spendable(r, c) ==
    {c} \cup IF c.tier = "premium" /\ run[r].auth = "api" THEN {[c EXCEPT !.tier = "plain"]} ELSE {}

Start(r) ==
    /\ stage[r] = "attempt" /\ Up /\ run[r].cands # <<>>
    /\ \E c \in Spendable(r, Head(run[r].cands)) :
         /\ ~TooLate(r) /\ ~Stale(r, c) /\ Valid(r, c)
         /\ IF Model(Head(run[r].cands)) THEN \E cost \in Costs : ReadSummary(cost) /\ cost + 1 <= Cap
                                        ELSE UNCHANGED <<buffer, written, summary>>
         /\ run' = [run EXCEPT ![r].asked = {c}]
    /\ stage' = [stage EXCEPT ![r] = "provider"]
    /\ UNCHANGED <<env, eligible, flushDue, process, budget>>

\* What is thrown before the provider is asked is never retried: the deadline,
\* a model no longer eligible, the kill switch, a cap, a ledger that cannot be
\* read, a candidate the lane does not allow.
Blocked(r) ==
    /\ stage[r] = "attempt" /\ Up /\ run[r].cands # <<>>
    /\ LET c == Head(run[r].cands) IN
         \/ /\ TooLate(r) \/ Stale(r, c) \/ c.p # "whisper"
            /\ UNCHANGED <<buffer, written, summary, budget>>
         \/ /\ Model(c) /\ ~TooLate(r) /\ ~Stale(r, c)
            /\ \/ /\ \E cost \in Costs : ReadSummary(cost) /\ (cost + 1 > Cap \/ ~Valid(r, c))
                  /\ UNCHANGED budget
               \/ summary = {} /\ FlushFails(1) /\ budget' = Spend /\ UNCHANGED summary
         \/ ~Model(c) /\ ~Valid(r, c) /\ UNCHANGED <<buffer, written, summary, budget>>
    /\ Fails(r, "fatal")
    /\ UNCHANGED <<env, flushDue, process>>

\* The provider, the local server or the tool answered and the checks after it passed.
Succeed(r) ==
    /\ stage[r] = "provider" /\ Up
    /\ LET billed == run[r].auth = "api" /\ Model(Head(run[r].cands)) IN
         /\ Record(r, "outcome", billed)
         /\ End(r, "done", billed)
    /\ summary' = {}
    /\ UNCHANGED <<env, eligible, written, process, budget>>

\* An error of the provider, a timeout, or an answer over the budget of the call.
Answerless(r) ==
    /\ stage[r] = "provider" /\ Up
    /\ \E response \in Responses \ {"answer"} :
         \E kind \in Errors(Head(run[r].cands), run[r].auth, response) : Fails(r, kind)
    /\ UNCHANGED <<env, ledgerVars, summary, budget>>

\* A plan without candidates throws without an event.
NoCandidate(r) ==
    /\ stage[r] = "attempt" /\ Up /\ run[r].cands = <<>>
    /\ End(r, "refused", FALSE)
    /\ UNCHANGED <<env, eligible, ledgerVars, summary, budget>>

\* After the alert was sent, or was not: the error event, and the error is thrown.
Notified(r) ==
    /\ stage[r] = "notify" /\ Up
    /\ Record(r, "outcome", run[r].auth = "api" /\ Model(Head(run[r].cands)))
    /\ summary' = {} /\ End(r, "failed", FALSE)
    /\ UNCHANGED <<env, eligible, written, process, budget>>

----------------------------------------------------------------------------
(* Time, and other processes. *)

DeadlinePasses(r) ==
    /\ stage[r] \in {"discover", "attempt", "provider", "rescan"} /\ run[r].auth = "oauth" /\ ~run[r].late
    /\ Up /\ run' = [run EXCEPT ![r].late = TRUE]
    /\ UNCHANGED <<env, stage, eligible, ledgerVars, summary, budget>>

SummaryExpires ==
    /\ summary # {} /\ summary' = {}
    /\ UNCHANGED <<env, stage, run, eligible, ledgerVars, budget>>

OthersChangeEligible ==
    /\ budget.changes > 0 /\ budget' = [budget EXCEPT !.changes = @ - 1]
    /\ \E p \in {"openai", "anthropic"} : eligible' = IF p \in eligible THEN eligible \ {p} ELSE eligible \cup {p}
    /\ UNCHANGED <<env, stage, run, ledgerVars, summary>>

RunStep(r) ==
    \/ BeginCall(r) \/ Discovered(r) \/ Start(r) \/ Blocked(r) \/ Succeed(r) \/ Answerless(r)
    \/ NoCandidate(r) \/ Rescanned(r) \/ Notified(r) \/ DeadlinePasses(r)

CallsNext ==
    \/ \E r \in ModelRuns : RunStep(r)
    \/ ScheduledFlush \/ ScheduledFlushFails \/ Exit \/ Signal
    \/ SummaryExpires \/ OthersChangeEligible

CallsSpec == CallsInit /\ [][CallsNext]_callVars

----------------------------------------------------------------------------
(* Properties *)

\* Whatever way a call came in, whatever its environment overrides and however
\* far down its chain it is: a subscription is used only for interactive work a
\* person watches, never by a helper in a process marked unattended, and never
\* replaced by or for an API key; Fable is never asked with an API key.
LanesHold ==
    \A r \in ModelRuns : stage[r] = "provider" =>
        \E c \in run[r].asked :
        /\ run[r].auth = "oauth" =>
             /\ run[r].lane = "interactive_oauth" /\ run[r].human
             /\ run[r].legacy => ~env.unattended
             /\ Model(c) => c.auth \in {"oauth", "any"}
        /\ run[r].auth = "api" =>
             /\ run[r].lane # "interactive_oauth"
             /\ Model(c) => c.auth # "oauth" /\ c.tier # "fable"

\* The runs whose answer this process was billed for.
Paid == {s \in ModelRuns : stage[s] = "done" /\ run[s].billed}

\* A model is asked only when what this process has finished paying for leaves
\* room under the cap, however the ledger is buffered, cached or retried.
CapSeesFinished ==
    \A r \in ModelRuns : stage[r] = "attempt" /\ stage'[r] = "provider" /\ Model(Head(run[r].cands)) =>
        Cardinality(Paid) + 1 <= Cap

\* The outcome of a run is in its ledger file or still buffered, at most once
\* more than flushes failed; a process that exits
\* with its flushes intact leaves it there exactly once.
EventsKept ==
    \A r \in ModelRuns : stage[r] \in {"done", "failed"} =>
        LET e == <<"usage", r, "outcome">> IN
        /\ written[e] > 0 \/ e \in buffer
        /\ written[e] <= 1 + MaxFailedFlushes - budget.faults
        /\ ~Up /\ budget.faults = MaxFailedFlushes => written[e] = 1

\* What calls cost is neither lost by the ledger nor missed by the cap.
SpendIsCounted == [][CapSeesFinished /\ EventsKept']_callVars
=============================================================================

--------------------------- MODULE EvidenceShadow ---------------------------
(***************************************************************************)
(* How the typed-evidence planner earns its authority: the records of      *)
(* src/src/promotion/typed-evidence-shadow-policy.js, its canary and       *)
(* src/scripts/evaluate-typed-evidence-shadow.js.                          *)
(*                                                                         *)
(* A replay scores a corpus and overwrites the metrics of the active       *)
(* stage; a comparison of a live dispatch counts in them; either may       *)
(* promote.  Each reads the state file and replaces it by a rename, with   *)
(* no lock: recorders of several processes overlap and may die in between. *)
(***************************************************************************)
EXTENDS DispatchPlan

CONSTANTS
    Replays, Comparisons,   \* processes that record one of each
    Cases,                  \* of the replay corpus
    MinCases, MinSafe,      \* criteria of v1
    MinLive, MinUses        \* criteria of v2

EvidenceWriters == Replays \cup Comparisons

ASSUME EvidenceAssumption ==
    /\ Replays \cap Comparisons = {}
    /\ IsFiniteSet(Cases)
    /\ {MinCases, MinSafe, MinLive, MinUses} \subseteq Nat \ {0} /\ MinUses <= MinLive

VARIABLES
    shadowState,    \* the state file: the active stage and the metrics of v1 and v2
    recorder,       \* per process: its step, what it records and the state it read
    shown        \* <<process, stage it counted for, what it shows>> of each record

evidenceVars == <<shadowState, recorder, shown>>

NoCounts == [cases |-> 0, passed |-> 0, safe |-> 0, dangerous |-> 0, live |-> 0, uses |-> 0, good |-> 0]
NoEvidence == [stage |-> "v1", v1 |-> NoCounts, v2 |-> NoCounts]
NoRecord == [kind |-> "none", result |-> NoCounts, clean |-> FALSE, used |-> FALSE, good |-> FALSE]

EvidenceInit ==
    /\ shadowState = NoEvidence /\ shown = {}
    /\ recorder = [p \in EvidenceWriters |-> [at |-> "idle", record |-> NoRecord, state |-> NoEvidence]]

----------------------------------------------------------------------------
(* A replay *)

\* What a case shows, at v2: the expected route, a route that v2 would follow,
\* or one that it would and must not.
CaseOutcomes == {"expected", "expected and safe", "another", "forbidden"}
Safe(o) == o \in {"expected and safe", "forbidden"}

Passed(o) == o \in {"expected", "expected and safe"}

\* evaluateTypedEvidenceReplayCases, of a function from cases to outcomes.
Replayed(outcome) ==
    LET counted(Kept) == Cardinality({c \in DOMAIN outcome : outcome[c] \in Kept}) IN
    [NoCounts EXCEPT !.cases = counted(CaseOutcomes), !.passed = counted({o \in CaseOutcomes : Passed(o)}),
                     !.safe = counted({o \in CaseOutcomes : Safe(o)}), !.dangerous = counted({"forbidden"})]

\* A replay of enough cases that all passed, none of them forbidden.
Clean(outcome) ==
    /\ Cardinality(DOMAIN outcome) >= MinCases
    /\ \A c \in DOMAIN outcome : outcome[c] \in {"expected", "expected and safe"}
    /\ Cardinality({c \in DOMAIN outcome : Safe(outcome[c])}) >= MinSafe

----------------------------------------------------------------------------
(* A comparison *)

\* DispatchedRoutes as attachShadowDispatch may see them: a lookup, a reference, one that
\* only v3 follows, a risky lookup, a write.
DispatchedRoutes ==
    {[branch |-> "data", lane |-> "data_lookup", action |-> "read", intent |-> "directive", risky |-> r] : r \in BOOLEAN}
    \cup {[branch |-> "project", lane |-> "worker_skill", action |-> a, intent |-> "directive", risky |-> FALSE] :
            a \in {"read", "write"}}

\* Changed form of Remeasured: the cases of a replay are added to those before.
Remeasured_Adds(result, m) ==
    [m EXCEPT !.cases = @ + result.cases, !.passed = @ + result.passed,
              !.safe = @ + result.safe, !.dangerous = @ + result.dangerous]

\* recordTypedEvidenceReplayEvaluation: only the latest replay counts.
Remeasured(result, m) == [result EXCEPT !.live = m.live, !.uses = m.uses, !.good = m.good]

\* recordTypedEvidenceShadowLiveComparison
OneIf(b) == IF b THEN 1 ELSE 0

Compared(r, m) ==
    [m EXCEPT !.live = @ + 1, !.uses = @ + OneIf(r.used), !.good = @ + OneIf(r.used /\ r.good)]

----------------------------------------------------------------------------
(* What a record makes of a state; stages may be promoted unless that is     *)
(* switched off.                                                             *)

\* A rate of failures of at most 0.1 is none where there are fewer than ten uses.
MeetsCriteria(stage, m) ==
    IF stage = "v1"
    THEN m.cases >= MinCases /\ m.passed = m.cases /\ m.safe >= MinSafe /\ m.dangerous = 0
    ELSE /\ m.live >= MinLive /\ m.uses >= MinUses /\ m.good >= MinUses
         /\ 10 * (m.uses - m.good) <= m.uses /\ m.dangerous = 0

CountedIn(s, r) ==
    LET change(m) == IF r.kind = "replay" THEN Remeasured(r.result, m) ELSE Compared(r, m)
    IN  CASE s.stage = "v1" -> [s EXCEPT !.v1 = change(@)]
          [] s.stage = "v2" -> [s EXCEPT !.v2 = change(@)]
          [] OTHER          -> s

PromotedFrom(s) ==
    {s} \cup IF s.stage = "v1" /\ MeetsCriteria("v1", s.v1) THEN {[s EXCEPT !.stage = "v2"]}
             ELSE IF s.stage = "v2" /\ MeetsCriteria("v2", s.v2) THEN {[s EXCEPT !.stage = "v3"]} ELSE {}

----------------------------------------------------------------------------

\* The script evaluates the corpus and records what it found.
BeginReplay(p) ==
    /\ recorder[p].at = "idle"
    /\ \E cases \in (SUBSET Cases) \ {{}} : \E outcome \in [cases -> CaseOutcomes] :
         recorder' = [recorder EXCEPT ![p] =
           [at |-> "recording", state |-> shadowState,
            record |-> [NoRecord EXCEPT !.kind = "replay", !.result = Replayed(outcome), !.clean = Clean(outcome)]]]
    /\ UNCHANGED <<shadowState, shown>>

\* A dispatch is decided at the stage it reads, or at v2, which the canary
\* pins when it is given no state file.
Dispatch(p) ==
    /\ recorder[p].at = "idle"
    /\ \E r \in DispatchedRoutes, stage \in {shadowState.stage, "v2"} :
         recorder' = [recorder EXCEPT ![p].at = "dispatched",
                        ![p].record = [NoRecord EXCEPT !.kind = "comparison", !.used = SafeAuthoritative(stage, r)]]
    /\ UNCHANGED <<shadowState, shown>>

\* It is recorded when its outcome is known, in the state of that time.
BeginComparison(p) ==
    /\ recorder[p].at = "dispatched"
    /\ \E good \in IF recorder[p].record.used THEN BOOLEAN ELSE {FALSE} :
         recorder' = [recorder EXCEPT ![p].at = "recording", ![p].record.good = good, ![p].state = shadowState]
    /\ UNCHANGED <<shadowState, shown>>

Shows(r) ==
    CASE r.kind = "replay"  -> IF r.clean THEN "a clean replay" ELSE "a replay"
      [] r.used /\ r.good   -> "a good use"
      [] OTHER              -> "a comparison"

EndRecord(p) ==
    LET s == recorder[p].state IN
    /\ recorder[p].at = "recording"
    /\ shadowState' \in PromotedFrom(CountedIn(s, recorder[p].record))
    /\ shown' = shown \cup {<<p, s.stage, Shows(recorder[p].record)>>}
    /\ recorder' = [recorder EXCEPT ![p] = [at |-> "done", record |-> NoRecord, state |-> NoEvidence]]

RecordLost(p) ==
    /\ recorder[p].at \in {"dispatched", "recording"}
    /\ recorder' = [recorder EXCEPT ![p] = [at |-> "done", record |-> NoRecord, state |-> NoEvidence]]
    /\ UNCHANGED <<shadowState, shown>>

EvidenceNext ==
    \/ \E p \in EvidenceWriters : EndRecord(p) \/ RecordLost(p)
    \/ \E p \in Replays : BeginReplay(p)
    \/ \E p \in Comparisons : Dispatch(p) \/ BeginComparison(p)

EvidenceSpec == EvidenceInit /\ [][EvidenceNext]_evidenceVars

----------------------------------------------------------------------------

\* However records overlap, overwrite one another and get lost: a stage that
\* follows the typed-evidence planner was earned by a replay that passed as a
\* whole, with nothing authorised that must not be; the last stage also by as
\* many comparisons, and as many successful uses, as it asks for, all of them
\* recorded in the stage before.
AuthorityIsEarned ==
    LET later(kinds) == {e \in shown : e[2] = "v2" /\ e[3] \in kinds} IN
    /\ shadowState.stage # "v1" => \E p \in Replays : <<p, "v1", "a clean replay">> \in shown
    /\ shadowState.stage = "v3" =>
         /\ Cardinality(later({"a comparison", "a good use"})) >= MinLive
         /\ Cardinality(later({"a good use"})) >= MinUses
=============================================================================

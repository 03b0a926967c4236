----------------------- MODULE MCParallelizationPolicy -----------------------
(* Instances of ParallelizationPolicy: the runs that calls may record. *)
EXTENDS ParallelizationPolicy, TLC

CONSTANTS codex, review

Result(status, timeout) ==
    [runner |-> codex, kind |-> review, status |-> status, timeout |-> timeout,
     useful |-> status = "completed", capable |-> status = "completed"]

Success == Result("completed", FALSE)
Failing == Result("failed", FALSE)
TimesOut == Result("failed", TRUE)

\* One or two results of one provider for one kind of task, no stage pinned.
HealthRuns == {[stage |-> "active", results |-> rs] :
    rs \in {<<>>, <<Success>>, <<Failing>>, <<TimesOut>>, <<TimesOut, TimesOut>>}}

\* Runs that are pinned to a stage, and one that is not.
StageRuns ==
    {[stage |-> s, results |-> rs] :
        s \in {"v2", "v3"}, rs \in {<<Success>>, <<Success, Failing>>}}
    \cup {[stage |-> "active", results |-> <<Success>>]}

AllRuns == HealthRuns \cup {r \in StageRuns : r.stage = "v3" => Len(r.results) = 1}

Criteria(n) == [s \in {"v2", "v3"} |-> n]
Twice == Criteria(2)
Once == Criteria(1)
=============================================================================

---------------------------- MODULE MCDecisions ----------------------------
(* What decides from evidence gathered over time, one beside the other as   *)
(* they share no state: the policies, the plans of a dispatch, and the      *)
(* index of a search, which decides what it may vouch for.  A behaviour is  *)
(* one of a single decider, whose own specification it satisfies.           *)
EXTENDS MCParallelizationPolicy, DispatcherHealth, EvidenceShadow, SearchIndex

VARIABLE decider

\* The others stay in one of their initial states.
DecisionsInit ==
    /\ PolicyInit /\ HealthInit /\ PlanInit /\ EvidenceInit /\ SearchIndexInit
    /\ decider \in {"stages", "health", "plan", "shadow", "index"}
    /\ decider # "index" => listing = NoListing /\ catalogue = NoCatalogue /\ \A f \in Indexable : Reads(f) # 0

DecisionsNext ==
    /\ UNCHANGED decider
    /\ \/ /\ decider = "stages" /\ PolicyNext
          /\ UNCHANGED <<healthVars, planVars, evidenceVars, indexVars>>
       \/ /\ decider = "health" /\ HealthNext
          /\ UNCHANGED <<policyVars, planVars, evidenceVars, indexVars>>
       \/ /\ decider = "plan" /\ PlanNext
          /\ UNCHANGED <<policyVars, healthVars, evidenceVars, indexVars>>
       \/ /\ decider = "shadow" /\ EvidenceNext
          /\ UNCHANGED <<policyVars, healthVars, planVars, indexVars>>
       \/ /\ decider = "index" /\ SearchIndexNext
          /\ UNCHANGED <<policyVars, healthVars, planVars, evidenceVars>>

DecisionsSpec ==
    DecisionsInit
    /\ [][DecisionsNext]_<<policyVars, healthVars, planVars, evidenceVars, indexVars, decider>>

=============================================================================

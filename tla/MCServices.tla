----------------------------- MODULE MCServices -----------------------------
(* The services that share no state, one beside the other: a behaviour is   *)
(* one of a single service, whose own specification it satisfies.           *)
EXTENDS CommandTeardown, BoundedCall, SearchFreshness, SearchService, AdmissionManifest,
        MCRegistryScan

VARIABLE side

\* The others stay in one of their initial states.
ServicesInit ==
    /\ Init /\ BoundedInit /\ FreshnessInit /\ ServiceInit /\ AdmissionInit /\ ScanInit
    /\ side \in {"command", "bounded", "freshness", "service", "admission", "scan"}
    /\ side # "command" => HasPid
    /\ side # "bounded" => policy = CHOOSE p \in Policies : TRUE
    /\ side # "freshness" => host = "ready"

ServicesNext ==
    /\ UNCHANGED side
    /\ \/ side = "command" /\ Next
          /\ UNCHANGED <<boundedVars, freshnessVars, serviceVars, admissionVars, scanVars>>
       \/ side = "bounded" /\ BoundedNext
          /\ UNCHANGED <<vars, freshnessVars, serviceVars, admissionVars, scanVars>>
       \/ side = "freshness" /\ FreshnessNext
          /\ UNCHANGED <<vars, boundedVars, serviceVars, admissionVars, scanVars>>
       \/ side = "service" /\ ServiceNext
          /\ UNCHANGED <<vars, boundedVars, freshnessVars, admissionVars, scanVars>>
       \/ side = "admission" /\ AdmissionNext
          /\ UNCHANGED <<vars, boundedVars, freshnessVars, serviceVars, scanVars>>
       \/ side = "scan" /\ ScanNext
          /\ UNCHANGED <<vars, boundedVars, freshnessVars, serviceVars, admissionVars>>

\* The fairness of each service, as far as a behaviour is one of that service.
ServicesSpec ==
    /\ ServicesInit
    /\ [][ServicesNext]_<<vars, boundedVars, freshnessVars, serviceVars, admissionVars, scanVars, side>>
    /\ WF_vars(side = "command" /\ Tick) /\ WF_vars(side = "command" /\ TimeoutFires)
    /\ WF_vars(side = "command" /\ Poll) /\ WF_vars(side = "command" /\ ErrorEvent)
    /\ WF_vars(side = "command" /\ ExitEvent) /\ WF_vars(side = "command" /\ CloseEvent)
    /\ \A r \in Requests : WF_scanVars(side = "scan" /\ Own(r))
    /\ BoundedFair /\ FreshnessFair
=============================================================================

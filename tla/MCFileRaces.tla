---------------------------- MODULE MCFileRaces ----------------------------
(* Files that processes race for: the damaged OAuth registry, the claims,    *)
(* receipts and budget of routed execution, the settings file hooks are      *)
(* registered in, the files of a reconciliation, and the files and rules of  *)
(* an onboarding.  They share no state: a behaviour is one of a single side, *)
(* whose own specification it satisfies, and the others stay in an initial   *)
(* state.                                                                    *)
EXTENDS RegistryFile, MCRoutedExecution, Registration, AtelierReconcile, Onboarding, TLC

VARIABLE race

RacesInit ==
    /\ Init /\ StepsInit /\ RegistrationInit /\ ReconcileInit /\ OnboardingInit
    /\ race \in {"registry", "steps", "settings", "projection", "onboarding"}
    /\ race # "settings" => settings = NoFile
    /\ race # "onboarding" => entries = [s \in Stores |-> {Owner}]

RacesNext ==
    /\ UNCHANGED race
    /\ \/ race = "registry" /\ (Next \/ Damage)
          /\ UNCHANGED <<routedVars, registrationVars, reconcileVars, onboardVars>>
       \/ race = "steps" /\ StepsNext
          /\ UNCHANGED <<vars, registrationVars, reconcileVars, onboardVars>>
       \/ race = "settings" /\ RegistrationNext
          /\ UNCHANGED <<vars, routedVars, reconcileVars, onboardVars>>
       \/ race = "projection" /\ ReconcileNext
          /\ UNCHANGED <<vars, routedVars, registrationVars, onboardVars>>
       \/ race = "onboarding" /\ OnboardingNext
          /\ UNCHANGED <<vars, routedVars, registrationVars, reconcileVars>>

RacesSpec ==
    RacesInit
    /\ [][RacesNext]_<<vars, routedVars, registrationVars, reconcileVars, onboardVars, race>>

OneProjection == <<"projection">>
ThreeRegistries == <<"registry 1", "registry 2", "registry 3">>

CallSymmetry == Permutations(Calls)
=============================================================================

------------------------------ MODULE MCCalls ------------------------------
(* What a session has run for it, which shares no state: workers of Codex,  *)
(* calls of myosRun, the hooks of its prompts with the sidecars they start, *)
(* the footer of their route blocks, and the project they inherit from the  *)
(* session.  A behaviour is one of a single kind, whose own specification   *)
(* it satisfies.                                                            *)
EXTENDS CodexSession, MCModelCalls, MCHookSidecars, RouteContext, SessionRoute

VARIABLE caller

\* The others stay in one of their initial states.
CallersInit ==
    /\ Init /\ CallsInit /\ HookInit /\ ContextInit /\ SessionRouteInit
    /\ caller \in {"worker", "model", "hook", "footer", "session"}
    /\ caller # "model" => eligible = {} /\ env = CHOOSE e \in Environments : TRUE

CallersNext ==
    /\ UNCHANGED caller
    /\ \/ caller = "worker" /\ Next /\ UNCHANGED <<callVars, hookVars, contextVars, routeVars>>
       \/ caller = "model" /\ CallsNext /\ UNCHANGED <<vars, hookVars, contextVars, routeVars>>
       \/ caller = "hook" /\ HookNext /\ UNCHANGED <<vars, callVars, contextVars, routeVars>>
       \/ caller = "footer" /\ ContextNext /\ UNCHANGED <<vars, callVars, hookVars, routeVars>>
       \/ caller = "session" /\ SessionRouteNext /\ UNCHANGED <<vars, callVars, hookVars, contextVars>>

CallersSpec == CallersInit /\ [][CallersNext]_<<vars, callVars, hookVars, contextVars, routeVars, caller>>
=============================================================================

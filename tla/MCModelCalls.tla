---------------------------- MODULE MCModelCalls ----------------------------
(* An instance of ModelCalls: every kind of caller, and files set by hand. *)
EXTENDS ModelCalls

CONSTANTS r1, r2

Q(entry, auth, lane, human, audio, pinned) ==
    [entry |-> entry, auth |-> auth, lane |-> lane, policy |-> "none", human |-> human,
     audio |-> audio, pinned |-> pinned]

\* Callers that say nothing, and callers that name part of the contract.
AllRequests ==
    {Q(entry, "none", "none", human, FALSE, FALSE) : entry \in {"myosRun", "legacy"}, human \in {"unset", "yes"}}
    \cup {Q("myosRun", "none", "none", "yes", TRUE, FALSE), Q("legacy", "none", "none", "unset", TRUE, FALSE)}
    \cup {Q(entry, "none", "none", "yes", FALSE, FALSE) : entry \in {"oauth", "api"}}
    \cup {Q("myosRun", "oauth", "none", "yes", FALSE, TRUE), Q("legacy", "oauth", "unattended_api", "yes", FALSE, TRUE),
          Q("oauth", "none", "unattended_api", "yes", FALSE, TRUE)}
    \cup {[Q("myosRun", "oauth", "none", human, FALSE, FALSE) EXCEPT !.policy = "interactive_session"] :
            human \in {"unset", "yes"}}

C(p, auth, tier) == [p |-> p, auth |-> auth, tier |-> tier]

Policy(base) == [override |-> <<>>, assignment |-> <<>>, merged |-> <<>>, base |-> base]

\* The policy of each lane, and files in which somebody set another route.
AllRoutes ==
    LET person == Policy(<<C("openai", "oauth", "premium"), C("anthropic", "oauth", "fable")>>)
        api == Policy(<<C("openai", "api", "premium"), C("openrouter", "any", "plain")>>)
        audio == Policy(<<C("whisper", "any", "plain"), C("openai", "api", "plain")>>)
    IN [l \in {"interactive_oauth", "unattended_api", "unattended_local"} |->
       CASE l = "interactive_oauth" -> {person, [person EXCEPT !.assignment = <<C("openai", "oauth", "plain")>>]}
         [] l = "unattended_api" ->
              {[api EXCEPT !.merged = <<C("openrouter", "any", "fable"), C("openai", "oauth", "plain")>>],
               [api EXCEPT !.override = <<C("openai", "any", "plain"), C("anthropic", "oauth", "fable")>>]}
         [] l = "unattended_local" -> {audio}]

\* Every kind of caller beside one that asks for an API answer.
RequestsOf == (r1 :> AllRequests) @@ (r2 :> {Q("api", "none", "none", "unset", FALSE, FALSE)})

Env(forced, default, unattended) == [forced |-> forced, default |-> default, unattended |-> unattended]
AllEnvironments == {Env("none", "api", FALSE), Env("oauth", "oauth", TRUE)}
=============================================================================

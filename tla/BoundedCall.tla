---------------------------- MODULE BoundedCall ----------------------------
(***************************************************************************)
(* runBoundedAPI of src/src/runtime/bounded-api.js: one request under a    *)
(* reservation of its caller's authority, with a wall deadline and the     *)
(* caller's cancellation.  Every await is a race with the expiration;      *)
(* between two awaits the call runs alone.                                 *)
(*                                                                         *)
(* The authority is the caller's callback: it may grant, refuse, answer    *)
(* after the call is over, or never answer.  What a request says is left   *)
(* out; a launch policy (credential, route and price) is a version.        *)
(***************************************************************************)
EXTENDS Naturals

CONSTANTS
    BoundedCalls, \* bounded calls of one process
    Policies,  \* launch policies the configuration may hold
    Usable     \* those under which prepare does not throw

Receipts == {"good", "mismatched", "unlabelled"}
Guards == {"none", "allows", "refuses", "aborts"}
Over == {"ok", "failed"}

ASSUME BoundedAssumption == Usable \subseteq Policies

VARIABLES
    pc,        \* per call: where it awaits
    policy,    \* the launch policy of the configuration
    before,    \* per call: the policy its reservation was asked for
    stop,      \* per call: stopCode, "none" until the first stop
    past,      \* per call: "yes" once the clock is past its deadline
    authority, \* per call: what the authority has done
    receipt,   \* per call: the receipt it received, "none" before
    held,      \* per call: reservationId known, reservationPending
    requests,  \* per call: what each request was sent under
    report     \* per call: what the error of a failed call carries

boundedVars == <<pc, policy, before, stop, past, authority, receipt, held, requests, report>>

NoReport == [attempted |-> "no", id |-> "none", pending |-> "no"]

BoundedInit ==
    /\ pc = [c \in BoundedCalls |-> "start"] /\ policy \in Policies /\ before = [c \in BoundedCalls |-> "none"]
    /\ stop = [c \in BoundedCalls |-> "none"] /\ past = [c \in BoundedCalls |-> "no"]
    /\ authority = [c \in BoundedCalls |-> "idle"] /\ receipt = [c \in BoundedCalls |-> "none"]
    /\ held = [c \in BoundedCalls |-> [id |-> "none", pending |-> "no"]]
    /\ requests = [c \in BoundedCalls |-> 0] /\ report = [c \in BoundedCalls |-> NoReport]

\* The catch block: the report is made of the variables as they are now.
Catch(c, v) ==
    /\ pc' = [pc EXCEPT ![c] = "failed"]
    /\ report' = [report EXCEPT ![c] = [attempted |-> IF requests[c] = 0 THEN "no" ELSE "yes",
                                        id |-> v.id, pending |-> v.pending]]

\* stopCode or the clock, as every check reads them.
Stopped(c) == stop[c] # "none" \/ past[c] = "yes"

----------------------------------------------------------------------------

\* Validation and the first preparation: invalid options, a signal aborted
\* before the call, a deadline gone by and an unusable policy all refuse.
Validate(c) ==
    /\ pc[c] = "start"
    /\ \/ policy \in Usable
          /\ pc' = [pc EXCEPT ![c] = "authorize"] /\ before' = [before EXCEPT ![c] = policy]
          /\ UNCHANGED report
       \/ Catch(c, held[c]) /\ UNCHANGED before
    /\ UNCHANGED <<policy, stop, past, authority, receipt, held, requests>>

\* The reservation is asked for in a later turn of the event loop.
CallAuthority(c) ==
    /\ pc[c] = "authorize"
    /\ IF Stopped(c)
       THEN Catch(c, held[c]) /\ UNCHANGED <<authority, held>>
       ELSE /\ pc' = [pc EXCEPT ![c] = "waiting"]
            /\ held' = [held EXCEPT ![c].pending = "yes"]
            /\ authority' = [authority EXCEPT ![c] = "asked"] /\ UNCHANGED report
    /\ UNCHANGED <<policy, before, stop, past, receipt, requests>>

\* The authority commits or refuses; it does not have to.
Decide(c) ==
    /\ authority[c] = "asked"
    /\ \E answer \in {"granted", "refused"} : authority' = [authority EXCEPT ![c] = answer]
    /\ UNCHANGED <<pc, policy, before, stop, past, receipt, held, requests, report>>

\* Changed form of Grant: the reservation is noted by the code after the await.
Grant_LateId(c) ==
    /\ authority[c] = "granted" /\ receipt[c] = "none"
    /\ \E kind \in Receipts :
         /\ receipt' = [receipt EXCEPT ![c] = kind]
         /\ held' = [held EXCEPT ![c].pending = "no"]
    /\ pc' = [pc EXCEPT ![c] = IF @ = "waiting" /\ stop[c] = "none" THEN "reserved" ELSE @]
    /\ UNCHANGED <<policy, before, stop, past, authority, requests, report>>

\* The receipt: its handler runs even if the call has lost the race to a stop
\* or is over, and wakes the call otherwise.
Grant(c) ==
    /\ authority[c] = "granted" /\ receipt[c] = "none"
    /\ \E kind \in Receipts :
         /\ receipt' = [receipt EXCEPT ![c] = kind]
         /\ held' = [held EXCEPT ![c] = [id |-> IF kind = "unlabelled" THEN @.id ELSE "known", pending |-> "no"]]
    /\ pc' = [pc EXCEPT ![c] = IF @ = "waiting" /\ stop[c] = "none" THEN "reserved" ELSE @]
    /\ UNCHANGED <<policy, before, stop, past, authority, requests, report>>

Refusal(c) ==
    /\ authority[c] = "refused" /\ held[c].pending = "yes"
    /\ held' = [held EXCEPT ![c].pending = "no"]
    /\ IF pc[c] = "waiting" THEN Catch(c, held'[c]) ELSE UNCHANGED <<pc, report>>
    /\ UNCHANGED <<policy, before, stop, past, authority, receipt, requests>>

\* The timer, or the caller's signal; the first one names the failure.
Stop(c) ==
    /\ pc[c] \notin Over \cup {"start"} /\ stop[c] = "none"
    /\ \E code \in {"deadline", "cancelled"} :
         /\ code = "deadline" => past[c] = "yes"
         /\ stop' = [stop EXCEPT ![c] = code]
    /\ UNCHANGED <<pc, policy, before, past, authority, receipt, held, requests, report>>

\* Changed form of Expire: the wait for the authority is no race.
Expire_NotWhileWaiting(c) ==
    /\ pc[c] \in {"sent", "reading", "diagnosing"} /\ stop[c] # "none"
    /\ Catch(c, held[c])
    /\ UNCHANGED <<policy, before, stop, past, authority, receipt, held, requests>>

\* The expiration wins the race of whatever the call awaits.
Expire(c) ==
    /\ pc[c] \in {"waiting", "sent", "reading", "diagnosing"} /\ stop[c] # "none"
    /\ Catch(c, held[c])
    /\ UNCHANGED <<policy, before, stop, past, authority, receipt, held, requests>>

\* The receipt is checked, the launch is prepared again and must digest to
\* what was reserved, and the guard runs; it may take until the deadline or
\* abort the signal itself, so both are looked at again before the request.
Launch(c) ==
    /\ pc[c] = "reserved"
    /\ \E guard \in Guards, late \in {past[c], "yes"} :
         /\ stop' = [stop EXCEPT ![c] = IF guard = "aborts" /\ @ = "none" THEN "cancelled" ELSE @]
         /\ past' = [past EXCEPT ![c] = late]
         /\ IF /\ stop[c] = "none" /\ receipt[c] = "good"
               /\ policy = before[c] /\ policy \in Usable
               /\ guard # "refuses" /\ stop'[c] = "none" /\ late = "no"
            THEN /\ pc' = [pc EXCEPT ![c] = "sent"]
                 /\ requests' = [requests EXCEPT ![c] = @ + 1] /\ UNCHANGED report
            ELSE Catch(c, held[c]) /\ UNCHANGED requests
    /\ UNCHANGED <<policy, before, authority, receipt, held>>

\* The provider's answer, whose body is another await; a refusal's body is
\* read for a diagnosis within a limit of its own.
Respond(c) ==
    /\ pc[c] = "sent" /\ stop[c] = "none"
    /\ \/ \E next \in {"reading", "diagnosing"} : pc' = [pc EXCEPT ![c] = next] /\ UNCHANGED report
       \/ Catch(c, held[c])
    /\ UNCHANGED <<policy, before, stop, past, authority, receipt, held, requests>>

\* A complete answer returns; one without usage, over its limits, cut short
\* or of another model fails, and the request stays counted.
ReadBody(c) ==
    /\ pc[c] = "reading" /\ stop[c] = "none"
    /\ \/ pc' = [pc EXCEPT ![c] = "ok"] /\ UNCHANGED report
       \/ Catch(c, held[c])
    /\ UNCHANGED <<policy, before, stop, past, authority, receipt, held, requests>>

Diagnose(c) ==
    /\ pc[c] = "diagnosing" /\ stop[c] = "none"
    /\ Catch(c, held[c])
    /\ UNCHANGED <<policy, before, stop, past, authority, receipt, held, requests>>

\* The deadline goes by, at any point of the call; others edit the configuration.
DeadlinePasses(c) ==
    /\ pc[c] \notin Over \cup {"start"} /\ past[c] = "no" /\ past' = [past EXCEPT ![c] = "yes"]
    /\ UNCHANGED <<pc, policy, before, stop, authority, receipt, held, requests, report>>

EditPolicy ==
    /\ policy' \in Policies \ {policy}
    /\ UNCHANGED <<pc, before, stop, past, authority, receipt, held, requests, report>>

----------------------------------------------------------------------------

BoundedNext ==
    \/ EditPolicy
    \/ \E c \in BoundedCalls :
         \/ Validate(c) \/ CallAuthority(c) \/ Decide(c) \/ Grant(c) \/ Refusal(c) \/ Stop(c)
         \/ Expire(c) \/ Launch(c) \/ Respond(c) \/ ReadBody(c) \/ Diagnose(c) \/ DeadlinePasses(c)

\* The clock, the timer and the event loop move on; the authority, the
\* provider and the caller owe nothing.
BoundedFair ==
    \A c \in BoundedCalls :
      /\ WF_boundedVars(CallAuthority(c)) /\ WF_boundedVars(DeadlinePasses(c))
      /\ WF_boundedVars(Stop(c)) /\ WF_boundedVars(Expire(c)) /\ WF_boundedVars(Launch(c))

BoundedSpec == BoundedInit /\ [][BoundedNext]_boundedVars /\ BoundedFair

----------------------------------------------------------------------------
(* Properties. *)

BoundedTypeOK ==
    /\ pc \in [BoundedCalls -> {"start", "authorize", "waiting", "reserved", "sent", "reading", "diagnosing"} \cup Over]
    /\ policy \in Policies /\ before \in [BoundedCalls -> Policies \cup {"none"}]
    /\ stop \in [BoundedCalls -> {"none", "deadline", "cancelled"}] /\ past \in [BoundedCalls -> {"yes", "no"}]
    /\ authority \in [BoundedCalls -> {"idle", "asked", "granted", "refused"}]
    /\ receipt \in [BoundedCalls -> Receipts \cup {"none"}]
    /\ held \in [BoundedCalls -> [id : {"none", "known"}, pending : {"yes", "no"}]]
    /\ requests \in [BoundedCalls -> Nat]
    /\ report \in [BoundedCalls -> [attempted : {"yes", "no"}, id : {"none", "known"}, pending : {"yes", "no"}]]

\* A failed call hides nothing its caller has to reconcile
\* (docs/bounded-api.md): the request it may have sent, and a reservation the
\* authority committed, now or later, unless its receipt names none.
NothingUnreported ==
    \A c \in BoundedCalls : pc[c] = "failed" =>
      /\ report[c].attempted = IF requests[c] > 0 THEN "yes" ELSE "no"
      /\ (authority[c] = "granted" /\ receipt[c] # "unlabelled")
           => (report[c].id = "known" \/ report[c].pending = "yes")

\* At most one request goes out, under a reservation the authority really
\* granted for the policy in force, and neither after a stop nor past the
\* deadline, however the policy, the clock and the caller moved while the
\* reservation was awaited.
SentAsReserved ==
    \A c \in BoundedCalls : requests'[c] # requests[c] =>
      /\ requests'[c] = 1 /\ authority[c] = "granted" /\ before[c] = policy
      /\ stop'[c] = "none" /\ past'[c] = "no"

\* What a reservation promises: what was sent under it, and what a failure
\* tells of it.
ReservationsHold == [][SentAsReserved /\ NothingUnreported']_boundedVars

\* A call that began ends although its authority or its provider never answers.
BoundedCallsEnd == \A c \in BoundedCalls : pc[c] # "start" ~> pc[c] \in Over
=============================================================================

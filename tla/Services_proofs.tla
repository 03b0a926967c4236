-------------------------- MODULE Services_proofs --------------------------
(***************************************************************************)
(* Proofs about what serves and is served: bounded calls, the teardown of  *)
(* commands, the admission of documents, the freshness of the search and   *)
(* its service.  The components share nothing; each has a part of its own. *)
(***************************************************************************)
EXTENDS BoundedCall, CommandTeardown, AdmissionManifest, SearchFreshness, SearchService, SequenceTheorems, TLAPS

----------------------------------------------------------------------------
(***************************************************************************)
(* Bounded calls, for any number of calls and any policies: at most one    *)
(* request goes out, under the reservation granted for the policy in       *)
(* force, and whoever fails says what was reserved.                        *)
(***************************************************************************)

\* What the reservation of one call leaves behind at every moment: until the
\* receipt is handled the call knows that one may come, and afterwards it
\* knows which; a failure carries that knowledge as it was.
Reserved(c) ==
    /\ pc[c] \in {"start", "authorize"} => authority[c] = "idle"
    /\ pc[c] \in {"start", "authorize", "waiting", "reserved"} => requests[c] = 0
    /\ authority[c] = "asked" => held[c].pending = "yes"
    /\ (authority[c] = "granted" /\ receipt[c] = "none") => held[c].pending = "yes"
    /\ receipt[c] # "none" => authority[c] = "granted"
    /\ receipt[c] \in {"good", "mismatched"} => held[c].id = "known"
    /\ pc[c] = "reserved" => receipt[c] # "none"

Told(c) ==
    pc[c] = "failed" =>
      /\ report[c].attempted = IF requests[c] > 0 THEN "yes" ELSE "no"
      /\ authority[c] = "asked" => report[c].pending = "yes"
      /\ (authority[c] = "granted" /\ receipt[c] # "unlabelled")
           => (report[c].id = "known" \/ report[c].pending = "yes")
      /\ (authority[c] = "granted" /\ receipt[c] = "none") => report[c].pending = "yes"

BoundedInv == BoundedTypeOK /\ \A c \in BoundedCalls : Reserved(c) /\ Told(c)

LEMMA BoundedStart == BoundedInit => BoundedInv
  BY DEF BoundedInit, BoundedInv, BoundedTypeOK, Reserved, Told, NoReport, Over, Receipts

----------------------------------------------------------------------------
(* The types. *)

LEMMA CatchTypes ==
  ASSUME BoundedTypeOK, NEW c \in BoundedCalls, NEW v \in [id : {"none", "known"}, pending : {"yes", "no"}], Catch(c, v)
  PROVE  /\ pc' \in [BoundedCalls -> {"start", "authorize", "waiting", "reserved", "sent", "reading", "diagnosing"} \cup Over]
         /\ report' \in [BoundedCalls -> [attempted : {"yes", "no"}, id : {"none", "known"}, pending : {"yes", "no"}]]
  BY DEF Catch, BoundedTypeOK, Over

LEMMA PendingTypes ==
  ASSUME BoundedTypeOK, NEW c \in BoundedCalls, NEW p \in {"yes", "no"}
  PROVE  [held EXCEPT ![c].pending = p] \in [BoundedCalls -> [id : {"none", "known"}, pending : {"yes", "no"}]]
<1>1. held \in [BoundedCalls -> [id : {"none", "known"}, pending : {"yes", "no"}]] BY DEF BoundedTypeOK
<1>2. [held[c] EXCEPT !.pending = p] \in [id : {"none", "known"}, pending : {"yes", "no"}] BY <1>1
<1> QED BY <1>1, <1>2

LEMMA TypesStay ==
  ASSUME BoundedTypeOK, [BoundedNext]_boundedVars
  PROVE  BoundedTypeOK'
<1>1. CASE EditPolicy \/ UNCHANGED boundedVars BY <1>1 DEF EditPolicy, BoundedTypeOK, boundedVars
<1>2. ASSUME NEW c \in BoundedCalls, Validate(c) PROVE BoundedTypeOK'
  <2>1. UNCHANGED <<policy, stop, past, authority, receipt, held, requests>> BY <1>2 DEF Validate
  <2>2. CASE Catch(c, held[c]) /\ UNCHANGED before
    <3>1. held[c] \in [id : {"none", "known"}, pending : {"yes", "no"}] BY DEF BoundedTypeOK
    <3> QED BY <2>1, <2>2, <3>1, CatchTypes DEF BoundedTypeOK
  <2>3. CASE /\ pc' = [pc EXCEPT ![c] = "authorize"] /\ before' = [before EXCEPT ![c] = policy]
             /\ UNCHANGED report
    BY <2>1, <2>3 DEF BoundedTypeOK
  <2> QED BY <1>2, <2>2, <2>3 DEF Validate
<1>3. ASSUME NEW c \in BoundedCalls, CallAuthority(c) PROVE BoundedTypeOK'
  <2>1. UNCHANGED <<policy, before, stop, past, receipt, requests>> BY <1>3 DEF CallAuthority
  <2>2. CASE Stopped(c)
    <3>1. held[c] \in [id : {"none", "known"}, pending : {"yes", "no"}] BY DEF BoundedTypeOK
    <3> QED BY <1>3, <2>1, <2>2, <3>1, CatchTypes DEF CallAuthority, BoundedTypeOK
  <2>3. CASE ~Stopped(c)
    <3>1. /\ pc' = [pc EXCEPT ![c] = "waiting"] /\ held' = [held EXCEPT ![c].pending = "yes"]
          /\ authority' = [authority EXCEPT ![c] = "asked"] /\ UNCHANGED report
      BY <1>3, <2>3, Zenon DEF CallAuthority
    <3>2. held' \in [BoundedCalls -> [id : {"none", "known"}, pending : {"yes", "no"}]]
      BY <3>1, PendingTypes
    <3> QED BY <2>1, <3>1, <3>2 DEF BoundedTypeOK
  <2> QED BY <2>2, <2>3
<1>4. ASSUME NEW c \in BoundedCalls, Decide(c) PROVE BoundedTypeOK' BY <1>4 DEF Decide, BoundedTypeOK
<1>5. ASSUME NEW c \in BoundedCalls, Grant(c) PROVE BoundedTypeOK' BY <1>5 DEF Grant, BoundedTypeOK, Receipts
<1>6. ASSUME NEW c \in BoundedCalls, Refusal(c) PROVE BoundedTypeOK'
  <2>1. held' \in [BoundedCalls -> [id : {"none", "known"}, pending : {"yes", "no"}]]
    BY <1>6, PendingTypes DEF Refusal, BoundedTypeOK
  <2> QED BY <1>6, <2>1, CatchTypes DEF Refusal, BoundedTypeOK
<1>7. ASSUME NEW c \in BoundedCalls, Stop(c) PROVE BoundedTypeOK' BY <1>7 DEF Stop, BoundedTypeOK
<1>8. ASSUME NEW c \in BoundedCalls, Expire(c) PROVE BoundedTypeOK' BY <1>8, CatchTypes DEF Expire, BoundedTypeOK
<1>9. ASSUME NEW c \in BoundedCalls, Launch(c) PROVE BoundedTypeOK'
  <2>1. stop' \in [BoundedCalls -> {"none", "deadline", "cancelled"}] /\ past' \in [BoundedCalls -> {"yes", "no"}]
    BY <1>9 DEF Launch, BoundedTypeOK
  <2>2. \/ /\ pc' = [pc EXCEPT ![c] = "sent"] /\ UNCHANGED report
           /\ requests' = [requests EXCEPT ![c] = @ + 1]
        \/ Catch(c, held[c]) /\ UNCHANGED requests
    BY <1>9 DEF Launch
  <2>3. UNCHANGED <<policy, before, authority, receipt, held>> BY <1>9 DEF Launch
  <2>4. CASE Catch(c, held[c]) /\ UNCHANGED requests BY <2>1, <2>3, <2>4, CatchTypes DEF BoundedTypeOK
  <2>5. CASE pc' = [pc EXCEPT ![c] = "sent"] /\ UNCHANGED report /\ requests' = [requests EXCEPT ![c] = @ + 1]
    BY <2>1, <2>3, <2>5 DEF BoundedTypeOK
  <2> QED BY <2>2, <2>4, <2>5
<1>10. ASSUME NEW c \in BoundedCalls, Respond(c) PROVE BoundedTypeOK' BY <1>10, CatchTypes DEF Respond, BoundedTypeOK
<1>11. ASSUME NEW c \in BoundedCalls, ReadBody(c) PROVE BoundedTypeOK' BY SMTT(30), <1>11, CatchTypes DEF ReadBody, BoundedTypeOK, Over
<1>12. ASSUME NEW c \in BoundedCalls, Diagnose(c) PROVE BoundedTypeOK' BY <1>12, CatchTypes DEF Diagnose, BoundedTypeOK
<1>13. ASSUME NEW c \in BoundedCalls, DeadlinePasses(c) PROVE BoundedTypeOK' BY <1>13 DEF DeadlinePasses, BoundedTypeOK
<1> QED BY <1>1, <1>2, <1>3, <1>4, <1>5, <1>6, <1>7, <1>8, <1>9, <1>10, <1>11, <1>12, <1>13 DEF BoundedNext

----------------------------------------------------------------------------
(* The reservation and the report. *)

\* A step of one call leaves what is known of the others.
LEMMA OthersStay ==
  ASSUME BoundedInv, NEW c \in BoundedCalls, NEW d \in BoundedCalls, d # c,
         pc'[d] = pc[d], authority'[d] = authority[d], requests'[d] = requests[d],
         receipt'[d] = receipt[d], held'[d] = held[d], report'[d] = report[d]
  PROVE  (Reserved(d) /\ Told(d))'
  BY DEF BoundedInv, Reserved, Told

\* A failure reports what the variables say.
LEMMA CatchTells ==
  ASSUME BoundedInv, NEW c \in BoundedCalls, Catch(c, held[c]),
         pc[c] \notin Over, requests' = requests, authority' = authority, receipt' = receipt, held' = held
  PROVE  (Reserved(c) /\ Told(c))'
<1>1. /\ pc'[c] = "failed" /\ report'[c].id = held[c].id /\ report'[c].pending = held[c].pending
      /\ report'[c].attempted = IF requests[c] = 0 THEN "no" ELSE "yes"
  BY DEF Catch, BoundedInv, BoundedTypeOK
<1>2. requests[c] \in Nat /\ receipt[c] \in {"good", "mismatched", "unlabelled", "none"}
  BY DEF BoundedInv, BoundedTypeOK, Receipts
<1> QED BY <1>1, <1>2 DEF BoundedInv, Reserved, Told

\* Every call is as the invariant says after a step of one of them.
LEMMA StepStays ==
  ASSUME BoundedInv, NEW c \in BoundedCalls, BoundedTypeOK',
         \/ Validate(c) \/ CallAuthority(c) \/ Decide(c) \/ Grant(c) \/ Refusal(c) \/ Stop(c)
         \/ Expire(c) \/ Launch(c) \/ Respond(c) \/ ReadBody(c) \/ Diagnose(c) \/ DeadlinePasses(c)
  PROVE  (Reserved(c) /\ Told(c))'
<1> USE DEF BoundedInv
<1>1. CASE Validate(c)
  <2>1. CASE Catch(c, held[c]) BY <1>1, <2>1, CatchTells DEF Validate, Over
  <2>2. CASE pc' = [pc EXCEPT ![c] = "authorize"] /\ UNCHANGED report
    BY <1>1, <2>2 DEF Validate, BoundedTypeOK, Reserved, Told
  <2> QED BY <1>1, <2>1, <2>2 DEF Validate
<1>2. CASE CallAuthority(c)
  <2>1. CASE Stopped(c) BY <1>2, <2>1, CatchTells DEF CallAuthority, Over
  <2>2. CASE ~Stopped(c) BY <1>2, <2>2 DEF CallAuthority, BoundedTypeOK, Reserved, Told
  <2> QED BY <2>1, <2>2
<1>3. CASE Decide(c)
  <2>1. authority'[c] \in {"granted", "refused"} BY <1>3 DEF Decide, BoundedTypeOK
  <2> QED BY <1>3, <2>1 DEF Decide, BoundedTypeOK, Reserved, Told
<1>4. CASE Grant(c)
  <2>1. PICK kind \in Receipts : 
          /\ receipt' = [receipt EXCEPT ![c] = kind]
          /\ held' = [held EXCEPT ![c] = [id |-> IF kind = "unlabelled" THEN @.id ELSE "known", pending |-> "no"]]
    BY <1>4 DEF Grant
  <2>2. receipt'[c] = kind /\ (kind # "unlabelled" => held'[c].id = "known") BY <2>1 DEF BoundedTypeOK
  <2>3. kind \in {"good", "mismatched", "unlabelled"} BY DEF Receipts
  <2>4. authority' = authority /\ requests' = requests /\ report' = report /\ authority[c] = "granted" BY <1>4 DEF Grant
  <2>5. pc'[c] = pc[c] \/ (pc[c] = "waiting" /\ pc'[c] = "reserved") BY <1>4 DEF Grant, BoundedTypeOK
  <2>6. receipt[c] = "none" BY <1>4 DEF Grant
  <2> QED BY <2>2, <2>3, <2>4, <2>5, <2>6 DEF Reserved, Told
<1>5. CASE Refusal(c)
  <2>1. authority[c] = "refused" /\ authority' = authority /\ receipt' = receipt /\ requests' = requests
    BY <1>5 DEF Refusal
  <2>2. receipt[c] = "none" /\ requests[c] \in Nat BY <2>1 DEF Reserved, BoundedTypeOK
  <2>3. CASE pc[c] = "waiting"
    <3>1. pc'[c] = "failed" /\ report'[c].attempted = IF requests[c] = 0 THEN "no" ELSE "yes"
      BY <1>5, <2>3 DEF Refusal, Catch, BoundedTypeOK
    <3> QED BY <2>1, <2>2, <3>1 DEF Reserved, Told
  <2>4. CASE pc[c] # "waiting"
    <3>1. pc' = pc /\ report' = report BY <1>5, <2>4 DEF Refusal
    <3> QED BY <2>1, <2>2, <3>1 DEF Reserved, Told
  <2> QED BY <2>3, <2>4
<1>6. CASE Stop(c) BY <1>6 DEF Stop, Reserved, Told
<1>7. CASE Expire(c) BY <1>7, CatchTells DEF Expire, Over
<1>8. CASE Launch(c)
  <2>1. authority' = authority /\ receipt' = receipt /\ held' = held /\ pc[c] = "reserved" BY <1>8 DEF Launch
  <2>2. CASE Catch(c, held[c]) /\ UNCHANGED requests BY <2>1, <2>2, CatchTells DEF Over
  <2>3. CASE pc' = [pc EXCEPT ![c] = "sent"]
    <3>1. pc'[c] = "sent" BY <2>3 DEF BoundedTypeOK
    <3> QED BY <2>1, <3>1 DEF Reserved, Told
  <2> QED BY <1>8, <2>2, <2>3 DEF Launch
<1>9. CASE Respond(c)
  <2>1. CASE Catch(c, held[c]) BY <1>9, <2>1, CatchTells DEF Respond, Over
  <2>2. CASE \E next \in {"reading", "diagnosing"} : pc' = [pc EXCEPT ![c] = next] /\ UNCHANGED report
    <3>1. pc'[c] \in {"reading", "diagnosing"} BY <2>2 DEF BoundedTypeOK
    <3>2. UNCHANGED <<authority, receipt, held, requests>> BY <1>9 DEF Respond
    <3> QED BY <3>1, <3>2 DEF Reserved, Told
  <2> QED BY <1>9, <2>1, <2>2 DEF Respond
<1>10. CASE ReadBody(c)
  <2>1. CASE Catch(c, held[c]) BY <1>10, <2>1, CatchTells DEF ReadBody, Over
  <2>2. CASE pc' = [pc EXCEPT ![c] = "ok"]
    <3>1. pc'[c] = "ok" BY <2>2 DEF BoundedTypeOK
    <3>2. UNCHANGED <<authority, receipt, held, requests>> BY <1>10 DEF ReadBody
    <3> QED BY <3>1, <3>2 DEF Reserved, Told
  <2> QED BY <1>10, <2>1, <2>2 DEF ReadBody
<1>11. CASE Diagnose(c) BY <1>11, CatchTells DEF Diagnose, Over
<1>12. CASE DeadlinePasses(c) BY <1>12 DEF DeadlinePasses, Reserved, Told
<1> QED BY <1>1, <1>2, <1>3, <1>4, <1>5, <1>6, <1>7, <1>8, <1>9, <1>10, <1>11, <1>12

LEMMA StepKeepsOthers ==
  ASSUME BoundedInv, NEW c \in BoundedCalls, NEW d \in BoundedCalls, d # c,
         \/ Validate(c) \/ CallAuthority(c) \/ Decide(c) \/ Grant(c) \/ Refusal(c) \/ Stop(c)
         \/ Expire(c) \/ Launch(c) \/ Respond(c) \/ ReadBody(c) \/ Diagnose(c) \/ DeadlinePasses(c)
  PROVE  (Reserved(d) /\ Told(d))'
<1>1. /\ pc'[d] = pc[d] /\ authority'[d] = authority[d] /\ requests'[d] = requests[d]
      /\ receipt'[d] = receipt[d] /\ held'[d] = held[d] /\ report'[d] = report[d]
  BY DEF Validate, CallAuthority, Decide, Grant, Refusal, Stop, Expire, Launch, Respond, ReadBody, Diagnose, DeadlinePasses,
         Catch, BoundedInv, BoundedTypeOK
<1> QED BY <1>1, OthersStay

LEMMA BoundedStep == BoundedInv /\ [BoundedNext]_boundedVars => BoundedInv'
<1> SUFFICES ASSUME BoundedInv, [BoundedNext]_boundedVars PROVE BoundedInv' OBVIOUS
<1>1. BoundedTypeOK' BY TypesStay DEF BoundedInv
<1>2. CASE EditPolicy \/ UNCHANGED boundedVars
  <2>1. UNCHANGED <<pc, authority, receipt, held, requests, report>> BY <1>2 DEF EditPolicy, boundedVars
  <2>2. \A d \in BoundedCalls : (Reserved(d) /\ Told(d))' BY <2>1 DEF BoundedInv, Reserved, Told
  <2> QED BY <1>1, <2>2 DEF BoundedInv
<1>3. ASSUME NEW c \in BoundedCalls,
             \/ Validate(c) \/ CallAuthority(c) \/ Decide(c) \/ Grant(c) \/ Refusal(c) \/ Stop(c)
             \/ Expire(c) \/ Launch(c) \/ Respond(c) \/ ReadBody(c) \/ Diagnose(c) \/ DeadlinePasses(c)
      PROVE  BoundedInv'
  <2>1. (Reserved(c) /\ Told(c))' BY <1>1, <1>3, StepStays
  <2>2. \A d \in BoundedCalls \ {c} : (Reserved(d) /\ Told(d))' BY <1>3, StepKeepsOthers
  <2>3. \A d \in BoundedCalls : (Reserved(d) /\ Told(d))' BY <2>1, <2>2
  <2> QED BY <1>1, <2>3 DEF BoundedInv
<1> QED BY <1>2, <1>3 DEF BoundedNext

LEMMA AlwaysBounded == BoundedSpec => []BoundedInv
  BY BoundedStart, BoundedStep, PTL DEF BoundedSpec

\* Whatever the order of stop, receipt and failure, a failed call's error
\* names what its caller must reconcile: a request that may have gone out
\* and a reservation that was or may still be committed.
THEOREM Unreported == BoundedSpec => []NothingUnreported
<1>1. BoundedInv => NothingUnreported BY DEF BoundedInv, Told, NothingUnreported
<1> QED BY <1>1, AlwaysBounded, PTL

\* One request at most, under the policy its reservation was granted for,
\* before the deadline and without a stop.
LEMMA SendIsReserved ==
  ASSUME BoundedInv, [BoundedNext]_boundedVars, NEW c \in BoundedCalls, requests'[c] # requests[c]
  PROVE  /\ requests'[c] = 1 /\ authority[c] = "granted" /\ before[c] = policy
         /\ stop'[c] = "none" /\ past'[c] = "no"
<1>1. PICK d \in BoundedCalls : Launch(d)
  BY DEF BoundedNext, boundedVars, EditPolicy, Validate, CallAuthority, Decide, Grant, Refusal, Stop, Expire,
         Respond, ReadBody, Diagnose, DeadlinePasses
<1>2. d = c BY <1>1 DEF Launch, BoundedInv, BoundedTypeOK
<1>3. PICK guard \in Guards, late \in {past[c], "yes"} :
         /\ past' = [past EXCEPT ![c] = late]
         /\ IF /\ stop[c] = "none" /\ receipt[c] = "good"
               /\ policy = before[c] /\ policy \in Usable
               /\ guard # "refuses" /\ stop'[c] = "none" /\ late = "no"
            THEN requests' = [requests EXCEPT ![c] = @ + 1]
            ELSE UNCHANGED requests
  BY <1>1, <1>2 DEF Launch
<1>4. /\ receipt[c] = "good" /\ policy = before[c] /\ stop'[c] = "none" /\ late = "no"
      /\ requests' = [requests EXCEPT ![c] = @ + 1]
  BY <1>3
<1>5. past'[c] = "no" BY <1>3, <1>4 DEF BoundedInv, BoundedTypeOK
<1>6. pc[c] = "reserved" BY <1>1, <1>2 DEF Launch
<1>7. requests[c] = 0 /\ authority[c] = "granted" BY <1>4, <1>6 DEF BoundedInv, Reserved
<1>8. requests'[c] = 1 BY <1>4, <1>7 DEF BoundedInv, BoundedTypeOK
<1> QED BY <1>4, <1>5, <1>7, <1>8

\* Requests go out as reserved and failures report them, for any calls and
\* policies.
THEOREM ReservationsAlwaysHold == BoundedSpec => ReservationsHold
<1>1. BoundedInv /\ [BoundedNext]_boundedVars => [SentAsReserved]_boundedVars
  BY SendIsReserved DEF SentAsReserved
<1>2. BoundedInv' => NothingUnreported' BY DEF BoundedInv, Told, NothingUnreported
<1>3. BoundedInv /\ BoundedInv' /\ [BoundedNext]_boundedVars
        => [SentAsReserved /\ NothingUnreported']_boundedVars
  BY <1>1, <1>2
<1> QED BY <1>3, AlwaysBounded, PTL DEF BoundedSpec, ReservationsHold

----------------------------------------------------------------------------
(***************************************************************************)
(* runCommand for every timeout, kill delay and lateness of timers: a      *)
(* result that reports clean success is true of the processes, and the     *)
(* promise is not settled later than its bounds allow.                     *)
(***************************************************************************)

Latest == Timeout + KillAfter + GiveUp + 2 * MaxLate

\* What a closure has heard of the processes is true of them.
Truthful(r) ==
    /\ r.closed => Exited /\ ~PipesOpen
    /\ r.code # "null" => r.code = leader

\* Queued events are about what has happened, and pipes that are closed stay so.
ProcessInv ==
    /\ leader = "none" => ~member /\ ~escaped
    /\ "error" \in events => leader = "none"
    /\ "exit" \in events => Exited
    /\ "close" \in events => Exited /\ ~PipesOpen
    /\ Truthful(run)

ResultInv == CleanMeansQuiet /\ SuccessIsReal

\* A call that has not settled has one timer, and the clock is not far past it.
TimeInv ==
    /\ "error" \in events => now = 0 /\ ~run.settled /\ ~run.teardown
    /\ ~run.settled /\ ~run.teardown => run.timeoutAt = Timeout /\ run.pollAt = Never
    /\ ~run.settled /\ run.teardown =>
          /\ run.timeoutAt = Never /\ run.pollAt # Never /\ run.pollAt <= run.deadline
          /\ run.deadline <= Timeout + MaxLate + KillAfter + GiveUp
    /\ ~run.settled => \A t \in Due : now <= t + MaxLate
    /\ SettlesInTime

IInv == TypeOK /\ ProcessInv /\ ResultInv /\ TimeInv

LEMMA InitInv == Init => IInv
<1> SUFFICES ASSUME Init PROVE IInv
  OBVIOUS
<1> USE TimesAssumption DEF Init
<1>1. TypeOK
  BY DEF TypeOK, Signals, Closures, Results, Codes, Never, Unresolved
<1>2. ProcessInv
  BY DEF ProcessInv, Truthful
<1>3. ResultInv
  BY DEF ResultInv, CleanMeansQuiet, SuccessIsReal, Settled
<1>4. TimeInv
  BY DEF TimeInv, Due, Never, SettlesInTime, Settled
<1> QED
  BY <1>1, <1>2, <1>3, <1>4 DEF IInv

-----------------------------------------------------------------------------
\* The two ends of a callback that is part of a teardown: settled now, with a
\* result that says no more than what is so, or to be polled at the next tick.
Settles(r) ==
    /\ run' \in Closures /\ run'.settled
    /\ run'.closed = r.closed /\ run'.code = r.code
    /\ result' \in Results /\ result'.at = now
    /\ ~result'.cleanupFailed => ~GroupAlive /\ r.closed
    /\ result'.code = "zero" =>
          r.code = "zero" /\ ~result'.timedOut /\ ~GroupAlive /\ (HasPid => result'.groupStopped = "yes")

Polls(r) ==
    /\ run' \in Closures /\ ~run'.settled /\ run'.teardown
    /\ run'.closed = r.closed /\ run'.code = r.code
    /\ run'.timeoutAt = r.timeoutAt /\ run'.deadline = r.deadline
    /\ run'.pollAt = now + 1 /\ now < r.deadline
    /\ result' = result

LEMMA FinishDoes ==
    ASSUME NEW r \in Closures, NEW failed \in BOOLEAN, now \in Nat, Finish(r, failed)
    PROVE  /\ run' \in Closures /\ run'.settled
           /\ run'.closed = r.closed /\ run'.code = r.code
           /\ result' \in Results /\ result'.at = now
           /\ result'.cleanupFailed = failed /\ result'.groupStopped = r.groupStopped
           /\ result'.code = "zero" => r.code = "zero" /\ ~result'.timedOut /\ ~failed
BY DEF Finish, Closures, Results, Codes, Never

LEMMA GiveUpOrPollDoes ==
    ASSUME NEW r \in Closures, now \in Nat, ~r.settled, r.teardown, GiveUpOrPoll(r)
    PROVE  Settles(r) \/ Polls(r)
<1>1. CASE Finish(r, TRUE)
  BY <1>1, FinishDoes DEF Settles
<1>2. CASE now < r.deadline /\ run' = [r EXCEPT !.pollAt = now + 1] /\ UNCHANGED result
  BY <1>2 DEF Polls, Closures
<1> QED
  BY <1>1, <1>2 DEF GiveUpOrPoll

LEMMA ObservedDoes ==
    ASSUME NEW r \in Closures
    PROVE  /\ Observed(r) \in Closures
           /\ Observed(r) = [r EXCEPT !.groupStopped = Observed(r).groupStopped]
           /\ ~GroupAlive /\ HasPid => Observed(r).groupStopped = "yes"
BY DEF Observed, Closures

LEMMA CheckTeardownDoes ==
    ASSUME NEW r \in Closures, NEW sent \in Signals, now \in Nat, ~r.settled, r.teardown,
           CheckTeardown(r, sent)
    PROVE  signalled' \in Signals /\ (Settles(r) \/ Polls(r))
<1> DEFINE o == Observed(r)
           k == [o EXCEPT !.killed = TRUE]
<1>1. /\ o \in Closures /\ ~o.settled /\ o.teardown /\ o.closed = r.closed /\ o.code = r.code
      /\ o.timeoutAt = r.timeoutAt /\ o.deadline = r.deadline
      /\ ~GroupAlive /\ HasPid => o.groupStopped = "yes"
  BY ObservedDoes DEF Closures
<1>2. /\ k \in Closures /\ ~k.settled /\ k.teardown /\ k.closed = r.closed /\ k.code = r.code
      /\ k.timeoutAt = r.timeoutAt /\ k.deadline = r.deadline
  BY <1>1 DEF Closures
<1> HIDE DEF o, k
<1>3. CASE Finish(r, TRUE) /\ signalled' = sent
  BY <1>3, FinishDoes DEF Settles
<1>4. CASE ~GroupAlive /\ r.closed /\ Finish(o, FALSE) /\ signalled' = sent
  BY <1>1, <1>4, FinishDoes DEF Settles
<1>5. CASE GiveUpOrPoll(o) /\ signalled' = sent
  <2>1. Settles(o) \/ Polls(o)
    BY <1>1, <1>5, GiveUpOrPollDoes
  <2> QED
    BY <1>1, <1>5, <2>1 DEF Settles, Polls
<1>6. CASE Finish(o, TRUE) /\ signalled' = sent
  BY <1>1, <1>6, FinishDoes DEF Settles
<1>7. CASE GiveUpOrPoll(k) /\ signalled' = [sent EXCEPT !.KILL = now]
  <2>1. Settles(k) \/ Polls(k)
    BY <1>2, <1>7, GiveUpOrPollDoes
  <2>2. signalled' \in Signals
    BY <1>7 DEF Signals
  <2> QED
    BY <1>2, <2>1, <2>2 DEF Settles, Polls
<1> QED
  BY <1>3, <1>4, <1>5, <1>6, <1>7 DEF CheckTeardown, o, k

-----------------------------------------------------------------------------
\* A callback that ends in a poll under the bound, and one that settles.
Waits(r) ==
    /\ run' \in Closures /\ ~run'.settled /\ run'.teardown
    /\ run'.closed = r.closed /\ run'.code = r.code
    /\ run'.timeoutAt = Never /\ run'.pollAt = now + 1 /\ run'.pollAt <= run'.deadline
    /\ run'.deadline <= Timeout + MaxLate + KillAfter + GiveUp
    /\ result' = result

LEMMA TimersInTime ==
    ASSUME IInv, ~run.settled
    PROVE  now <= Latest /\ (~run.teardown => now <= Timeout + MaxLate)
<1> USE TimesAssumption DEF IInv, TypeOK, TimeInv, Closures, Never, Due
<1>1. CASE run.teardown
  <2>1. now <= run.pollAt + MaxLate
    BY <1>1
  <2> QED
    BY <1>1, <2>1 DEF Latest
<1>2. CASE ~run.teardown
  BY <1>2 DEF Latest
<1> QED
  BY <1>1, <1>2

LEMMA BeginTeardownDoes ==
    ASSUME NEW r \in Closures, r.settled = run.settled, BeginTeardown(r),
           signalled \in Signals, now \in Nat,
           now <= Timeout + MaxLate \/ r.settled \/ r.teardown
    PROVE  /\ signalled' \in Signals
           /\ \/ (r.settled \/ r.teardown) /\ run' = r /\ result' = result
              \/ ~r.settled /\ ~r.teardown /\ (Settles(r) \/ Waits(r))
<1>1. CASE (r.settled \/ r.teardown) /\ run' = r /\ UNCHANGED <<result, signalled>>
  BY <1>1
<1>2. CASE ~r.settled /\ ~r.teardown
  <2> DEFINE t == [r EXCEPT !.teardown = TRUE, !.timeoutAt = Never, !.killAt = now + KillAfter,
                            !.deadline = now + KillAfter + GiveUp]
             sent == IF GroupAlive THEN [signalled EXCEPT !.TERM = now] ELSE signalled
  <2>1. /\ t \in Closures /\ ~t.settled /\ t.teardown /\ t.closed = r.closed /\ t.code = r.code
        /\ t.timeoutAt = Never /\ t.deadline = now + KillAfter + GiveUp
    <3>1. Never \in Nat \cup {Never} /\ now + KillAfter \in Nat /\ now + KillAfter + GiveUp \in Nat
      BY TimesAssumption
    <3> QED
      BY <1>2, <3>1 DEF Closures
  <2>2. sent \in Signals
    BY DEF Signals
  <2>3. (Finish(t, TRUE) /\ UNCHANGED signalled) \/ CheckTeardown(t, sent)
    BY <1>2 DEF BeginTeardown, Settled
  <2> HIDE DEF t, sent
  <2>4. CASE Finish(t, TRUE) /\ UNCHANGED signalled
    BY <1>2, <2>1, <2>4, FinishDoes DEF Settles
  <2>5. CASE CheckTeardown(t, sent)
    <3>1. signalled' \in Signals /\ (Settles(t) \/ Polls(t))
      BY <2>1, <2>2, <2>5, CheckTeardownDoes
    <3>2. Settles(t) => Settles(r)
      BY <2>1 DEF Settles
    <3>3. Polls(t) => Waits(r)
      BY <1>2, <2>1, TimesAssumption DEF Polls, Waits, Closures
    <3> QED
      BY <1>2, <3>1, <3>2, <3>3
  <2> QED
    BY <2>3, <2>4, <2>5
<1> QED
  BY <1>1, <1>2 DEF BeginTeardown, Settled

\* What every callback leaves alone: the processes and the clock.  A failed
\* spawn has no other callback than its error.
Callback == UNCHANGED <<leader, member, escaped, now>> /\ events' \subseteq events /\ "error" \notin events'

LEMMA SettlesInv ==
    ASSUME IInv, NEW r \in Closures, Truthful(r), Settles(r), signalled' \in Signals, Callback, now <= Latest
    PROVE  IInv'
<1> USE DEF Callback
<1>1. TypeOK'
  BY DEF IInv, TypeOK, Settles
<1>2. /\ HasPid' = HasPid /\ Exited' = Exited /\ GroupAlive' = GroupAlive /\ PipesOpen' = PipesOpen
  BY DEF HasPid, Exited, GroupAlive, PipesOpen
<1>3. ProcessInv'
  BY <1>2 DEF IInv, ProcessInv, Truthful, Settles
<1>4. CleanMeansQuiet'
  BY <1>2 DEF CleanMeansQuiet, Truthful, Settles
<1>5. SuccessIsReal'
  BY <1>2 DEF SuccessIsReal, Truthful, Settles, HasPid
<1>6. TimeInv'
  BY DEF TimeInv, SettlesInTime, Settles, Latest
<1> QED
  BY <1>1, <1>3, <1>4, <1>5, <1>6 DEF IInv, ResultInv

LEMMA WaitsInv ==
    ASSUME IInv, NEW r \in Closures, Truthful(r), Waits(r), signalled' \in Signals, Callback
    PROVE  IInv'
<1> USE DEF Callback
<1>1. TypeOK'
  BY DEF IInv, TypeOK, Waits
<1>2. /\ HasPid' = HasPid /\ Exited' = Exited /\ GroupAlive' = GroupAlive /\ PipesOpen' = PipesOpen
  BY DEF HasPid, Exited, GroupAlive, PipesOpen
<1>3. ProcessInv'
  BY <1>2 DEF IInv, ProcessInv, Truthful, Waits
<1>4. ResultInv'
  BY DEF ResultInv, CleanMeansQuiet, SuccessIsReal, Settled, Waits
<1>5. TimeInv'
  BY TimesAssumption DEF IInv, TypeOK, TimeInv, SettlesInTime, Settled, Waits, Due, Never
<1> QED
  BY <1>1, <1>3, <1>4, <1>5 DEF IInv

\* An exit or close event after the teardown has begun only says more.
LEMMA HeardInv ==
    ASSUME IInv, Truthful(run)', run' \in Closures, UNCHANGED <<signalled, result>>, Callback,
           run'.settled = run.settled, run'.teardown = run.teardown,
           run'.timeoutAt = run.timeoutAt, run'.pollAt = run.pollAt, run'.deadline = run.deadline
    PROVE  IInv'
<1> USE DEF Callback
<1>1. TypeOK'
  BY DEF IInv, TypeOK
<1>2. /\ HasPid' = HasPid /\ Exited' = Exited /\ GroupAlive' = GroupAlive /\ PipesOpen' = PipesOpen
  BY DEF HasPid, Exited, GroupAlive, PipesOpen
<1>3. ProcessInv'
  BY <1>2 DEF IInv, ProcessInv
<1>4. ResultInv'
  BY <1>2 DEF IInv, ResultInv, CleanMeansQuiet, SuccessIsReal, Settled
<1>5. TimeInv'
  <2>1. Due' = Due
    BY DEF Due
  <2> QED
    BY <2>1 DEF IInv, TimeInv, SettlesInTime, Settled
<1> QED
  BY <1>1, <1>3, <1>4, <1>5 DEF IInv

-----------------------------------------------------------------------------
\* One lemma per kind of step: the processes, the clock, and each callback.
LEMMA ProcessesInv ==
    ASSUME IInv, Fork \/ LeaderExits \/ MemberExits \/ EscapedExits \/ PipesClose
    PROVE  IInv'
<1> USE DEF IInv, TypeOK
<1>1. UNCHANGED <<signalled, now, run, result>>
  BY DEF Fork, LeaderExits, MemberExits, EscapedExits, PipesClose
<1>2. TypeOK'
  BY <1>1 DEF Fork, LeaderExits, MemberExits, EscapedExits, PipesClose
<1>3. ProcessInv' /\ ResultInv'
  <2> USE <1>1 DEF ProcessInv, ResultInv, CleanMeansQuiet, SuccessIsReal, Truthful, Settled,
                   HasPid, Exited, GroupAlive, PipesOpen, Closures, Codes
  <2>1. CASE Fork
    BY <2>1 DEF Fork
  <2>2. CASE LeaderExits
    BY <2>2 DEF LeaderExits
  <2>3. CASE MemberExits
    BY <2>3 DEF MemberExits
  <2>4. CASE EscapedExits
    BY <2>4 DEF EscapedExits
  <2>5. CASE PipesClose
    BY <2>5 DEF PipesClose
  <2> QED
    BY <2>1, <2>2, <2>3, <2>4, <2>5
<1>4. TimeInv'
  <2>1. "error" \in events' => "error" \in events
    BY DEF Fork, LeaderExits, MemberExits, EscapedExits, PipesClose
  <2>2. Due' = Due
    BY <1>1 DEF Due
  <2> QED
    BY <1>1, <2>1, <2>2 DEF TimeInv, SettlesInTime, Settled
<1> QED
  BY <1>2, <1>3, <1>4

LEMMA TickInv == ASSUME IInv, Tick PROVE IInv'
<1> USE DEF IInv, TypeOK, Tick
<1>1. TypeOK'
  OBVIOUS
<1>2. ProcessInv' /\ ResultInv'
  BY DEF ProcessInv, ResultInv, CleanMeansQuiet, SuccessIsReal, Truthful, Settled,
         HasPid, Exited, GroupAlive, PipesOpen
<1>3. TimeInv'
  <2>1. \A t \in Due' : t \in Nat /\ now' <= t + MaxLate
    BY TimesAssumption DEF Due, Closures, Never
  <2> QED
    BY <2>1 DEF TimeInv, SettlesInTime, Settled
<1> QED
  BY <1>1, <1>2, <1>3

\* A failed spawn has no timer due before its error is delivered.
LEMMA NoErrorPending ==
    ASSUME IInv, ~run.settled,
           \/ run.timeoutAt # Never /\ now >= run.timeoutAt
           \/ run.pollAt # Never /\ now >= run.pollAt
    PROVE  "error" \notin events
BY TimesAssumption DEF IInv, TypeOK, TimeInv, Never

LEMMA TimeoutInv == ASSUME IInv, TimeoutFires PROVE IInv'
<1> DEFINE r == [run EXCEPT !.timedOut = TRUE, !.timeoutAt = Never]
<1>1. r \in Closures /\ r.settled = run.settled /\ r.teardown = run.teardown /\ Truthful(r)
  BY DEF IInv, TypeOK, ProcessInv, Truthful, Closures
<1>2. ~run.settled /\ ~run.teardown
  BY DEF IInv, TimeInv, TimeoutFires, Settled
<1>3. BeginTeardown(r) /\ Callback
  BY <1>2, NoErrorPending DEF TimeoutFires, Callback
<1> HIDE DEF r
<1>4. signalled' \in Signals /\ (Settles(r) \/ Waits(r))
  BY <1>1, <1>2, <1>3, TimersInTime, BeginTeardownDoes DEF IInv, TypeOK
<1> QED
  BY <1>1, <1>2, <1>3, <1>4, TimersInTime, SettlesInv, WaitsInv

LEMMA PollInv == ASSUME IInv, Poll PROVE IInv'
<1> DEFINE r == [run EXCEPT !.pollAt = Never]
<1>1. /\ r \in Closures /\ r.settled = run.settled /\ r.teardown = run.teardown /\ Truthful(r)
      /\ r.timeoutAt = run.timeoutAt /\ r.deadline = run.deadline
  BY DEF IInv, TypeOK, ProcessInv, Truthful, Closures, Never
<1>2. ~run.settled /\ run.teardown
  BY DEF IInv, TimeInv, Poll, Settled
<1>3. CheckTeardown(r, signalled) /\ Callback
  BY <1>2, NoErrorPending DEF Poll, Callback
<1> HIDE DEF r
<1>4. signalled' \in Signals /\ (Settles(r) \/ Polls(r))
  BY <1>1, <1>2, <1>3, CheckTeardownDoes DEF IInv, TypeOK
<1>5. Polls(r) => Waits(r)
  BY <1>1, <1>2 DEF IInv, TypeOK, TimeInv, Polls, Waits, Closures
<1> QED
  BY <1>1, <1>2, <1>3, <1>4, <1>5, TimersInTime, SettlesInv, WaitsInv

LEMMA ErrorInv == ASSUME IInv, ErrorEvent PROVE IInv'
<1>1. ~run.settled /\ Callback /\ UNCHANGED signalled /\ ~HasPid /\ Finish(run, FALSE)
  BY DEF IInv, TimeInv, ErrorEvent, Callback
<1>2. /\ run' \in Closures /\ run'.settled /\ run'.closed = run.closed /\ run'.code = run.code
      /\ result' \in Results /\ result'.at = now
      /\ result'.code = "zero" => run.code = "zero" /\ ~result'.timedOut
  BY <1>1, FinishDoes DEF IInv, TypeOK
<1>3. ~GroupAlive /\ run.code # "zero"
  BY <1>1 DEF IInv, ProcessInv, Truthful, HasPid, GroupAlive
<1>4. TypeOK' /\ ProcessInv'
  BY <1>1, <1>2 DEF IInv, TypeOK, ProcessInv, Truthful, Callback, HasPid, Exited, GroupAlive, PipesOpen
<1>5. ResultInv'
  BY <1>1, <1>2, <1>3 DEF ResultInv, CleanMeansQuiet, SuccessIsReal, Callback, HasPid
<1>6. TimeInv'
  BY <1>1, <1>2, TimersInTime DEF TimeInv, SettlesInTime, Callback, Latest
<1> QED
  BY <1>4, <1>5, <1>6 DEF IInv

\* Exit and close differ in what the closure learns.
LEMMA EndInv ==
    ASSUME IInv, ExitEvent \/ CloseEvent
    PROVE  IInv'
<1> PICK closed \in BOOLEAN :
        /\ closed => run.closed \/ "close" \in events
        /\ BeginTeardown([run EXCEPT !.code = leader, !.closed = closed])
  <2>1. CASE ExitEvent
    <3>1. [run EXCEPT !.code = leader] = [run EXCEPT !.code = leader, !.closed = run.closed]
      BY DEF IInv, TypeOK, Closures
    <3>2. run.closed \in BOOLEAN
      BY DEF IInv, TypeOK, Closures
    <3> QED
      BY <2>1, <3>1, <3>2 DEF ExitEvent
  <2>2. CASE CloseEvent
    BY <2>2 DEF CloseEvent
  <2> QED
    BY <2>1, <2>2
<1> DEFINE r == [run EXCEPT !.code = leader, !.closed = closed]
<1>1. Exited /\ "error" \notin events
  BY DEF IInv, ProcessInv, ExitEvent, CloseEvent, Exited, Codes
<1>2. Callback
  BY <1>1 DEF ExitEvent, CloseEvent, Callback
<1>3. /\ r \in Closures /\ Truthful(r) /\ r.settled = run.settled /\ r.teardown = run.teardown
      /\ r.timeoutAt = run.timeoutAt /\ r.pollAt = run.pollAt /\ r.deadline = run.deadline
  BY <1>1 DEF IInv, TypeOK, ProcessInv, Truthful, Closures, Exited
<1>4. BeginTeardown(r)
  OBVIOUS
<1> HIDE DEF r
<1>5. CASE ~run.settled /\ ~run.teardown
  BY <1>2, <1>3, <1>4, <1>5, TimersInTime, BeginTeardownDoes, SettlesInv, WaitsInv DEF IInv, TypeOK
<1>6. CASE run.settled \/ run.teardown
  <2>1. run' = r /\ UNCHANGED <<result, signalled>>
    BY <1>3, <1>4, <1>6 DEF BeginTeardown, Settled
  <2>2. Truthful(run)'
    BY <1>2, <1>3, <2>1 DEF Truthful, Callback, Exited, GroupAlive, PipesOpen
  <2> QED
    BY <1>2, <1>3, <2>1, <2>2, HeardInv
<1> QED
  BY <1>5, <1>6

LEMMA NextInv == IInv /\ [Next]_vars => IInv'
<1> SUFFICES ASSUME IInv, [Next]_vars PROVE IInv'
  OBVIOUS
<1>1. CASE Environment
  BY <1>1, ProcessesInv, TickInv DEF Environment
<1>2. CASE Runner
  BY <1>2, TimeoutInv, PollInv, ErrorInv, EndInv DEF Runner
<1>3. CASE UNCHANGED vars
  BY <1>3 DEF vars, IInv, TypeOK, ProcessInv, Truthful, ResultInv, CleanMeansQuiet, SuccessIsReal,
              TimeInv, SettlesInTime, Due, Settled, HasPid, Exited, GroupAlive, PipesOpen
<1> QED
  BY <1>1, <1>2, <1>3 DEF Next

LEMMA AlwaysInv == Spec => []IInv
BY InitInv, NextInv, PTL DEF Spec

\* The variables keep their types.
THEOREM CommandTypeCorrect == Spec => []TypeOK
BY AlwaysInv, PTL DEF IInv

\* A result that does not report failed cleanup leaves no process of the group
\* alive and the pipes closed, for ever.
THEOREM CleanIsQuiet == Spec => []CleanMeansQuiet
BY AlwaysInv, PTL DEF IInv, ResultInv

\* Code 0 reaches the caller only from a leader that ended so, in time, with its
\* group seen to be gone.
THEOREM SuccessIsTrue == Spec => []SuccessIsReal
BY AlwaysInv, PTL DEF IInv, ResultInv

\* A call that settles does so within its timeout, the two cleanup bounds and
\* the lateness of two timers.
THEOREM SettledInTime == Spec => []SettlesInTime
BY AlwaysInv, PTL DEF IInv, TimeInv

\* What runCommand answers is true, quiet and in time.
THEOREM ResultsAreTrue == Spec => []ResultIsTrue
<1>1. SuccessIsReal /\ CleanMeansQuiet /\ SettlesInTime => ResultIsTrue
  BY DEF ResultIsTrue
<1> QED
  BY <1>1, CleanIsQuiet, SuccessIsTrue, SettledInTime, PTL

----------------------------------------------------------------------------
(***************************************************************************)
(* The admission manifest for any documents, writers and readers: readers  *)
(* are served only what was screened, and a revocation that was answered   *)
(* holds for good.                                                         *)
(***************************************************************************)

Manifests == [state : {"absent", "present"}, files : SUBSET (Documents \X Clean), revoked : SUBSET Documents]
\* Where a writer holds the lock.
Locked == {"locked", "scanning", "checked", "prepared", "publishing", "answered", "releasing"}
WriterStates == [at : Locked \cup {"idle", "locking", "done", "failed", "dead"}, previous : Manifests,
                 found : SUBSET (Documents \X Clean), left : SUBSET Documents, target : SUBSET Documents]
ReaderStates == [at : {"idle", "read"}, file : SUBSET Documents, generation : Manifests, version : 0..MaxEdits]

AdmissionTypes ==
    /\ source \in [Documents -> 0..MaxEdits] /\ manifest \in Manifests
    /\ mutex \in Writers \cup {"none"} /\ worker \in [Writers -> WriterStates]
    /\ reading \in [Readers -> ReaderStates]
    /\ served \subseteq Documents \X Clean /\ revoked \subseteq Documents

\* What the lock protects: nobody else publishes between a look at the
\* manifest and the rename, so that the look still holds.
WriterIsRight(w) ==
    /\ worker[w].at \in Locked => mutex = w
    /\ worker[w].at = "publishing" => worker[w].previous = manifest
    /\ worker[w].at = "answered" => worker[w].target \subseteq manifest.revoked
    /\ w \in Refreshes => worker[w].target = {}

ReaderIsRight(r) == reading[r].at = "read" => reading[r].file \cap reading[r].generation.revoked = {}

AdmissionInv ==
    /\ AdmissionTypes
    /\ \A w \in Writers : WriterIsRight(w)
    /\ \A r \in Readers : ReaderIsRight(r)
    /\ revoked \subseteq manifest.revoked

LEMMA AdmissionStarts == AdmissionInit => AdmissionInv
<1> SUFFICES ASSUME AdmissionInit PROVE AdmissionInv OBVIOUS
<1>1. Absent \in Manifests BY DEF Absent, Manifests
<1>2. Idle \in WriterStates /\ NoRead \in ReaderStates
  BY <1>1, AdmissionAssumption DEF Idle, NoRead, WriterStates, ReaderStates
<1> QED BY <1>1, <1>2, AdmissionAssumption
        DEF AdmissionInit, AdmissionInv, AdmissionTypes, WriterIsRight, ReaderIsRight, Idle, NoRead, Locked, Absent

\* A writer that only moves on keeps all it has read.
LEMMA GoesOn ==
  ASSUME AdmissionTypes, NEW w \in Writers, NEW at \in Locked \cup {"idle", "locking", "done", "failed", "dead"}, Goes(w, at)
  PROVE  /\ worker' \in [Writers -> WriterStates]
         /\ worker'[w].at = at /\ worker'[w].previous = worker[w].previous
         /\ worker'[w].target = worker[w].target
         /\ \A x \in Writers \ {w} : worker'[x] = worker[x]
BY DEF AdmissionTypes, Goes, WriterStates

\* One writer's record changes and the others keep theirs.
LEMMA OneWriter ==
  ASSUME AdmissionTypes, NEW w \in Writers, NEW v \in WriterStates, worker' = [worker EXCEPT ![w] = v]
  PROVE  /\ worker' \in [Writers -> WriterStates] /\ worker'[w] = v
         /\ \A x \in Writers \ {w} : worker'[x] = worker[x]
BY DEF AdmissionTypes

\* The invariant over steps that leave the manifest alone.
LEMMA ManifestStays ==
  ASSUME AdmissionInv, NEW w \in Writers, Rest, UNCHANGED manifest,
         worker' \in [Writers -> WriterStates], \A x \in Writers \ {w} : worker'[x] = worker[x],
         mutex' \in Writers \cup {"none"}, \A x \in Writers \ {w} : mutex = x => mutex' = x,
         revoked' \subseteq manifest.revoked, WriterIsRight(w)'
  PROVE  AdmissionInv'
<1>1. AdmissionTypes'
  <2>1. manifest.revoked \subseteq Documents BY DEF AdmissionInv, AdmissionTypes, Manifests
  <2> QED BY <2>1 DEF AdmissionInv, AdmissionTypes, Rest
<1>2. ASSUME NEW x \in Writers PROVE WriterIsRight(x)'
  BY DEF AdmissionInv, WriterIsRight
<1>3. \A r \in Readers : ReaderIsRight(r)' BY DEF AdmissionInv, ReaderIsRight, Rest
<1> QED BY <1>1, <1>2, <1>3 DEF AdmissionInv

LEMMA WriterSteps ==
  ASSUME AdmissionInv, NEW w \in Writers,
         \/ BeginWrite(w) \/ TakeLock(w) \/ Abandon(w) \/ ReadManifest(w) \/ Screen(w) \/ Reread(w)
         \/ Prepare(w) \/ LookOnceMore(w) \/ Release(w) \/ Die(w)
  PROVE  AdmissionInv' /\ UNCHANGED <<manifest, served>>
<1> USE DEF AdmissionInv
<1>0. UNCHANGED manifest /\ Rest
  BY DEF BeginWrite, TakeLock, Abandon, ReadManifest, Screen, Reread, Prepare, LookOnceMore, Release, Die
<1>a. UNCHANGED served BY <1>0 DEF Rest
<1>1. CASE BeginWrite(w)
  <2>1. PICK t \in SUBSET Documents :
          /\ IF w \in Refreshes THEN t = {} ELSE t # {}
          /\ worker' = [worker EXCEPT ![w] = [Idle EXCEPT !.at = "locking", !.target = t]]
    BY <1>1 DEF BeginWrite
  <2>2. [Idle EXCEPT !.at = "locking", !.target = t] \in WriterStates
    BY DEF Idle, WriterStates, Absent, Manifests
  <2>3. worker' \in [Writers -> WriterStates] /\ worker'[w].at = "locking" /\ worker'[w].target = t
        /\ \A x \in Writers \ {w} : worker'[x] = worker[x]
    BY <2>1, <2>2 DEF AdmissionTypes, Idle
  <2>4. WriterIsRight(w)' BY <2>1, <2>3 DEF WriterIsRight, Locked
  <2> QED BY <1>0, <1>a, <1>1, <2>3, <2>4, ManifestStays DEF BeginWrite, AdmissionTypes
<1>2. CASE TakeLock(w)
  <2>1. Goes(w, "locked") /\ mutex = "none" /\ mutex' = w /\ UNCHANGED revoked BY <1>2 DEF TakeLock
  <2>2. WriterIsRight(w)' BY <2>1, GoesOn DEF WriterIsRight, Locked
  <2> QED BY <1>0, <1>a, <2>1, <2>2, GoesOn, ManifestStays, AdmissionAssumption DEF Writers, Locked
<1>3. CASE Abandon(w) \/ Reread(w) \/ Prepare(w) \/ LookOnceMore(w) \/ Die(w)
  <2>1. UNCHANGED <<mutex, revoked>> BY <1>3 DEF Abandon, Reread, Prepare, LookOnceMore, Die
  <2>2. PICK at \in {"failed", "releasing", "checked", "prepared", "publishing", "dead"} :
          Goes(w, at) /\ (at \notin {"failed", "dead"} => worker[w].at \in Locked)
                      /\ (at = "publishing" => manifest = worker[w].previous)
    BY <1>3 DEF Abandon, Reread, Prepare, LookOnceMore, Die, Locked
  <2>3. at \in Locked \cup {"idle", "locking", "done", "failed", "dead"} BY DEF Locked
  <2>4. WriterIsRight(w)' BY <1>0, <2>1, <2>2, <2>3, GoesOn DEF WriterIsRight, Locked
  <2> QED BY <1>0, <1>a, <2>1, <2>2, <2>3, <2>4, GoesOn, ManifestStays DEF AdmissionTypes
<1>4. CASE ReadManifest(w)
  <2>1. PICK at \in {"scanning", "releasing", "answered", "checked"} :
          /\ worker' = [worker EXCEPT ![w].previous = manifest, ![w].left = Documents, ![w].at = at]
          /\ at = "answered" => worker[w].target \subseteq manifest.revoked
    BY <1>4 DEF ReadManifest
  <2>2. /\ worker' \in [Writers -> WriterStates] /\ worker'[w].at = at
        /\ worker'[w].target = worker[w].target /\ \A x \in Writers \ {w} : worker'[x] = worker[x]
    <3>1. worker[w] \in WriterStates /\ manifest \in Manifests /\ at \in Locked BY DEF AdmissionTypes, Locked
    <3> DEFINE u == [worker[w] EXCEPT !.previous = manifest, !.left = Documents, !.at = at]
    <3>2. u \in WriterStates /\ u.at = at /\ u.target = worker[w].target BY <3>1 DEF WriterStates, Locked
    <3>3. worker' = [worker EXCEPT ![w] = u] BY <2>1
    <3> HIDE DEF u
    <3>4. worker' \in [Writers -> WriterStates] /\ worker'[w] = u /\ \A x \in Writers \ {w} : worker'[x] = worker[x]
      BY <3>2, <3>3, OneWriter
    <3> QED BY <3>2, <3>4
  <2>3. UNCHANGED <<mutex, revoked>> /\ worker[w].at \in Locked BY <1>4 DEF ReadManifest, Locked
  <2>4. WriterIsRight(w)' BY <1>0, <2>1, <2>2, <2>3 DEF WriterIsRight, Locked
  <2>5. /\ mutex' \in Writers \cup {"none"} /\ \A x \in Writers \ {w} : mutex = x => mutex' = x
        /\ revoked' \subseteq manifest.revoked
    BY <2>3 DEF AdmissionTypes
  <2> QED BY <1>0, <1>a, <2>2, <2>4, <2>5, ManifestStays
<1>5. CASE Screen(w)
  <2>1. PICK f \in worker[w].left :
          worker' = [worker EXCEPT ![w].left = @ \ {f},
             ![w].found = IF f \in worker[w].previous.revoked THEN @
                          ELSE @ \cup ({<<f, source[f]>>} \cap (Documents \X Clean))]
    BY <1>5 DEF Screen
  <2>2. /\ worker' \in [Writers -> WriterStates] /\ worker'[w].at = worker[w].at
        /\ worker'[w].target = worker[w].target /\ \A x \in Writers \ {w} : worker'[x] = worker[x]
    <3> DEFINE s == IF f \in worker[w].previous.revoked THEN worker[w].found
                    ELSE worker[w].found \cup ({<<f, source[f]>>} \cap (Documents \X Clean))
    <3>1. worker[w] \in WriterStates BY DEF AdmissionTypes
    <3>2. s \in SUBSET (Documents \X Clean) /\ worker[w].left \ {f} \in SUBSET Documents
      BY <3>1 DEF WriterStates
    <3> DEFINE u == [worker[w] EXCEPT !.left = worker[w].left \ {f}, !.found = s]
    <3>3. worker' = [worker EXCEPT ![w] = u] BY <2>1
    <3> HIDE DEF s
    <3>4. u \in WriterStates /\ u.at = worker[w].at /\ u.target = worker[w].target BY <3>1, <3>2 DEF WriterStates
    <3> HIDE DEF u
    <3>5. worker' \in [Writers -> WriterStates] /\ worker'[w] = u /\ \A x \in Writers \ {w} : worker'[x] = worker[x]
      BY <3>3, <3>4, OneWriter
    <3> QED BY <3>4, <3>5
  <2>3. UNCHANGED <<mutex, revoked>> /\ worker[w].at = "scanning" BY <1>5 DEF Screen
  <2>4. WriterIsRight(w)' BY <2>2, <2>3 DEF WriterIsRight, Locked
  <2>5. /\ mutex' \in Writers \cup {"none"} /\ \A x \in Writers \ {w} : mutex = x => mutex' = x
        /\ revoked' \subseteq manifest.revoked
    BY <2>3 DEF AdmissionTypes
  <2> QED BY <1>0, <1>a, <2>2, <2>4, <2>5, ManifestStays
<1>6. CASE Release(w)
  <2>1. mutex = w /\ mutex' = "none" BY <1>6 DEF Release
  <2>2. \/ worker[w].at = "answered" /\ Goes(w, "done") /\ revoked' = revoked \cup worker[w].target
        \/ Goes(w, "failed") /\ UNCHANGED revoked
    BY <1>6 DEF Release
  <2>3. revoked' \subseteq manifest.revoked BY <2>2 DEF WriterIsRight
  <2>4. WriterIsRight(w)' BY <2>2, GoesOn DEF WriterIsRight, Locked
  <2> QED BY <1>0, <1>a, <2>1, <2>2, <2>3, <2>4, GoesOn, ManifestStays
<1> QED BY <1>1, <1>2, <1>3, <1>4, <1>5, <1>6

\* A rename keeps what was revoked.
LEMMA PublishKeeps ==
  ASSUME AdmissionInv, NEW w \in Writers, Publish(w)
  PROVE  AdmissionInv' /\ UNCHANGED served
<1> USE DEF AdmissionInv
<1>1. worker[w].previous = manifest /\ mutex = w /\ worker[w] \in WriterStates
  BY DEF Publish, WriterIsRight, Locked, AdmissionTypes
<1>2. manifest' = Written(w) /\ UNCHANGED <<mutex, revoked>> /\ Rest BY DEF Publish
<1>3. PICK at \in {"answered", "releasing"} : Goes(w, at) BY DEF Publish
<1>4. /\ worker' \in [Writers -> WriterStates] /\ worker'[w].at = at /\ worker'[w].target = worker[w].target
      /\ \A x \in Writers \ {w} : worker'[x] = worker[x]
  BY <1>3, GoesOn DEF Locked
<1>5. manifest' \in Manifests /\ manifest.revoked \cup worker[w].target \subseteq manifest'.revoked
  BY <1>1, <1>2 DEF Written, WriterStates, Manifests, WriterIsRight
<1>6. AdmissionTypes' BY <1>2, <1>4, <1>5 DEF AdmissionTypes, Rest
<1>7. ASSUME NEW x \in Writers PROVE WriterIsRight(x)'
  <2>1. CASE x = w BY <1>1, <1>2, <1>4, <1>5, <2>1 DEF WriterIsRight, Locked
  <2>2. CASE x # w BY <1>1, <1>2, <1>4, <2>2 DEF WriterIsRight, Locked
  <2> QED BY <2>1, <2>2
<1>8. \A r \in Readers : ReaderIsRight(r)' BY <1>2 DEF ReaderIsRight, Rest
<1> QED BY <1>2, <1>5, <1>6, <1>7, <1>8 DEF Rest

LEMMA OthersKeep ==
  ASSUME AdmissionInv, Edit \/ Tidy \/ UNCHANGED admissionVars
  PROVE  AdmissionInv' /\ UNCHANGED <<manifest, served, revoked>>
<1> USE DEF AdmissionInv
<1>1. CASE Edit
  <2>1. source' \in [Documents -> 0..MaxEdits] BY <1>1, AdmissionAssumption DEF Edit, AdmissionTypes
  <2> QED BY <1>1, <2>1 DEF Edit, AdmissionTypes, WriterIsRight, ReaderIsRight
<1>2. CASE Tidy
  <2>1. \A w \in Writers : worker[w].at \in Locked => mutex # w BY <1>2 DEF Tidy, Locked
  <2> QED BY <1>2, <2>1 DEF Tidy, Rest, AdmissionTypes, WriterIsRight, ReaderIsRight
<1>3. CASE UNCHANGED admissionVars
  BY <1>3 DEF admissionVars, AdmissionTypes, WriterIsRight, ReaderIsRight
<1> QED BY <1>1, <1>2, <1>3

LEMMA ReadersKeep ==
  ASSUME AdmissionInv, NEW r \in Readers, Open(r) \/ Verify(r)
  PROVE  /\ AdmissionInv' /\ UNCHANGED <<manifest, revoked>>
         /\ \A s \in served' \ served : s[1] \notin revoked
<1> USE DEF AdmissionInv
<1>0. UNCHANGED <<source, manifest, mutex, worker, revoked>> BY DEF Open, Verify
<1>1. CASE Open(r)
  <2>1. PICK f \in Documents :
          /\ Admitted(manifest, f)
          /\ reading' = [reading EXCEPT ![r] = [at |-> "read", file |-> {f}, generation |-> manifest,
                                               version |-> source[f]]]
    BY <1>1 DEF Open
  <2>2. [at |-> "read", file |-> {f}, generation |-> manifest, version |-> source[f]] \in ReaderStates
    BY DEF ReaderStates, AdmissionTypes
  <2>3. UNCHANGED served BY <1>1 DEF Open
  <2> QED BY <1>0, <2>1, <2>2, <2>3 DEF AdmissionTypes, WriterIsRight, ReaderIsRight, Admitted
<1>2. CASE Verify(r)
  <2>1. PICK f \in reading[r].file :
          served' = served \cup (IF /\ manifest = reading[r].generation
                                    /\ source[f] = reading[r].version
                                    /\ <<f, reading[r].version>> \in manifest.files
                                 THEN {<<f, reading[r].version>>} ELSE {})
    BY <1>2 DEF Verify
  <2>2. f \in Documents /\ manifest.files \subseteq Documents \X Clean /\ reading[r].at = "read"
    BY <1>2 DEF AdmissionTypes, ReaderStates, Manifests, Verify
  <2>3. \A s \in served' \ served : s \in manifest.files /\ s[1] = f /\ f \notin manifest.revoked
    BY <2>1, <2>2 DEF ReaderIsRight
  <2>4. NoRead \in ReaderStates BY AdmissionAssumption DEF NoRead, ReaderStates, Absent, Manifests
  <2>5. reading' = [reading EXCEPT ![r] = NoRead] BY <1>2 DEF Verify
  <2>6. AdmissionTypes' BY <1>0, <2>2, <2>3, <2>4, <2>5 DEF AdmissionTypes
  <2>7. \A x \in Readers : ReaderIsRight(x)' BY <2>5 DEF ReaderIsRight, NoRead, AdmissionTypes
  <2> QED BY <1>0, <2>3, <2>6, <2>7 DEF WriterIsRight
<1> QED BY <1>1, <1>2

\* Readers are served only what was screened, and a revocation that was
\* answered stands, for any files, writers, readers, edits and deaths
\* (refreshRootLocked, revokeAdmission, readVerifiedBytes).
THEOREM AdmissionAlwaysHolds == AdmissionSpec => AdmissionHolds
<1>1. AdmissionInv /\ [AdmissionNext]_admissionVars => AdmissionInv'
  BY WriterSteps, PublishKeeps, OthersKeep, ReadersKeep DEF AdmissionNext
<1>2. AdmissionInv /\ [AdmissionNext]_admissionVars => \A s \in served' \ served : s[1] \notin revoked
  BY WriterSteps, PublishKeeps, OthersKeep, ReadersKeep DEF AdmissionNext
<1>3. AdmissionInv' => ServesScreened' /\ revoked' \subseteq manifest'.revoked
  BY DEF AdmissionInv, AdmissionTypes, ServesScreened
<1>4. AdmissionInv /\ [AdmissionNext]_admissionVars =>
        [/\ ServesScreened'
         /\ revoked' \subseteq manifest'.revoked
         /\ \A s \in served' \ served : s[1] \notin revoked]_admissionVars
  BY <1>1, <1>2, <1>3
<1> QED BY AdmissionStarts, <1>1, <1>4, PTL DEF AdmissionSpec, AdmissionHolds

----------------------------------------------------------------------------
(***************************************************************************)
(* The watcher of the search for any number of events and passes: when the *)
(* runner has ended, no pass is under way or will begin.                   *)
(***************************************************************************)

Hosts == {"ready", "dwell", "power", "unpublished"}
WatcherStates ==
    [running : BOOLEAN, pass : {"none", "metadata", "index"}, ready : BOOLEAN, queued : BOOLEAN, microtask : BOOLEAN,
     paused : Hosts, stopped : BOOLEAN, aborted : BOOLEAN, timer : BOOLEAN, events : BOOLEAN,
     sick : BOOLEAN, last : {"none", "ok", "failed"}]
RunnerStates ==
    [at : {"start", "watch", "up", "draining", "over"}, stop : BOOLEAN, mute : BOOLEAN,
     phase : {"starting", "watching", "paused", "degraded", "recovering", "stopped"}, tick : {"none", "waits"}]

\* A watcher that is stopped has let go of its timer and its events, and a
\* pass is under way only where it is marked as running.
WatcherIsSound(w) ==
    /\ w \in WatcherStates
    /\ w.pass # "none" => w.running
    /\ w.stopped => ~w.timer /\ ~w.events

\* A watcher of which nothing will come any more.
Dormant(w) == ~w.running /\ ~w.timer /\ ~w.events /\ (w.stopped \/ ~w.microtask)

RunnerIsSound(r, w) ==
    /\ r \in RunnerStates
    /\ r.at = "start" => Dormant(w) /\ ~w.stopped
    /\ w.stopped => r.stop
    /\ r.tick = "waits" => r.at \in {"up", "draining"}
    /\ r.at = "over" => Dormant(w)

FreshnessInv ==
    /\ WatcherIsSound(watcher) /\ RunnerIsSound(runner, watcher)
    /\ host \in Hosts
    /\ runner.at = "over" => runner.mute \/ status \in {"stopped", "degraded"}

LEMMA FreshnessStarts == FreshnessInit => FreshnessInv
BY DEF FreshnessInit, FreshnessInv, WatcherIsSound, RunnerIsSound, Dormant, Hosts, WatcherStates, RunnerStates

LEMMA CheckedIsSound ==
  ASSUME NEW w, WatcherIsSound(w), host \in Hosts
  PROVE  /\ WatcherIsSound(Checked(w))
         /\ Checked(w).running = w.running /\ Checked(w).pass = w.pass /\ Checked(w).timer = w.timer
         /\ Checked(w).events = w.events /\ Checked(w).stopped = w.stopped /\ Checked(w).microtask = w.microtask
BY ZenonT(60) DEF Checked, WatcherIsSound, WatcherStates, Hosts

LEMMA HaltedIsSound ==
  ASSUME NEW w, WatcherIsSound(w)
  PROVE  /\ WatcherIsSound(Halted(w)) /\ Halted(w).stopped /\ Halted(w).running = w.running
         /\ ~Halted(w).timer /\ ~Halted(w).events
BY ZenonT(60) DEF Halted, WatcherIsSound, WatcherStates

LEMMA FinishedIsSound ==
  ASSUME NEW w, WatcherIsSound(w)
  PROVE  /\ WatcherIsSound(Finished(w)) /\ Finished(w).stopped = w.stopped /\ ~Finished(w).running
         /\ Finished(w).timer = w.timer /\ Finished(w).events = w.events
         /\ w.stopped => Finished(w).microtask = w.microtask
BY DEF Finished, WatcherIsSound, WatcherStates

LEMMA RunIsSound ==
  ASSUME NEW w, WatcherIsSound(w), host \in Hosts, NEW reason
  PROVE  /\ WatcherIsSound(Run(w, reason)) /\ Run(w, reason).stopped = w.stopped
         /\ Run(w, reason).timer = w.timer /\ Run(w, reason).events = w.events
         /\ Run(w, reason).microtask = w.microtask
         /\ w.stopped => Run(w, reason) = w
<1> DEFINE v == [w EXCEPT !.running = TRUE]
           c == Checked(v)
           b == [c EXCEPT !.queued = FALSE, !.pass = "metadata", !.ready = host = "ready", !.aborted = FALSE]
           q == [w EXCEPT !.queued = TRUE]
<1>1. /\ WatcherIsSound(v) /\ v.running /\ v.stopped = w.stopped /\ v.timer = w.timer /\ v.events = w.events
      /\ v.microtask = w.microtask
  BY DEF WatcherIsSound, WatcherStates
<1> HIDE DEF v
<1>2. /\ WatcherIsSound(c) /\ c.running /\ c.stopped = w.stopped /\ c.timer = w.timer /\ c.events = w.events
      /\ c.microtask = w.microtask
  BY <1>1, CheckedIsSound
<1> HIDE DEF c
<1>3. /\ WatcherIsSound(b) /\ b.stopped = w.stopped /\ b.timer = w.timer /\ b.events = w.events
      /\ b.microtask = w.microtask
  BY <1>2 DEF WatcherIsSound, WatcherStates
<1>4. /\ WatcherIsSound(q) /\ q.stopped = w.stopped /\ q.timer = w.timer /\ q.events = w.events
      /\ q.microtask = w.microtask
  BY DEF WatcherIsSound, WatcherStates
<1>5. Run(w, reason) \in {w, q, b} /\ (w.stopped => Run(w, reason) = w)
  BY DEF Run, v, c
<1> HIDE DEF b, q
<1> QED BY <1>3, <1>4, <1>5

\* What a write of the status makes of a sound runner and watcher.
LEMMA PublishedIsSound ==
  ASSUME NEW r, NEW w, Published(r, w), WatcherIsSound(w), RunnerIsSound(r, w), host' \in Hosts,
         r.at = "over" => r.phase \in {"stopped", "degraded"}
  PROVE  FreshnessInv' /\ runner'.at = r.at
<1>1. CASE r.mute /\ runner' = r /\ watcher' = w
  BY <1>1 DEF FreshnessInv, RunnerIsSound
<1>2. CASE ~r.mute /\ runner' = r /\ watcher' = w /\ status' = r.phase
  BY <1>2 DEF FreshnessInv, RunnerIsSound
<1>3. CASE /\ runner' = [r EXCEPT !.mute = TRUE, !.phase = "degraded", !.stop = TRUE]
           /\ watcher' = (IF r.at = "start" THEN w ELSE Halted(w))
  <2>1. /\ runner' \in RunnerStates /\ runner'.at = r.at /\ runner'.tick = r.tick /\ runner'.mute /\ runner'.stop
    BY <1>3 DEF RunnerIsSound, RunnerStates
  <2>2. WatcherIsSound(watcher') /\ RunnerIsSound(runner', watcher')
    BY <1>3, <2>1, HaltedIsSound DEF RunnerIsSound, Dormant
  <2> QED BY <2>1, <2>2 DEF FreshnessInv
<1> QED BY <1>1, <1>2, <1>3 DEF Published

LEMMA CalledBackIsSound ==
  ASSUME NEW r, NEW w, CalledBack(r, w), WatcherIsSound(w), RunnerIsSound(r, w), host' \in Hosts, r.at # "over"
  PROVE  FreshnessInv'
BY PublishedIsSound DEF CalledBack, FreshnessInv

\* Steps of the runner.
LEMMA RunnerSteps ==
  ASSUME FreshnessInv,
         StartService \/ GiveUpStart \/ WatchReturns \/ Signal \/ BeginTick \/ EndTick \/ Drain \/ FinishService
  PROVE  FreshnessInv'
<1>0. /\ WatcherIsSound(watcher) /\ RunnerIsSound(runner, watcher) /\ host \in Hosts
      /\ Projected(watcher) \in {"degraded", "paused", "watching"}
  BY DEF FreshnessInv, Projected
<1>h. host' \in Hosts
  BY <1>0 DEF StartService, GiveUpStart, WatchReturns, Signal, BeginTick, EndTick, Drain, FinishService
<1>1. CASE StartService
  <2>1. CASE Published([runner EXCEPT !.at = "over", !.phase = "degraded", !.stop = TRUE], watcher)
    <3>1. RunnerIsSound([runner EXCEPT !.at = "over", !.phase = "degraded", !.stop = TRUE], watcher)
      BY <1>0, <1>1 DEF RunnerIsSound, RunnerStates, StartService
    <3>2. [runner EXCEPT !.at = "over", !.phase = "degraded", !.stop = TRUE].phase = "degraded"
      BY <1>0 DEF RunnerIsSound, RunnerStates
    <3> QED BY <1>0, <1>h, <2>1, <3>1, <3>2, PublishedIsSound
  <2>2. CASE Published(runner, watcher)
    BY <1>0, <1>1, <1>h, <2>2, PublishedIsSound DEF StartService
  <2>3. CASE /\ ~runner.stop /\ runner' = [runner EXCEPT !.at = "watch"]
             /\ watcher' = Run([watcher EXCEPT !.timer = TRUE], "startup")
    <3> DEFINE w == [watcher EXCEPT !.timer = TRUE]
    <3>1. WatcherIsSound(w) /\ ~w.stopped /\ watcher' = Run(w, "startup")
      BY <1>0, <1>1, <2>3 DEF WatcherIsSound, WatcherStates, RunnerIsSound, StartService
    <3> HIDE DEF w
    <3>2. WatcherIsSound(watcher') /\ ~watcher'.stopped BY <1>0, <3>1, RunIsSound
    <3>3. runner' \in RunnerStates /\ runner'.at = "watch" /\ runner'.tick = runner.tick
      BY <1>0, <2>3 DEF RunnerIsSound, RunnerStates
    <3>4. runner.tick # "waits" BY <1>0, <1>1 DEF RunnerIsSound, StartService
    <3> QED BY <1>h, <3>2, <3>3, <3>4 DEF FreshnessInv, RunnerIsSound
  <2> QED BY <1>1, <2>1, <2>2, <2>3 DEF StartService
<1>2. CASE GiveUpStart
  BY <1>0, <1>2 DEF GiveUpStart, FreshnessInv, RunnerIsSound, RunnerStates
<1>3. CASE WatchReturns
  <2>1. CASE runner.stop
    <3>1. runner' = [runner EXCEPT !.at = "draining"] /\ watcher' = watcher /\ runner.at = "watch"
      BY <1>3, <2>1 DEF WatchReturns
    <3> QED BY <1>0, <1>h, <3>1 DEF FreshnessInv, RunnerIsSound, RunnerStates
  <2>2. CASE ~runner.stop
    <3> DEFINE q == [runner EXCEPT !.at = "up", !.phase = Projected(watcher)]
               w == [watcher EXCEPT !.events = TRUE]
    <3>1. Published(q, w) BY <1>3, <2>2 DEF WatchReturns
    <3>2. q \in RunnerStates /\ q.at = "up" /\ q.stop = runner.stop
      BY <1>0 DEF RunnerIsSound, RunnerStates
    <3>3. WatcherIsSound(w) /\ ~w.stopped
      BY <1>0, <2>2 DEF WatcherIsSound, WatcherStates, RunnerIsSound
    <3> HIDE DEF q, w
    <3>4. RunnerIsSound(q, w) BY <3>2, <3>3 DEF RunnerIsSound
    <3> QED BY <1>h, <3>1, <3>2, <3>3, <3>4, PublishedIsSound
  <2> QED BY <2>1, <2>2
<1>4. CASE Signal
  <2>1. /\ runner' \in RunnerStates /\ runner'.at = runner.at /\ runner'.stop /\ runner'.tick = runner.tick
        /\ runner.at # "over"
    BY <1>0, <1>4 DEF Signal, RunnerIsSound, RunnerStates
  <2>2. watcher' = IF runner.at = "start" THEN watcher ELSE Halted(watcher) BY <1>4 DEF Signal
  <2>3. WatcherIsSound(watcher') BY <1>0, <2>2, HaltedIsSound
  <2> QED BY <1>0, <1>h, <2>1, <2>2, <2>3 DEF FreshnessInv, RunnerIsSound
<1>5. CASE BeginTick
  <2>1. runner.at = "up" /\ ~runner.stop BY <1>5 DEF BeginTick
  <2>2. CASE Published([runner EXCEPT !.phase = Projected(watcher)], watcher)
    <3> DEFINE q == [runner EXCEPT !.phase = Projected(watcher)]
    <3>1. q \in RunnerStates /\ q.at = "up" /\ q.stop = runner.stop /\ q.tick = runner.tick
      BY <1>0, <2>1 DEF RunnerIsSound, RunnerStates
    <3> HIDE DEF q
    <3>2. RunnerIsSound(q, watcher) BY <1>0, <3>1 DEF RunnerIsSound
    <3> QED BY <1>0, <1>h, <2>2, <3>1, <3>2, PublishedIsSound DEF q
  <2>3. CASE /\ watcher' = Run(watcher, "explicitSignal")
             /\ runner' = [runner EXCEPT !.phase = "recovering", !.tick = "waits"]
    <3>1. WatcherIsSound(watcher') /\ watcher'.stopped = watcher.stopped BY <1>0, <2>3, RunIsSound
    <3>2. runner' \in RunnerStates /\ runner'.at = "up" /\ runner'.stop = runner.stop
      BY <1>0, <2>1, <2>3 DEF RunnerIsSound, RunnerStates
    <3> QED BY <1>0, <1>h, <3>1, <3>2 DEF FreshnessInv, RunnerIsSound
  <2> QED BY <1>5, <2>2, <2>3 DEF BeginTick
<1>6. CASE EndTick
  <2>0. runner.at \in {"up", "draining"} BY <1>0, <1>6 DEF EndTick, RunnerIsSound
  <2>1. CASE runner.stop
    <3>1. runner' = [runner EXCEPT !.tick = "none"] /\ watcher' = watcher
      BY <1>6, <2>1 DEF EndTick
    <3> QED BY <1>0, <1>h, <2>0, <3>1 DEF FreshnessInv, RunnerIsSound, RunnerStates
  <2>2. CASE ~runner.stop
    <3>1. PICK phase \in {Projected(watcher), "degraded"} :
            Published([runner EXCEPT !.tick = "none", !.phase = phase], watcher)
      BY <1>6, <2>2 DEF EndTick
    <3> DEFINE q == [runner EXCEPT !.tick = "none", !.phase = phase]
    <3>2. q \in RunnerStates /\ q.at = runner.at /\ q.stop = runner.stop /\ q.tick = "none"
      BY <1>0 DEF RunnerIsSound, RunnerStates
    <3> HIDE DEF q
    <3>3. RunnerIsSound(q, watcher) BY <1>0, <2>0, <3>2 DEF RunnerIsSound
    <3> QED BY <1>0, <1>h, <2>0, <3>1, <3>2, <3>3, PublishedIsSound DEF q
  <2> QED BY <2>1, <2>2
<1>7. CASE Drain
  BY <1>0, <1>7 DEF Drain, FreshnessInv, RunnerIsSound, RunnerStates
<1>8. CASE FinishService
  <2> DEFINE q == [runner EXCEPT !.at = "over", !.phase = "stopped"]
  <2>1. Published(q, watcher) /\ runner.tick = "none" /\ watcher.stopped /\ ~watcher.running
    BY <1>8 DEF FinishService, Drained
  <2>2. q \in RunnerStates /\ q.at = "over" /\ q.stop = runner.stop /\ q.tick = "none" /\ q.phase = "stopped"
    BY <1>0, <2>1 DEF RunnerIsSound, RunnerStates
  <2> HIDE DEF q
  <2>3. RunnerIsSound(q, watcher) BY <1>0, <2>1, <2>2 DEF RunnerIsSound, WatcherIsSound, Dormant
  <2> QED BY <1>0, <1>h, <2>1, <2>2, <2>3, PublishedIsSound
<1> QED BY <1>1, <1>2, <1>3, <1>4, <1>5, <1>6, <1>7, <1>8

\* A step of the watcher on its own: once stopped, or once the runner is
\* over, nothing of it starts.
LEMMA WatcherOnly ==
  ASSUME FreshnessInv, host' \in Hosts, UNCHANGED <<runner, status>>, runner.at \notin {"start", "over"},
         WatcherIsSound(watcher'), watcher'.stopped = watcher.stopped
  PROVE  FreshnessInv'
BY DEF FreshnessInv, RunnerIsSound

LEMMA WatcherSteps ==
  ASSUME FreshnessInv, Change \/ Periodic \/ RunQueued \/ Metadata \/ Indexed \/ PassFails \/ HostChanges
  PROVE  FreshnessInv'
<1>0. WatcherIsSound(watcher) /\ RunnerIsSound(runner, watcher) /\ host \in Hosts BY DEF FreshnessInv
<1>h. host' \in Hosts
  BY <1>0 DEF Change, Periodic, RunQueued, Metadata, Indexed, PassFails, HostChanges, Hosts
<1>1. CASE Change
  <2>1. WatcherIsSound(watcher') /\ watcher'.stopped = watcher.stopped BY <1>0, <1>1, RunIsSound DEF Change
  <2> QED BY <1>1, <1>h, <2>1, WatcherOnly DEF Change
<1>2. CASE Periodic
  <2>1. WatcherIsSound(watcher') /\ watcher'.stopped = watcher.stopped
    BY <1>0, <1>2, RunIsSound, CheckedIsSound DEF Periodic
  <2>2. runner.at \notin {"start", "over"} BY <1>0, <1>2 DEF Periodic, RunnerIsSound, Dormant
  <2> QED BY <1>2, <1>h, <2>1, <2>2, WatcherOnly DEF Periodic
<1>3. CASE RunQueued
  <2> DEFINE v == [watcher EXCEPT !.microtask = FALSE]
  <2>1. /\ WatcherIsSound(v) /\ v.stopped = watcher.stopped /\ v.running = watcher.running
        /\ v.timer = watcher.timer /\ v.events = watcher.events
    BY <1>0 DEF WatcherIsSound, WatcherStates
  <2>2. watcher' = Run(v, "queued") /\ watcher.microtask /\ UNCHANGED <<runner, status>> BY <1>3 DEF RunQueued
  <2> HIDE DEF v
  <2>3. WatcherIsSound(watcher') /\ watcher'.stopped = watcher.stopped /\ (v.stopped => watcher' = v)
    BY <1>0, <2>1, <2>2, RunIsSound
  <2>4. runner.at # "start" BY <1>0, <2>2 DEF RunnerIsSound, Dormant
  <2>5. CASE runner.at = "over"
    <3>1. watcher.stopped BY <1>0, <2>2, <2>5 DEF RunnerIsSound, Dormant
    <3>2. watcher' = v BY <2>1, <2>3, <3>1
    <3> QED BY <1>0, <1>h, <2>1, <2>2, <2>5, <3>1, <3>2 DEF FreshnessInv, RunnerIsSound, Dormant
  <2> QED BY <1>h, <2>2, <2>3, <2>4, <2>5, WatcherOnly
<1>4. CASE watcher.pass # "none" /\ (Metadata \/ Indexed \/ PassFails)
  <2>0. runner.at \notin {"start", "over"} BY <1>0, <1>4 DEF WatcherIsSound, RunnerIsSound, Dormant
  <2>1. CASE Metadata
    <3>1. WatcherIsSound([watcher EXCEPT !.pass = "index"]) /\ [watcher EXCEPT !.pass = "index"].stopped = watcher.stopped
      BY <1>0, <1>4 DEF WatcherIsSound, WatcherStates
    <3>2. WatcherIsSound(watcher') /\ watcher'.stopped = watcher.stopped
      BY <1>0, <2>1, <3>1, FinishedIsSound DEF Metadata
    <3> QED BY <1>h, <2>0, <2>1, <3>2, WatcherOnly DEF Metadata
  <2>2. ASSUME NEW phase \in {"watching", "degraded"}
        PROVE  LET q == [runner EXCEPT !.phase = phase]
               IN  q \in RunnerStates /\ q.at = runner.at /\ q.stop = runner.stop /\ q.tick = runner.tick
    BY <1>0 DEF RunnerIsSound, RunnerStates
  <2>3. CASE Indexed
    <3> DEFINE q == [runner EXCEPT !.phase = "watching"]
               v == [watcher EXCEPT !.last = "ok"]
    <3>1. CalledBack(q, Finished(v)) BY <2>3 DEF Indexed
    <3>2. q \in RunnerStates /\ q.at = runner.at /\ q.stop = runner.stop /\ q.tick = runner.tick BY <2>2
    <3>3. WatcherIsSound(v) /\ v.stopped = watcher.stopped BY <1>0 DEF WatcherIsSound, WatcherStates
    <3> HIDE DEF q, v
    <3>4. WatcherIsSound(Finished(v)) /\ Finished(v).stopped = watcher.stopped BY <3>3, FinishedIsSound
    <3>5. RunnerIsSound(q, Finished(v)) BY <1>0, <2>0, <3>2, <3>4 DEF RunnerIsSound
    <3> QED BY <1>h, <2>0, <3>1, <3>2, <3>4, <3>5, CalledBackIsSound
  <2>4. CASE PassFails
    <3> DEFINE q == [runner EXCEPT !.phase = "degraded"]
               v == [watcher EXCEPT !.last = "failed", !.sick = TRUE]
    <3>1. \/ CalledBack(q, Finished(v))
          \/ runner' = q /\ watcher' = Finished(v)
      BY <2>4 DEF PassFails
    <3>2. q \in RunnerStates /\ q.at = runner.at /\ q.stop = runner.stop /\ q.tick = runner.tick BY <2>2
    <3>3. WatcherIsSound(v) /\ v.stopped = watcher.stopped BY <1>0 DEF WatcherIsSound, WatcherStates
    <3> HIDE DEF q, v
    <3>4. WatcherIsSound(Finished(v)) /\ Finished(v).stopped = watcher.stopped BY <3>3, FinishedIsSound
    <3>5. RunnerIsSound(q, Finished(v)) BY <1>0, <2>0, <3>2, <3>4 DEF RunnerIsSound
    <3>6. CASE runner' = q /\ watcher' = Finished(v)
      BY <1>h, <2>0, <3>2, <3>4, <3>5, <3>6 DEF FreshnessInv
    <3> QED BY <1>h, <2>0, <3>1, <3>2, <3>4, <3>5, <3>6, CalledBackIsSound
  <2> QED BY <1>4, <2>1, <2>3, <2>4
<1>5. CASE HostChanges
  BY <1>0, <1>5, <1>h DEF HostChanges, FreshnessInv
<1> QED BY <1>1, <1>2, <1>3, <1>4, <1>5 DEF Metadata, Indexed, PassFails

\* The invariant of the service of a folder's freshness.
LEMMA FreshnessSteps == FreshnessInv /\ [FreshnessNext]_freshnessVars => FreshnessInv'
<1>1. FreshnessInv /\ UNCHANGED freshnessVars => FreshnessInv'
  BY DEF FreshnessInv, freshnessVars, WatcherIsSound, RunnerIsSound, Dormant
<1> QED BY <1>1, RunnerSteps, WatcherSteps DEF FreshnessNext

\* When the runner has ended, no pass is under way or will begin, and the
\* last status does not pass for a living service's, whatever was on its way
\* (watch of maintenance.js, runService).
THEOREM StopIsAlwaysFinal == FreshnessSpec => []StopIsFinal
<1>1. FreshnessInv => StopIsFinal BY DEF FreshnessInv, RunnerIsSound, Dormant, StopIsFinal
<1> QED BY <1>1, FreshnessStarts, FreshnessSteps, PTL DEF FreshnessSpec

----------------------------------------------------------------------------
(***************************************************************************)
(* The search service for any number of operations and deaths: neither the *)
(* runner nor the user is told what the other's files no longer say.       *)
(***************************************************************************)

Artifacts == {"plist", "receipt", "marker"}
Launching == {"plist", "receipt", "marker", "bootstrap", "waiting"}
Undoing == {"bootout", "undoing"}
Disabling == {"asking", "stopping", "verifying"}
Operations == [at : Launching \cup Undoing \cup Disabling \cup {"idle", "looking", "joining", "removing"},
               gen : Nat, made : Seq(Artifacts)]
ArtifactFiles == [plist : BOOLEAN, receipt : Nat, marker : [gen : Nat, ack : Nat]]
Alive == {"checked", "acknowledging", "up"}
Daemons == [at : Alive \cup {"none", "starting"}, gen : Nat]

ServiceTypes ==
    /\ files \in ArtifactFiles
    /\ registration \in {"absent", "loaded", "leaving"}
    /\ daemon \in Daemons
    /\ beat \in {"none", "old", "starting", "watching", "paused", "degraded", "stopped", "disabled"}
    /\ op \in Operations
    /\ promised \in {"on", "off", "nothing"}
    /\ spent \in [operations : Nat, trouble : Nat]

\* launchd: no process without a label, and no label without its plist.
LabelsAreSound ==
    /\ registration = "absent" => daemon.at = "none"
    /\ registration # "absent" => files.plist
    /\ daemon.at \in Alive => daemon.gen # 0
    /\ op.at \in {"plist", "receipt", "marker", "bootstrap", "removing"} => registration = "absent"

\* The artifacts that disable has removed when these remain.
Removing(remaining) ==
    /\ remaining \in {<<"marker", "plist", "receipt">>, <<"plist", "receipt">>, <<"receipt">>, <<>>}
    /\ remaining # <<"marker", "plist", "receipt">> => files.marker = None
    /\ remaining \in {<<"receipt">>, <<>>} => ~files.plist
    /\ remaining = <<>> => files.receipt = 0

\* What the operation under way has made sure of.
OperationIsSound ==
    /\ op.at = "idle" => op = NoOperation
    /\ op.at \in {"looking", "joining"} =>
         /\ op.gen = files.receipt /\ (files.receipt # 0 => Valid)
         /\ files.receipt = 0 => ~Leftovers
    /\ op.at = "joining" => op.gen # 0
    /\ op.at = "looking" => spent.operations # 0
    /\ op.at \in Launching \cup Undoing => op.gen # 0
    /\ op.at \in Launching \ {"plist"} => files.plist
    /\ op.at \in {"marker", "bootstrap", "waiting"} => files.receipt = op.gen
    /\ op.at \in {"bootstrap", "waiting"} => files.marker.gen = op.gen
    /\ op.at \in Disabling => op.gen = 0
    /\ op.at = "removing" /\ op.gen = 0 => Removing(op.made)

\* What an answer rests on, until the next operation.
PromiseIsSound ==
    /\ promised # "nothing" => op.at = "idle"
    /\ promised = "on" => /\ Valid /\ files.marker.ack = files.receipt /\ files.marker.gen = files.receipt
                          /\ registration = "loaded"
                          /\ beat \in {"starting", "watching", "paused", "degraded", "stopped"}
    /\ promised = "off" => registration = "absent" /\ ~files.plist /\ files.receipt = 0

ServiceInv == ServiceTypes /\ LabelsAreSound /\ RunnersAreOwned /\ OperationIsSound /\ PromiseIsSound

LEMMA ServiceStarts == ServiceInit => ServiceInv
<1> SUFFICES ASSUME ServiceInit PROVE ServiceInv OBVIOUS
<1>1. <<>> \in Seq(Artifacts) OBVIOUS
<1>2. ServiceTypes
  BY <1>1 DEF ServiceInit, ServiceTypes, ArtifactFiles, Daemons, Operations, None, NoWorker, NoOperation
<1> QED BY <1>2 DEF ServiceInit, ServiceInv, LabelsAreSound, RunnersAreOwned, OperationIsSound, PromiseIsSound,
               NoWorker, NoOperation, Alive, Launching, Undoing, Disabling

\* The invariant says what the property asks.
LEMMA ServiceInvIsTold == ServiceInv => ServiceIsAsTold
<1> SUFFICES ASSUME ServiceInv PROVE AnswersStand BY DEF ServiceInv, ServiceIsAsTold
<1>1. CASE promised = "on"
  <2>1. /\ files.receipt # 0 /\ Valid /\ files.marker # None /\ files.marker.ack = files.receipt
        /\ registration # "absent"
        /\ beat \in {"starting", "watching", "paused", "degraded", "stopped"}
    BY <1>1 DEF ServiceInv, PromiseIsSound, Valid, None
  <2>2. StatusAnswer = beat BY <2>1 DEF StatusAnswer
  <2> QED BY <1>1, <2>1, <2>2 DEF AnswersStand
<1>2. CASE promised = "off"
  <2>1. StatusAnswer = "serviceNotEnabled" BY <1>2 DEF ServiceInv, PromiseIsSound, StatusAnswer, Valid
  <2> QED BY <1>2, <2>1 DEF AnswersStand, ServiceInv, PromiseIsSound, LabelsAreSound
<1>3. CASE promised = "nothing" BY <1>3 DEF AnswersStand
<1> QED BY <1>1, <1>2, <1>3 DEF ServiceInv, ServiceTypes

OpSteps == Launching \cup Undoing \cup Disabling \cup {"idle", "looking", "joining", "removing"}

LEMMA OpProceeds ==
  ASSUME ServiceTypes, NEW step \in OpSteps, Proceeds(step)
  PROVE  op' \in Operations /\ op'.at = step /\ op'.gen = op.gen /\ op'.made = op.made
BY DEF Proceeds, ServiceTypes, Operations, OpSteps

LEMMA IdleIsSound == NoOperation \in Operations /\ NoOperation.at = "idle"
<1>1. <<>> \in Seq(Artifacts) OBVIOUS
<1> QED BY <1>1 DEF NoOperation, Operations

LEMMA Spends == ASSUME ServiceTypes, Trouble PROVE spent' \in [operations : Nat, trouble : Nat]
BY DEF ServiceTypes, Trouble

\* An operation that ends without a promise leaves everything else as it is.
LEMMA EndsUnpromised ==
  ASSUME ServiceInv, op' = NoOperation, promised' = "nothing" \/ (promised' = promised /\ op.at # "idle"),
         UNCHANGED <<files, registration, daemon>>, beat' = beat \/ promised = "nothing",
         beat' \in {"none", "old", "starting", "watching", "paused", "degraded", "stopped", "disabled"},
         spent' \in [operations : Nat, trouble : Nat]
  PROVE  ServiceInv'
<1>1. promised' = "nothing" BY DEF ServiceInv, PromiseIsSound, ServiceTypes
<1>2. ServiceTypes' BY <1>1, IdleIsSound DEF ServiceInv, ServiceTypes
<1>3. LabelsAreSound' BY IdleIsSound DEF ServiceInv, LabelsAreSound
<1>4. OperationIsSound' BY IdleIsSound DEF OperationIsSound, Launching, Undoing, Disabling
<1>5. RunnersAreOwned' BY DEF ServiceInv, RunnersAreOwned
<1> QED BY <1>1, <1>2, <1>3, <1>4, <1>5 DEF ServiceInv, PromiseIsSound

\* An operation that goes on without touching anything.
LEMMA GoesAlong ==
  ASSUME ServiceInv, op' \in Operations, op'.at # "idle", promised' = "nothing",
         UNCHANGED <<files, registration, daemon>>,
         beat' \in {"none", "old", "starting", "watching", "paused", "degraded", "stopped", "disabled"},
         spent' \in [operations : Nat, trouble : Nat],
         op'.at \in {"plist", "receipt", "marker", "bootstrap", "removing"} => registration = "absent",
         OperationIsSound'
  PROVE  ServiceInv'
<1>1. ServiceTypes' BY DEF ServiceInv, ServiceTypes
<1>2. LabelsAreSound' BY DEF ServiceInv, LabelsAreSound
<1>3. RunnersAreOwned' BY DEF ServiceInv, RunnersAreOwned
<1> QED BY <1>1, <1>2, <1>3 DEF ServiceInv, PromiseIsSound

\* While an operation is under way nothing is promised.
LEMMA BusyUnpromised == ASSUME ServiceInv, op.at # "idle" PROVE promised = "nothing"
BY DEF ServiceInv, PromiseIsSound, ServiceTypes

LEMMA EnableSteps ==
  ASSUME ServiceInv, BeginEnable \/ LookUp \/ WriteFails \/ EnableSucceeds \/ EnableTimesOut
  PROVE  ServiceInv'
<1>0. ServiceTypes /\ LabelsAreSound /\ OperationIsSound BY DEF ServiceInv
<1>1. CASE BeginEnable
  <2>0. /\ spent' \in [operations : Nat, trouble : Nat] /\ UNCHANGED <<files, registration, daemon, beat>>
        /\ op.at = "idle"
    BY <1>0, <1>1 DEF BeginEnable, ServiceTypes
  <2>1. CASE Leftovers \/ (files.receipt # 0 /\ ~Valid)
    <3>1. Answer("nothing") BY <1>1, <2>1 DEF BeginEnable
    <3> QED BY <1>0, <2>0, <3>1, EndsUnpromised DEF Answer, ServiceTypes
  <2>2. CASE ~(Leftovers \/ (files.receipt # 0 /\ ~Valid))
    <3>1. op' = [NoOperation EXCEPT !.at = "looking", !.gen = files.receipt] /\ promised' = "nothing"
      BY <1>1, <2>2 DEF BeginEnable
    <3>2. op' \in Operations /\ op'.at = "looking" /\ op'.gen = files.receipt
      BY <1>0, <3>1, IdleIsSound DEF NoOperation, Operations, ServiceTypes, ArtifactFiles
    <3>3. spent'.operations # 0 BY <1>0, <1>1 DEF BeginEnable, ServiceTypes
    <3>4. OperationIsSound'
      BY <2>0, <2>2, <3>2, <3>3 DEF OperationIsSound, Launching, Undoing, Disabling, Valid, Leftovers
    <3> QED BY <1>0, <2>0, <3>1, <3>2, <3>4, GoesAlong DEF ServiceTypes
  <2> QED BY <2>1, <2>2
<1>2. CASE LookUp
  <2>0. /\ UNCHANGED <<files, registration, daemon>> /\ op.at = "looking" /\ promised = "nothing"
        /\ op.gen = files.receipt /\ (files.receipt # 0 => Valid) /\ (files.receipt = 0 => ~Leftovers)
    BY <1>0, <1>2, BusyUnpromised DEF LookUp, OperationIsSound
  <2>1. CASE Answer("nothing") /\ UNCHANGED beat /\ (Trouble \/ UNCHANGED spent)
    BY <1>0, <2>0, <2>1, Spends, EndsUnpromised DEF Answer, ServiceTypes
  <2>2. CASE op.gen # 0 /\ Proceeds("joining") /\ UNCHANGED <<promised, spent, beat>>
    <3>1. op' \in Operations /\ op'.at = "joining" /\ op'.gen = op.gen BY <1>0, <2>2, OpProceeds DEF OpSteps
    <3>2. OperationIsSound'
      BY <2>0, <2>2, <3>1 DEF OperationIsSound, Launching, Undoing, Disabling, Valid, Leftovers
    <3> QED BY <1>0, <2>0, <2>2, <3>1, <3>2, GoesAlong DEF ServiceTypes
  <2>3. CASE /\ registration = "absent" /\ UNCHANGED <<spent, promised>>
             /\ beat' = IF beat = "none" THEN beat ELSE "old"
             /\ op' = [op EXCEPT !.at = IF op.gen = 0 THEN "plist" ELSE "receipt", !.gen = spent.operations]
    <3>1. /\ op' \in Operations /\ op'.at = (IF op.gen = 0 THEN "plist" ELSE "receipt")
          /\ op'.gen = spent.operations
      BY <1>0, <2>3 DEF ServiceTypes, Operations, Launching
    <3>2. spent.operations # 0 BY <1>0, <2>0 DEF OperationIsSound
    <3>3. OperationIsSound'
      BY <2>0, <3>1, <3>2 DEF OperationIsSound, Launching, Undoing, Disabling, Valid, Leftovers
    <3> QED BY <1>0, <2>0, <2>3, <3>1, <3>3, GoesAlong DEF ServiceTypes
  <2> QED BY <1>2, <2>1, <2>2, <2>3 DEF LookUp
<1>3. CASE WriteFails
  <2>1. op' \in Operations /\ op'.at = "bootout" /\ op'.gen = op.gen /\ op.at \in {"plist", "receipt", "marker"}
    BY <1>0, <1>3, OpProceeds DEF WriteFails, OpSteps, Undoing
  <2>2. op.gen # 0 /\ promised = "nothing" BY <1>0, <2>1, BusyUnpromised DEF OperationIsSound, Launching
  <2>3. OperationIsSound' BY <2>1, <2>2 DEF OperationIsSound, Launching, Undoing, Disabling
  <2> QED BY <1>0, <1>3, <2>1, <2>2, <2>3, Spends, GoesAlong DEF WriteFails, ServiceTypes
<1>4. CASE EnableSucceeds
  <2>0. /\ UNCHANGED <<files, registration, daemon, beat, spent>> /\ op.at \in {"waiting", "joining"}
        /\ Acknowledged /\ op' = NoOperation
        /\ promised' = IF registration = "loaded" THEN "on" ELSE "nothing"
    BY <1>4 DEF EnableSucceeds, Answer
  <2>1. files.plist /\ files.receipt = op.gen /\ op.gen # 0
    BY <1>0, <2>0 DEF OperationIsSound, Launching, Valid
  <2>2. Valid' /\ files.marker.ack = files.receipt /\ files.marker.gen = files.receipt
    BY <2>0, <2>1 DEF Acknowledged, Valid
  <2>3. ServiceTypes' BY <1>0, <2>0, IdleIsSound DEF ServiceTypes
  <2>4. LabelsAreSound' /\ OperationIsSound'
    BY <1>0, <2>0, IdleIsSound DEF LabelsAreSound, OperationIsSound, Launching, Undoing, Disabling
  <2>5. RunnersAreOwned' BY <2>0 DEF ServiceInv, RunnersAreOwned
  <2>6. PromiseIsSound' BY <2>0, <2>2, IdleIsSound DEF PromiseIsSound, Acknowledged
  <2> QED BY <2>3, <2>4, <2>5, <2>6 DEF ServiceInv
<1>5. CASE EnableTimesOut
  <2>1. CASE op.at = "waiting" /\ Proceeds("bootout") /\ UNCHANGED promised
    <3>1. op' \in Operations /\ op'.at = "bootout" /\ op'.gen = op.gen BY <1>0, <2>1, OpProceeds DEF OpSteps, Undoing
    <3>2. op.gen # 0 /\ promised = "nothing" BY <1>0, <2>1, BusyUnpromised DEF OperationIsSound, Launching
    <3>3. OperationIsSound' BY <3>1, <3>2 DEF OperationIsSound, Launching, Undoing, Disabling
    <3> QED BY <1>0, <1>5, <2>1, <3>1, <3>2, <3>3, GoesAlong DEF EnableTimesOut, ServiceTypes
  <2>2. CASE Answer("nothing")
    BY <1>0, <1>5, <2>2, EndsUnpromised DEF EnableTimesOut, Answer, ServiceTypes
  <2> QED BY <1>5, <2>1, <2>2 DEF EnableTimesOut
<1> QED BY <1>1, <1>2, <1>3, <1>4, <1>5

\* The artifacts change while nothing is registered and nothing runs.
LEMMA FilesChange ==
  ASSUME ServiceInv, registration = "absent", UNCHANGED <<registration, daemon, beat, promised>>,
         promised = "nothing", files' \in ArtifactFiles, op' \in Operations,
         spent' \in [operations : Nat, trouble : Nat], OperationIsSound'
  PROVE  ServiceInv'
<1>1. daemon.at = "none" BY DEF ServiceInv, LabelsAreSound
<1>2. ServiceTypes' BY DEF ServiceInv, ServiceTypes
<1>3. LabelsAreSound' /\ RunnersAreOwned' BY <1>1 DEF LabelsAreSound, RunnersAreOwned, Alive
<1> QED BY <1>2, <1>3 DEF ServiceInv, PromiseIsSound

LEMMA WroteArtifact ==
  ASSUME ServiceTypes, NEW made \in Seq(Artifacts), NEW next \in OpSteps, Wrote(made, next)
  PROVE  op' \in Operations /\ op'.at = next /\ op'.gen = op.gen
<1>1. made \o op.made \in Seq(Artifacts) BY ConcatProperties DEF ServiceTypes, Operations
<1> QED BY <1>1 DEF Wrote, ServiceTypes, Operations, OpSteps

LEMMA WritesKeep == ASSUME ServiceInv, WriteArtifact PROVE ServiceInv'
<1>0. ServiceTypes /\ LabelsAreSound /\ OperationIsSound BY DEF ServiceInv
<1>1. op.at \in {"plist", "receipt", "marker"} /\ UNCHANGED <<registration, daemon, beat, promised, spent>>
  BY DEF WriteArtifact
<1>2. registration = "absent" /\ promised = "nothing" /\ op.gen # 0 /\ op.gen \in Nat
  BY <1>0, <1>1, BusyUnpromised DEF LabelsAreSound, OperationIsSound, Launching, ServiceTypes, Operations
<1>3. /\ <<>> \in Seq(Artifacts) /\ <<"plist">> \in Seq(Artifacts) /\ <<"receipt">> \in Seq(Artifacts)
      /\ <<"marker">> \in Seq(Artifacts)
  BY DEF Artifacts
<1>4. CASE op.at = "plist"
  <2>1. files' = [files EXCEPT !.plist = TRUE] /\ Wrote(<<"plist">>, "receipt") BY <1>4 DEF WriteArtifact
  <2>2. op' \in Operations /\ op'.at = "receipt" /\ op'.gen = op.gen
    BY <1>0, <1>3, <2>1, WroteArtifact DEF OpSteps, Launching
  <2>3. files' \in ArtifactFiles /\ files'.plist BY <1>0, <2>1 DEF ServiceTypes, ArtifactFiles
  <2>4. OperationIsSound' BY <1>2, <2>2, <2>3 DEF OperationIsSound, Launching, Undoing, Disabling
  <2> QED BY <1>0, <1>1, <1>2, <2>2, <2>3, <2>4, FilesChange DEF ServiceTypes
<1>5. CASE op.at = "receipt"
  <2>1. /\ files' = [files EXCEPT !.receipt = op.gen]
        /\ Wrote(IF files.receipt = 0 THEN <<"receipt">> ELSE <<>>, "marker")
    BY <1>5 DEF WriteArtifact
  <2>2. op' \in Operations /\ op'.at = "marker" /\ op'.gen = op.gen
    BY <1>0, <1>3, <2>1, WroteArtifact DEF OpSteps, Launching
  <2>3. files' \in ArtifactFiles /\ files'.plist /\ files'.receipt = op.gen
    BY <1>0, <1>2, <1>5, <2>1 DEF ServiceTypes, ArtifactFiles, OperationIsSound, Launching
  <2>4. OperationIsSound' BY <1>2, <2>2, <2>3 DEF OperationIsSound, Launching, Undoing, Disabling
  <2> QED BY <1>0, <1>1, <1>2, <2>2, <2>3, <2>4, FilesChange DEF ServiceTypes
<1>6. CASE op.at = "marker"
  <2>1. /\ files' = [files EXCEPT !.marker = [gen |-> op.gen, ack |-> 0]]
        /\ Wrote(IF files.marker = None THEN <<"marker">> ELSE <<>>, "bootstrap")
    BY <1>6 DEF WriteArtifact
  <2>2. op' \in Operations /\ op'.at = "bootstrap" /\ op'.gen = op.gen
    BY <1>0, <1>3, <2>1, WroteArtifact DEF OpSteps, Launching
  <2>3. files' \in ArtifactFiles /\ files'.plist /\ files'.receipt = op.gen /\ files'.marker.gen = op.gen
    BY <1>0, <1>2, <1>6, <2>1 DEF ServiceTypes, ArtifactFiles, OperationIsSound, Launching
  <2>4. OperationIsSound' BY <1>2, <2>2, <2>3 DEF OperationIsSound, Launching, Undoing, Disabling
  <2> QED BY <1>0, <1>1, <1>2, <2>2, <2>3, <2>4, FilesChange DEF ServiceTypes
<1> QED BY <1>1, <1>4, <1>5, <1>6

LEMMA BootstrapKeeps == ASSUME ServiceInv, Bootstrap PROVE ServiceInv'
<1>0. ServiceTypes /\ LabelsAreSound /\ OperationIsSound /\ RunnersAreOwned BY DEF ServiceInv
<1>1. op.at = "bootstrap" /\ UNCHANGED <<files, beat, promised>> BY DEF Bootstrap
<1>2. /\ registration = "absent" /\ promised = "nothing" /\ op.gen # 0 /\ files.plist /\ files.receipt = op.gen
      /\ files.marker.gen = op.gen /\ daemon.at = "none"
  BY <1>0, <1>1, BusyUnpromised DEF LabelsAreSound, OperationIsSound, Launching
<1>3. spent' \in [operations : Nat, trouble : Nat] BY <1>0, Spends DEF Bootstrap, ServiceTypes
<1>4. op' \in Operations /\ op'.at \in {"waiting", "bootout"} /\ op'.gen = op.gen
  <2>1. "waiting" \in OpSteps /\ "bootout" \in OpSteps BY DEF OpSteps, Launching, Undoing
  <2> QED BY <1>0, <2>1, OpProceeds DEF Bootstrap
<1>5. OperationIsSound' BY <1>1, <1>2, <1>4 DEF OperationIsSound, Launching, Undoing, Disabling
<1>6. \/ registration' = "loaded" /\ daemon' = [NoWorker EXCEPT !.at = "starting"]
      \/ UNCHANGED <<registration, daemon>>
  BY DEF Bootstrap
<1>7. daemon' \in Daemons /\ daemon'.at \in {"starting", "none"} /\ registration' \in {"absent", "loaded"}
      /\ (registration' = "absent" => daemon'.at = "none")
  BY <1>0, <1>2, <1>6 DEF NoWorker, Daemons, ServiceTypes
<1>8. ServiceTypes' BY <1>0, <1>1, <1>3, <1>4, <1>7 DEF ServiceTypes
<1>9. LabelsAreSound' /\ RunnersAreOwned' BY <1>1, <1>2, <1>4, <1>7 DEF LabelsAreSound, RunnersAreOwned, Alive
<1> QED BY <1>1, <1>2, <1>5, <1>8, <1>9 DEF ServiceInv, PromiseIsSound

LEMMA DisableSteps ==
  ASSUME ServiceInv, BeginDisable \/ AskBeforeStop \/ VerifyStopped \/ NotStopped \/ OperatorDies
  PROVE  ServiceInv'
<1>0. ServiceTypes /\ LabelsAreSound /\ OperationIsSound /\ RunnersAreOwned BY DEF ServiceInv
<1>1. CASE BeginDisable
  <2>0. /\ spent' \in [operations : Nat, trouble : Nat] /\ UNCHANGED <<files, registration, daemon, beat>>
        /\ op.at = "idle" /\ op = NoOperation
    BY <1>0, <1>1 DEF BeginDisable, ServiceTypes, OperationIsSound
  <2>1. CASE Answer("nothing")
    BY <1>0, <2>0, <2>1, EndsUnpromised DEF Answer, ServiceTypes
  <2>2. CASE files.receipt = 0 /\ ~Leftovers /\ Answer("off")
    <3>1. ~files.plist /\ registration = "absent" BY <1>0, <2>2 DEF Leftovers, LabelsAreSound, ServiceTypes
    <3>2. op' = NoOperation /\ promised' = "off" BY <2>2 DEF Answer
    <3>3. ServiceTypes' BY <1>0, <2>0, <3>2, IdleIsSound DEF ServiceTypes
    <3>4. LabelsAreSound' /\ OperationIsSound'
      BY <1>0, <2>0, <3>2, IdleIsSound DEF LabelsAreSound, OperationIsSound, Launching, Undoing, Disabling
    <3>5. RunnersAreOwned' BY <1>0, <2>0 DEF RunnersAreOwned
    <3> QED BY <2>0, <2>2, <3>1, <3>2, <3>3, <3>4, <3>5, IdleIsSound DEF ServiceInv, PromiseIsSound
  <2>3. CASE Proceeds("asking") /\ promised' = "nothing"
    <3>1. op' \in Operations /\ op'.at = "asking" /\ op'.gen = 0
      BY <1>0, <2>0, <2>3, OpProceeds DEF OpSteps, Disabling, NoOperation
    <3>2. OperationIsSound' BY <3>1 DEF OperationIsSound, Launching, Undoing, Disabling
    <3> QED BY <1>0, <2>0, <2>3, <3>1, <3>2, GoesAlong DEF ServiceTypes
  <2>4. \/ Answer("nothing")
        \/ files.receipt = 0 /\ ~Leftovers /\ Answer("off")
        \/ Proceeds("asking") /\ promised' = "nothing"
    <3>1. CASE Leftovers BY <1>1, <3>1 DEF BeginDisable
    <3>2. CASE files.receipt = 0 /\ ~Leftovers BY <1>1, <3>2 DEF BeginDisable
    <3>3. CASE files.receipt # 0 /\ ~Valid BY <1>1, <3>3 DEF BeginDisable, Leftovers
    <3>4. CASE files.receipt # 0 /\ Valid BY <1>1, <3>4 DEF BeginDisable, Leftovers
    <3> QED BY <3>1, <3>2, <3>3, <3>4
  <2> QED BY <2>1, <2>2, <2>3, <2>4
<1>2. CASE AskBeforeStop
  <2>1. "verifying" \in OpSteps /\ "stopping" \in OpSteps BY DEF OpSteps, Disabling
  <2>2. /\ op' \in Operations /\ op'.at \in {"verifying", "stopping"} /\ op'.gen = op.gen
        /\ op.at = "asking" /\ UNCHANGED <<files, registration, daemon, beat, promised>>
    BY <1>0, <1>2, <2>1, OpProceeds DEF AskBeforeStop
  <2>3. op.gen = 0 /\ promised = "nothing" BY <1>0, <2>2, BusyUnpromised DEF OperationIsSound, Disabling
  <2>4. spent' \in [operations : Nat, trouble : Nat] BY <1>0, <1>2, Spends DEF AskBeforeStop, ServiceTypes
  <2>5. OperationIsSound' BY <2>2, <2>3 DEF OperationIsSound, Launching, Undoing, Disabling
  <2> QED BY <1>0, <2>2, <2>3, <2>4, <2>5, GoesAlong DEF ServiceTypes
<1>3. CASE VerifyStopped
  <2>0. registration = "absent" /\ UNCHANGED <<files, registration, daemon, beat, promised, spent>>
    BY <1>3 DEF VerifyStopped, Unregistered
  <2>1. CASE op.at = "undoing" /\ Proceeds("removing")
    <3>1. op' \in Operations /\ op'.at = "removing" /\ op'.gen = op.gen BY <1>0, <2>1, OpProceeds DEF OpSteps
    <3>2. op.gen # 0 /\ promised = "nothing" BY <1>0, <2>1, BusyUnpromised DEF OperationIsSound, Undoing
    <3>3. OperationIsSound' BY <3>1, <3>2 DEF OperationIsSound, Launching, Undoing, Disabling
    <3> QED BY <1>0, <2>0, <3>1, <3>2, <3>3, GoesAlong DEF ServiceTypes
  <2>2. CASE op.at = "verifying" /\ op' = [op EXCEPT !.at = "removing", !.made = <<"marker", "plist", "receipt">>]
    <3>1. <<"marker", "plist", "receipt">> \in Seq(Artifacts) BY DEF Artifacts
    <3>2. /\ op' \in Operations /\ op'.at = "removing" /\ op'.gen = op.gen
          /\ op'.made = <<"marker", "plist", "receipt">>
      BY <1>0, <2>2, <3>1 DEF ServiceTypes, Operations
    <3>3. op.gen = 0 /\ promised = "nothing" BY <1>0, <2>2, BusyUnpromised DEF OperationIsSound, Disabling
    <3>4. Removing(<<"marker", "plist", "receipt">>)' BY DEF Removing
    <3>5. OperationIsSound' BY <3>2, <3>3, <3>4 DEF OperationIsSound, Launching, Undoing, Disabling
    <3> QED BY <1>0, <2>0, <3>2, <3>3, <3>5, GoesAlong DEF ServiceTypes
  <2> QED BY <1>3, <2>1, <2>2 DEF VerifyStopped
<1>4. CASE NotStopped
  BY <1>0, <1>4, EndsUnpromised DEF NotStopped, Answer, ServiceTypes
<1>5. CASE OperatorDies
  <2>1. promised = "nothing" BY <1>5, BusyUnpromised DEF OperatorDies
  <2> QED BY <1>0, <1>5, <2>1, Spends, EndsUnpromised DEF OperatorDies, ServiceTypes
<1> QED BY <1>1, <1>2, <1>3, <1>4, <1>5

LEMMA BootoutKeeps == ASSUME ServiceInv, Bootout PROVE ServiceInv'
<1>0. ServiceTypes /\ LabelsAreSound /\ OperationIsSound /\ RunnersAreOwned BY DEF ServiceInv
<1>1. UNCHANGED <<files, daemon, beat>> /\ op.at \in {"bootout", "stopping"} /\ promised = "nothing"
  BY BusyUnpromised DEF Bootout
<1>2. CASE Answer("nothing") /\ UNCHANGED registration
  <2>1. spent' \in [operations : Nat, trouble : Nat] BY <1>0, Spends DEF Bootout, ServiceTypes
  <2> QED BY <1>0, <1>1, <1>2, <2>1, EndsUnpromised DEF Answer, ServiceTypes
<1>3. CASE /\ Proceeds(IF op.at = "bootout" THEN "undoing" ELSE "verifying")
           /\ registration' = (IF registration = "absent" THEN "absent" ELSE "leaving")
           /\ UNCHANGED <<spent, promised>>
  <2>1. /\ op' \in Operations /\ op'.at = (IF op.at = "bootout" THEN "undoing" ELSE "verifying")
        /\ op'.gen = op.gen
    BY <1>0, <1>3, OpProceeds DEF OpSteps, Undoing, Disabling
  <2>2. OperationIsSound' BY <1>0, <1>1, <2>1 DEF OperationIsSound, Launching, Undoing, Disabling
  <2>3. /\ registration' \in {"absent", "leaving"} /\ (registration' = "absent" <=> registration = "absent")
    BY <1>3
  <2>4. LabelsAreSound' BY <1>0, <1>1, <2>1, <2>3 DEF LabelsAreSound
  <2>5. ServiceTypes' /\ RunnersAreOwned' BY <1>0, <1>1, <1>3, <2>1, <2>3 DEF ServiceTypes, RunnersAreOwned
  <2> QED BY <1>1, <1>3, <2>2, <2>4, <2>5 DEF ServiceInv, PromiseIsSound
<1> QED BY <1>2, <1>3 DEF Bootout

LEMMA RemovalKeeps == ASSUME ServiceInv, RemoveArtifact PROVE ServiceInv'
<1>0. ServiceTypes /\ LabelsAreSound /\ OperationIsSound BY DEF ServiceInv
<1>1. /\ op.at = "removing" /\ op.made # <<>> /\ registration = "absent" /\ promised = "nothing"
      /\ UNCHANGED <<registration, daemon, beat>>
  BY <1>0, BusyUnpromised DEF RemoveArtifact, LabelsAreSound
<1>2. CASE Trouble /\ Answer("nothing") /\ UNCHANGED files
  BY <1>0, <1>1, <1>2, Spends, EndsUnpromised DEF Answer, ServiceTypes
<1>3. CASE files' = Without(Head(op.made)) /\ op' = [op EXCEPT !.made = Tail(@)] /\ UNCHANGED <<promised, spent>>
  <2>1. op.made \in Seq(Artifacts) /\ Head(op.made) \in Artifacts /\ Tail(op.made) \in Seq(Artifacts)
    BY <1>0, <1>1 DEF ServiceTypes, Operations
  <2>2. op' \in Operations /\ op'.at = "removing" /\ op'.gen = op.gen /\ op'.made = Tail(op.made)
    BY <1>0, <1>1, <1>3, <2>1 DEF ServiceTypes, Operations
  <2>3. /\ Head(op.made) = "plist" => files' = [files EXCEPT !.plist = FALSE]
        /\ Head(op.made) = "receipt" => files' = [files EXCEPT !.receipt = 0]
        /\ Head(op.made) = "marker" => files' = [files EXCEPT !.marker = None]
    BY <1>3 DEF Without
  <2>4. files' \in ArtifactFiles
    <3>1. Head(op.made) \in {"plist", "receipt", "marker"} BY <2>1 DEF Artifacts
    <3>2. None \in [gen : Nat, ack : Nat] BY DEF None
    <3>3. /\ [files EXCEPT !.plist = FALSE] \in ArtifactFiles /\ [files EXCEPT !.receipt = 0] \in ArtifactFiles
          /\ [files EXCEPT !.marker = None] \in ArtifactFiles
      BY <1>0, <3>2 DEF ServiceTypes, ArtifactFiles
    <3> QED BY <2>3, <3>1, <3>3
  <2>5. ASSUME op.gen = 0 PROVE Removing(op.made)'
    <3>0. Removing(op.made) BY <1>0, <1>1, <2>5 DEF OperationIsSound
    <3>1. CASE op.made = <<"marker", "plist", "receipt">>
      <4>1. Head(op.made) = "marker" /\ Tail(op.made) = <<"plist", "receipt">> BY <3>1
      <4>2. files'.marker = None BY <1>0, <2>3, <4>1 DEF ServiceTypes, ArtifactFiles
      <4>3. <<"plist", "receipt">> \notin {<<"receipt">>, <<>>} OBVIOUS
      <4> QED BY <2>2, <4>1, <4>2, <4>3 DEF Removing
    <3>2. CASE op.made = <<"plist", "receipt">>
      <4>1. Head(op.made) = "plist" /\ Tail(op.made) = <<"receipt">> BY <3>2
      <4>2. <<"plist", "receipt">> # <<"marker", "plist", "receipt">> /\ <<"receipt">> # <<>> OBVIOUS
      <4>3. files'.marker = None /\ ~files'.plist
        BY <1>0, <2>3, <3>0, <3>2, <4>1, <4>2 DEF ServiceTypes, ArtifactFiles, Removing
      <4> QED BY <2>2, <4>1, <4>2, <4>3 DEF Removing
    <3>3. CASE op.made = <<"receipt">>
      <4>1. Head(op.made) = "receipt" /\ Tail(op.made) = <<>> BY <3>3
      <4>2. <<"receipt">> # <<"marker", "plist", "receipt">> OBVIOUS
      <4>3. files'.marker = None /\ ~files'.plist /\ files'.receipt = 0
        BY <1>0, <2>3, <3>0, <3>3, <4>1, <4>2 DEF ServiceTypes, ArtifactFiles, Removing
      <4> QED BY <2>2, <4>1, <4>3 DEF Removing
    <3> QED BY <1>1, <3>0, <3>1, <3>2, <3>3 DEF Removing
  <2>6. OperationIsSound' BY <2>2, <2>5 DEF OperationIsSound, Launching, Undoing, Disabling
  <2> QED BY <1>0, <1>1, <1>3, <2>2, <2>4, <2>6, FilesChange DEF ServiceTypes
<1> QED BY <1>2, <1>3 DEF RemoveArtifact

LEMMA RemovedKeeps == ASSUME ServiceInv, Removed PROVE ServiceInv'
<1>0. ServiceTypes /\ LabelsAreSound /\ OperationIsSound /\ RunnersAreOwned BY DEF ServiceInv
<1>1. /\ op.at = "removing" /\ op.made = <<>> /\ registration = "absent" /\ promised = "nothing"
      /\ UNCHANGED <<files, registration, daemon>>
  BY <1>0, BusyUnpromised DEF Removed, LabelsAreSound
<1>2. CASE Answer("nothing") /\ UNCHANGED beat
  <2>1. spent' \in [operations : Nat, trouble : Nat] BY <1>0, Spends DEF Removed, ServiceTypes
  <2> QED BY <1>0, <1>1, <1>2, <2>1, EndsUnpromised DEF Answer, ServiceTypes
<1>3. CASE op.gen = 0 /\ Answer("off") /\ beat' = "disabled" /\ UNCHANGED spent
  <2>1. ~files.plist /\ files.receipt = 0 BY <1>0, <1>1, <1>3 DEF OperationIsSound, Removing
  <2>2. op' = NoOperation /\ promised' = "off" BY <1>3 DEF Answer
  <2>3. ServiceTypes' BY <1>0, <1>1, <1>3, <2>2, IdleIsSound DEF ServiceTypes
  <2>4. LabelsAreSound' /\ OperationIsSound'
    BY <1>0, <1>1, <2>2, IdleIsSound DEF LabelsAreSound, OperationIsSound, Launching, Undoing, Disabling
  <2>5. RunnersAreOwned' BY <1>0, <1>1 DEF RunnersAreOwned
  <2> QED BY <1>1, <2>1, <2>2, <2>3, <2>4, <2>5, IdleIsSound DEF ServiceInv, PromiseIsSound
<1> QED BY <1>2, <1>3 DEF Removed

\* What the runner does to the invariant when it leaves the artifacts alone.
LEMMA RunnerLeaves ==
  ASSUME ServiceInv, UNCHANGED <<files, registration, op, promised, spent>>, registration # "absent" \/ daemon'.at = "none",
         daemon' \in Daemons, daemon'.at \in Alive => daemon'.gen # 0, RunnersAreOwned',
         beat' \in {"none", "old", "starting", "watching", "paused", "degraded", "stopped", "disabled"},
         promised = "on" => beat' \in {"starting", "watching", "paused", "degraded", "stopped"}
  PROVE  ServiceInv'
<1>1. ServiceTypes' BY DEF ServiceInv, ServiceTypes
<1>2. LabelsAreSound' BY DEF ServiceInv, LabelsAreSound
<1>3. OperationIsSound' BY DEF ServiceInv, OperationIsSound, Valid, Leftovers, Removing
<1>4. PromiseIsSound' BY DEF ServiceInv, PromiseIsSound, Valid
<1> QED BY <1>1, <1>2, <1>3, <1>4 DEF ServiceInv

LEMMA DaemonSteps ==
  ASSUME ServiceInv, Relaunch \/ CheckReceipt \/ ReadMarker \/ Heartbeat \/ WorkerEnds
  PROVE  ServiceInv'
<1>0. /\ ServiceTypes /\ LabelsAreSound /\ RunnersAreOwned /\ NoWorker \in Daemons /\ NoWorker.at = "none"
      /\ promised = "on" => beat \in {"starting", "watching", "paused", "degraded", "stopped"}
  BY DEF ServiceInv, NoWorker, Daemons, PromiseIsSound
<1>1. CASE Relaunch
  <2>1. daemon' \in Daemons /\ daemon'.at = "starting" BY <1>1 DEF Relaunch, NoWorker, Daemons
  <2>2. RunnersAreOwned' BY <2>1 DEF RunnersAreOwned
  <2> QED BY <1>0, <1>1, <2>1, <2>2, RunnerLeaves DEF Relaunch, Alive, ServiceTypes
<1>2. CASE CheckReceipt
  <2>0. registration # "absent" BY <1>0, <1>2 DEF CheckReceipt, LabelsAreSound
  <2>1. CASE Valid /\ files.marker # None
    <3>1. daemon' = [at |-> "checked", gen |-> files.receipt] /\ beat' = "starting" BY <1>2, <2>1 DEF CheckReceipt
    <3>2. daemon' \in Daemons BY <1>0, <3>1 DEF Daemons, Alive, ServiceTypes, ArtifactFiles
    <3>3. RunnersAreOwned' BY <1>2, <2>1, <3>1 DEF RunnersAreOwned, Valid, CheckReceipt
    <3> QED BY <1>0, <1>2, <2>0, <2>1, <3>1, <3>2, <3>3, RunnerLeaves DEF CheckReceipt, Valid
  <2>2. CASE ~(Valid /\ files.marker # None)
    <3>1. daemon' = NoWorker /\ beat' = "degraded" BY <1>2, <2>2 DEF CheckReceipt
    <3>2. RunnersAreOwned' BY <1>0, <3>1 DEF RunnersAreOwned
    <3> QED BY <1>0, <1>2, <3>1, <3>2, RunnerLeaves DEF CheckReceipt, Alive
  <2> QED BY <2>1, <2>2
<1>3. CASE ReadMarker
  <2>0. registration # "absent" BY <1>0, <1>3 DEF ReadMarker, LabelsAreSound
  <2>1. CASE files.marker.gen = daemon.gen
    <3>1. daemon' = [daemon EXCEPT !.at = "acknowledging"] /\ UNCHANGED beat /\ daemon.at = "checked"
      BY <1>3, <2>1 DEF ReadMarker
    <3>2. daemon' \in Daemons /\ daemon'.at = "acknowledging" /\ daemon'.gen = daemon.gen
      BY <1>0, <3>1 DEF Daemons, Alive, ServiceTypes
    <3>3. RunnersAreOwned' BY <1>0, <1>3, <3>1, <3>2 DEF RunnersAreOwned, ReadMarker
    <3>4. daemon'.gen # 0 BY <1>0, <3>1, <3>2 DEF LabelsAreSound, Alive
    <3> QED BY <1>0, <1>3, <2>0, <3>1, <3>2, <3>3, <3>4, RunnerLeaves DEF ReadMarker, ServiceTypes
  <2>2. CASE files.marker.gen # daemon.gen
    <3>1. daemon' = NoWorker /\ beat' = "degraded" BY <1>3, <2>2 DEF ReadMarker
    <3>2. RunnersAreOwned' BY <1>0, <3>1 DEF RunnersAreOwned
    <3> QED BY <1>0, <1>3, <3>1, <3>2, RunnerLeaves DEF ReadMarker, Alive
  <2> QED BY <2>1, <2>2
<1>4. CASE Heartbeat
  <2>1. registration # "absent" BY <1>0, <1>4 DEF Heartbeat, LabelsAreSound
  <2>2. RunnersAreOwned' BY <1>0, <1>4 DEF RunnersAreOwned, Heartbeat
  <2> QED BY <1>0, <1>4, <2>1, <2>2, RunnerLeaves DEF Heartbeat, ServiceTypes, LabelsAreSound
<1>5. CASE WorkerEnds
  <2>1. RunnersAreOwned' BY <1>0, <1>5 DEF RunnersAreOwned, WorkerEnds
  <2> QED BY <1>0, <1>5, <2>1, RunnerLeaves DEF WorkerEnds, ServiceTypes, Alive
<1> QED BY <1>1, <1>2, <1>3, <1>4, <1>5

LEMMA AcknowledgeKeeps == ASSUME ServiceInv, AcknowledgeLaunch PROVE ServiceInv'
<1>0. ServiceTypes /\ LabelsAreSound /\ RunnersAreOwned /\ OperationIsSound /\ PromiseIsSound BY DEF ServiceInv
<1>1. /\ files.plist /\ files.receipt = daemon.gen /\ files.marker.gen = daemon.gen /\ daemon.gen # 0
      /\ registration # "absent" /\ daemon.gen \in Nat
  BY <1>0 DEF AcknowledgeLaunch, RunnersAreOwned, LabelsAreSound, Alive, ServiceTypes, Daemons
<1>2. files.marker # None BY <1>1 DEF None
<1>3. /\ files' = [files EXCEPT !.marker = [gen |-> daemon.gen, ack |-> daemon.gen]]
      /\ daemon' = [daemon EXCEPT !.at = "up"] /\ UNCHANGED <<beat, registration, op, promised, spent>>
  BY <1>2 DEF AcknowledgeLaunch
<1>4. /\ files' \in ArtifactFiles /\ files'.plist /\ files'.receipt = files.receipt
      /\ files'.marker.gen = daemon.gen /\ files'.marker.ack = daemon.gen
      /\ daemon' \in Daemons /\ daemon'.at = "up" /\ daemon'.gen = daemon.gen
  BY <1>0, <1>1, <1>3 DEF ServiceTypes, ArtifactFiles, Daemons, Alive
<1>5. Valid /\ Valid' BY <1>1, <1>4 DEF Valid
<1>6. ServiceTypes' /\ LabelsAreSound' /\ RunnersAreOwned'
  BY <1>0, <1>1, <1>3, <1>4 DEF ServiceTypes, LabelsAreSound, RunnersAreOwned
<1>7. op.at # "removing" BY <1>0, <1>1 DEF LabelsAreSound
<1>8. OperationIsSound'
  BY <1>0, <1>1, <1>3, <1>4, <1>5, <1>7 DEF OperationIsSound, Leftovers, Launching, Undoing, Disabling
<1>9. PromiseIsSound' BY <1>0, <1>1, <1>3, <1>4, <1>5 DEF PromiseIsSound
<1> QED BY <1>6, <1>8, <1>9 DEF ServiceInv

LEMMA LoginKeeps == ASSUME ServiceInv, LogInAgain \/ LabelGone \/ UNCHANGED serviceVars PROVE ServiceInv'
<1>0. ServiceTypes /\ LabelsAreSound /\ RunnersAreOwned /\ OperationIsSound /\ PromiseIsSound BY DEF ServiceInv
<1>1. CASE LogInAgain
  <2>1. UNCHANGED <<files, beat, promised>> /\ op' = NoOperation BY <1>1 DEF LogInAgain
  <2>2. spent' \in [operations : Nat, trouble : Nat] BY <1>0, <1>1, Spends DEF LogInAgain
  <2>3. /\ daemon' \in Daemons /\ daemon'.at \in {"starting", "none"}
        /\ registration' = (IF files.plist THEN "loaded" ELSE "absent")
        /\ registration' = "absent" => daemon'.at = "none"
    BY <1>1 DEF LogInAgain, NoWorker, Daemons
  <2>4. ServiceTypes' /\ LabelsAreSound' /\ RunnersAreOwned'
    BY <1>0, <2>1, <2>2, <2>3, IdleIsSound DEF ServiceTypes, LabelsAreSound, RunnersAreOwned, Alive
  <2>5. OperationIsSound' BY <2>1, IdleIsSound DEF OperationIsSound, Launching, Undoing, Disabling
  <2>6. PromiseIsSound' BY <1>0, <2>1, <2>3, IdleIsSound DEF PromiseIsSound, Valid
  <2> QED BY <2>4, <2>5, <2>6 DEF ServiceInv
<1>2. CASE LabelGone
  <2>1. registration = "leaving" /\ registration' = "absent" /\ daemon.at = "none"
        /\ UNCHANGED <<files, daemon, beat, op, promised, spent>>
    BY <1>2 DEF LabelGone
  <2>2. ServiceTypes' /\ LabelsAreSound' /\ RunnersAreOwned'
    BY <1>0, <2>1 DEF ServiceTypes, LabelsAreSound, RunnersAreOwned
  <2>3. OperationIsSound' BY <1>0, <2>1 DEF OperationIsSound, Valid, Leftovers, Removing
  <2>4. PromiseIsSound' BY <1>0, <2>1 DEF PromiseIsSound, Valid
  <2> QED BY <2>2, <2>3, <2>4 DEF ServiceInv
<1>3. CASE UNCHANGED serviceVars
  BY <1>0, <1>3 DEF serviceVars, ServiceInv, ServiceTypes, LabelsAreSound, RunnersAreOwned, OperationIsSound,
                    PromiseIsSound, Valid, Leftovers, Removing
<1> QED BY <1>1, <1>2, <1>3

\* Neither the runner nor the user is told what the files no longer say, for
\* any number of operations, failures, killed operators and logins
\* (enable, disable, status of service.js).
THEOREM ServiceIsAlwaysAsTold == ServiceSpec => []ServiceIsAsTold
<1>1. ServiceInv /\ [ServiceNext]_serviceVars => ServiceInv'
  BY EnableSteps, WritesKeep, BootstrapKeeps, DisableSteps, BootoutKeeps, RemovalKeeps, RemovedKeeps, DaemonSteps,
     AcknowledgeKeeps, LoginKeeps DEF ServiceNext
<1> QED BY <1>1, ServiceStarts, ServiceInvIsTold, PTL DEF ServiceSpec

=============================================================================

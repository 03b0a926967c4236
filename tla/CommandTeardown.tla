--------------------------- MODULE CommandTeardown ---------------------------
(***************************************************************************)
(* runCommand of src/src/background/background-agent-runner.js: one        *)
(* provider process, started as the leader of its own process group, and   *)
(* the teardown that TERMs the group, KILLs it after a grace period and    *)
(* settles the promise only when the group is gone and the pipes are       *)
(* closed, or when the cleanup bound has passed.                           *)
(*                                                                         *)
(* The processes, the signals and the order in which Node delivers its     *)
(* events are the environment.  Time is counted in polls of 25 ms; a timer *)
(* may fire late, by at most MaxLate ticks (a callback of another task can *)
(* hold the event loop).                                                   *)
(***************************************************************************)
EXTENDS Integers

CONSTANTS
    Timeout,     \* timeoutMs
    KillAfter,   \* 2000 ms from SIGTERM to SIGKILL
    GiveUp,      \* 2000 ms from SIGKILL to giving up
    MaxLate,     \* the most ticks a timer fires late
    Horizon      \* where the clock stops, far beyond the last deadline

ASSUME TimesAssumption ==
    /\ Timeout \in Nat \ {0} /\ KillAfter \in Nat \ {0} /\ GiveUp \in Nat \ {0}
    /\ MaxLate \in Nat
    /\ Horizon \in Nat /\ Horizon > Timeout + KillAfter + GiveUp + 2 * MaxLate

VARIABLES
    leader,      \* the spawned process; once it has exited, its exit code
    member,      \* a descendant that stayed in the group is alive
    escaped,     \* a descendant that left the group holds the pipes
    signalled,   \* when the group was sent SIGTERM and SIGKILL, or Never
    events,      \* Node events not delivered yet
    now,
    run,         \* the closure's variables
    result       \* what the promise was resolved with, Unresolved before

env == <<leader, member, escaped, signalled>>
vars == <<leader, member, escaped, signalled, events, now, run, result>>

Never == -1

\* Exit codes; a process ended by a signal has the code null.
Codes == {"zero", "nonzero", "null"}

Signals == [TERM : Nat \cup {Never}, KILL : Nat \cup {Never}]
Closures ==
    [settled : BOOLEAN, timedOut : BOOLEAN, closed : BOOLEAN, code : Codes, teardown : BOOLEAN,
     killed : BOOLEAN, groupStopped : {"unknown", "no", "yes"},
     timeoutAt : Nat \cup {Never}, pollAt : Nat \cup {Never}, killAt : Nat, deadline : Nat]
Results ==
    [code : Codes, timedOut : BOOLEAN, cleanupFailed : BOOLEAN,
     groupStopped : {"unknown", "no", "yes"}, at : Nat]

TypeOK ==
    /\ leader \in {"none", "running"} \cup Codes
    /\ member \in BOOLEAN /\ escaped \in BOOLEAN
    /\ signalled \in Signals
    /\ events \subseteq {"error", "exit", "close"}
    /\ now \in Nat
    /\ run \in Closures
    /\ result \in Results

HasPid == leader # "none"
Exited == leader \in Codes
GroupAlive == leader = "running" \/ member
PipesOpen == GroupAlive \/ escaped
Settled == run.settled

Unresolved == [code |-> "null", timedOut |-> FALSE, cleanupFailed |-> FALSE,
               groupStopped |-> "unknown", at |-> 0]

\* spawn either starts the leader of a new group, or fails and leaves a child
\* without a pid whose "error" Node delivers before any timer.
Init ==
    /\ \/ leader = "none" /\ events = {"error"}
       \/ leader = "running" /\ events = {}
    /\ member = FALSE /\ escaped = FALSE
    /\ signalled = [TERM |-> Never, KILL |-> Never]
    /\ now = 0
    /\ run = [settled |-> FALSE, timedOut |-> FALSE, closed |-> FALSE, code |-> "null", teardown |-> FALSE,
              killed |-> FALSE, groupStopped |-> "unknown",
              timeoutAt |-> Timeout, pollAt |-> Never, killAt |-> 0, deadline |-> 0]
    /\ result = Unresolved

-----------------------------------------------------------------------------
\* The operating system.

\* A process of the group starts a descendant, in the group or out of it.
Fork ==
    /\ GroupAlive
    /\ \/ member' = TRUE /\ UNCHANGED escaped
       \/ escaped' = TRUE /\ UNCHANGED member
    /\ UNCHANGED <<leader, signalled, events, now, run, result>>

\* The leader ends, of itself or of a signal, and Node queues "exit".
LeaderExits ==
    /\ leader = "running"
    /\ leader' \in Codes
    /\ events' = events \cup {"exit"}
    /\ UNCHANGED <<member, escaped, signalled, now, run, result>>

MemberExits ==
    /\ member
    /\ member' = FALSE
    /\ UNCHANGED <<leader, escaped, signalled, events, now, run, result>>

EscapedExits ==
    /\ escaped
    /\ escaped' = FALSE
    /\ UNCHANGED <<leader, member, signalled, events, now, run, result>>

\* Node emits "close" after "exit", once the last holder of the pipes is gone.
PipesClose ==
    /\ Exited /\ ~PipesOpen
    /\ "exit" \notin events /\ "close" \notin events /\ ~run.closed
    /\ events' = events \cup {"close"}
    /\ UNCHANGED <<leader, member, escaped, signalled, now, run, result>>

Due == {t \in {run.timeoutAt, run.pollAt} : t # Never}

Tick ==
    /\ ~Settled /\ "error" \notin events /\ now < Horizon
    /\ \A t \in Due : now < t + MaxLate
    /\ now' = now + 1
    /\ UNCHANGED <<leader, member, escaped, signalled, events, run, result>>

-----------------------------------------------------------------------------
\* The closure of one call.  Each operator takes the closure's variables r and
\* says what they, the signal sent and the result are after it.

\* Changed form of Finish: the exit code is kept whatever happened.
Finish_KeepsCode(r, cleanupFailed) ==
    /\ run' = [r EXCEPT !.settled = TRUE, !.timeoutAt = Never, !.pollAt = Never]
    /\ result' = [code |-> r.code,
                  timedOut |-> r.timedOut, cleanupFailed |-> cleanupFailed,
                  groupStopped |-> r.groupStopped, at |-> now]

\* finish(cleanupFailed): r.code is dropped when the call timed out or the
\* cleanup could not be verified; both timers are cleared.
Finish(r, cleanupFailed) ==
    /\ run' = [r EXCEPT !.settled = TRUE, !.timeoutAt = Never, !.pollAt = Never]
    /\ result' = [code |-> IF r.timedOut \/ cleanupFailed THEN "null" ELSE r.code,
                  timedOut |-> r.timedOut, cleanupFailed |-> cleanupFailed,
                  groupStopped |-> r.groupStopped, at |-> now]

\* groupExists, as checkTeardown records it; null without a pid.
Observed(r) ==
    [r EXCEPT !.groupStopped = IF ~HasPid THEN "unknown" ELSE IF GroupAlive THEN "no" ELSE "yes"]

\* Changed form of GiveUpOrPoll: the next poll is set from the bounds, in the
\* wrong order.
GiveUpOrPoll_Swapped(r) ==
    \/ now >= r.deadline /\ Finish(r, TRUE)
    \/ /\ now < r.deadline
       /\ run' = [r EXCEPT !.pollAt = r.killAt - r.deadline]
       /\ UNCHANGED result

\* The end of checkTeardown: give up at the deadline or poll again.
GiveUpOrPoll(r) ==
    \/ now >= r.deadline /\ Finish(r, TRUE)
    \/ /\ now < r.deadline
       /\ run' = [r EXCEPT !.pollAt = now + 1]
       /\ UNCHANGED result

CheckTeardown_WaitsForPipes(r, sent) ==
    LET o == Observed(r) IN
       \/ ~GroupAlive /\ r.closed /\ Finish(o, FALSE) /\ signalled' = sent
       \/ /\ ~GroupAlive /\ ~r.closed
          /\ run' = [o EXCEPT !.pollAt = now + 1] /\ UNCHANGED result /\ signalled' = sent
       \/ /\ GroupAlive /\ ~r.killed /\ now >= r.killAt
          /\ GiveUpOrPoll([o EXCEPT !.killed = TRUE]) /\ signalled' = [sent EXCEPT !.KILL = now]
       \/ GroupAlive /\ (r.killed \/ now < r.killAt) /\ GiveUpOrPoll(o) /\ signalled' = sent

\* checkTeardown.  sent is the signal the same callback has already sent; kill
\* and the existence test may also fail with an error other than ESRCH.
CheckTeardown(r, sent) ==
    \/ Finish(r, TRUE) /\ signalled' = sent
    \/ LET o == Observed(r) IN
       \/ ~GroupAlive /\ r.closed /\ Finish(o, FALSE) /\ signalled' = sent
       \/ ~GroupAlive /\ ~r.closed /\ GiveUpOrPoll(o) /\ signalled' = sent
       \/ /\ GroupAlive /\ ~r.killed /\ now >= r.killAt
          /\ \/ Finish(o, TRUE) /\ signalled' = sent
             \/ GiveUpOrPoll([o EXCEPT !.killed = TRUE]) /\ signalled' = [sent EXCEPT !.KILL = now]
       \/ GroupAlive /\ (r.killed \/ now < r.killAt) /\ GiveUpOrPoll(o) /\ signalled' = sent

\* beginTeardown: only the first of timeout, error, exit and close starts it.
BeginTeardown(r) ==
    \/ /\ Settled \/ r.teardown
       /\ run' = r
       /\ UNCHANGED <<result, signalled>>
    \/ /\ ~Settled /\ ~r.teardown
       /\ LET t == [r EXCEPT !.teardown = TRUE, !.timeoutAt = Never,
                             !.killAt = now + KillAfter,
                             !.deadline = now + KillAfter + GiveUp]
          IN \/ Finish(t, TRUE) /\ UNCHANGED signalled
             \/ CheckTeardown(t, IF GroupAlive THEN [signalled EXCEPT !.TERM = now] ELSE signalled)

\* The timeout timer.
TimeoutFires ==
    /\ run.timeoutAt # Never /\ now >= run.timeoutAt
    /\ ~Settled
    /\ BeginTeardown([run EXCEPT !.timedOut = TRUE, !.timeoutAt = Never])
    /\ UNCHANGED <<leader, member, escaped, events, now>>

\* The poll timer.
Poll ==
    /\ run.pollAt # Never /\ now >= run.pollAt
    /\ ~Settled
    /\ CheckTeardown([run EXCEPT !.pollAt = Never], signalled)
    /\ UNCHANGED <<leader, member, escaped, events, now>>

\* child "error": nothing was started.  Node sends it to a started child only
\* for child.kill, child.send or an AbortSignal, which this code does not use.
ErrorEvent ==
    /\ "error" \in events
    /\ events' = events \ {"error"}
    /\ ~HasPid
    /\ Finish(run, FALSE)
    /\ UNCHANGED <<leader, member, escaped, signalled, now>>

\* child "exit": teardown starts even when descendants hold the pipes open.
ExitEvent ==
    /\ "exit" \in events
    /\ events' = events \ {"exit"}
    /\ BeginTeardown([run EXCEPT !.code = leader])
    /\ UNCHANGED <<leader, member, escaped, now>>

\* child "close": carries the code again.
CloseEvent ==
    /\ "close" \in events
    /\ events' = events \ {"close"}
    /\ BeginTeardown([run EXCEPT !.code = leader, !.closed = TRUE])
    /\ UNCHANGED <<leader, member, escaped, now>>

Environment == Fork \/ LeaderExits \/ MemberExits \/ EscapedExits \/ PipesClose \/ Tick

Runner == TimeoutFires \/ Poll \/ ErrorEvent \/ ExitEvent \/ CloseEvent

Next == Environment \/ Runner

\* Time passes and the event loop delivers; no process is assumed to end.
Fairness ==
    /\ WF_vars(Tick) /\ WF_vars(TimeoutFires) /\ WF_vars(Poll)
    /\ WF_vars(ErrorEvent) /\ WF_vars(ExitEvent) /\ WF_vars(CloseEvent)

Spec == Init /\ [][Next]_vars /\ Fairness

-----------------------------------------------------------------------------
\* A result that does not report failed cleanup was given when no process of
\* the group was alive and nobody held the pipes, and that stays so.
CleanMeansQuiet ==
    (Settled /\ HasPid /\ ~result.cleanupFailed) => ~PipesOpen

\* Code 0 reaches the caller only from a leader that exited with 0, in time,
\* and whose group was seen to be gone.
SuccessIsReal ==
    (Settled /\ result.code = "zero") =>
        /\ leader = "zero" /\ ~GroupAlive
        /\ ~result.timedOut /\ result.groupStopped = "yes"

\* docs/coauthoring.md: cleanup takes at most four seconds more than the
\* timeout; what a late timer adds is one poll and MaxLate at either end.
SettlesInTime == Settled => result.at <= Timeout + KillAfter + GiveUp + 2 * MaxLate

\* What runCommand answers can be relied on, whatever order exits, timers and
\* the closing of pipes come in: a success is one, what is reported clean is
\* quiet, and the answer is in time.
ResultIsTrue == SuccessIsReal /\ CleanMeansQuiet /\ SettlesInTime

\* The promise of a process that was started, or could not be, settles whatever the processes
\* do: ignore SIGTERM, survive SIGKILL, or leave a descendant that keeps the pipes open for ever.
AlwaysSettles == (~HasPid \/ now > 0) ~> Settled
=============================================================================

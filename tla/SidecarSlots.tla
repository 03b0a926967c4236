---------------------------- MODULE SidecarSlots ----------------------------
(***************************************************************************)
(* The process-wide slot semaphore of src/src/background/                  *)
(* background-agent-runner.js: a counter of running sidecars and a list of *)
(* parked promises.  JavaScript runs one callback at a time, so an action  *)
(* is the code between two awaits.  Resolving a parked promise only queues *)
(* a microtask: the woken call looks at the counter again later, and       *)
(* another call may have taken the slot by then.                           *)
(***************************************************************************)
EXTENDS Integers, Sequences, FiniteSets

CONSTANTS
    Calls,     \* the runBackgroundTask calls of one process
    MaxOf      \* resolveMaxConcurrentSidecars(env) of each call's own env

ASSUME CallsAssumption == IsFiniteSet(Calls)

ASSUME MaxAssumption == MaxOf \in [Calls -> 1..20]

VARIABLES
    pc,        \* where each call is in acquire .. release
    active,    \* activeSidecarCount
    waiters    \* sidecarSlotWaiters, oldest first

vars == <<pc, active, waiters>>

\* "parked" calls have a resolver in waiters, "woken" ones a resolved promise.
Places == {"calling", "parked", "woken", "holding", "released"}

At(place) == {c \in Calls : pc[c] = place}

TypeOK ==
    /\ pc \in [Calls -> Places]
    /\ active \in Nat
    /\ waiters \in Seq(Calls)

Init ==
    /\ pc = [c \in Calls |-> "calling"]
    /\ active = 0
    /\ waiters = <<>>

\* Changed forms of Take: the limit is not tested again after a wake-up, and
\* the test is off by one.
Take_NoRetest(c) ==
    /\ pc[c] \in {"calling", "woken"}
    /\ active < MaxOf[c] \/ pc[c] = "woken"
    /\ active' = active + 1
    /\ pc' = [pc EXCEPT ![c] = "holding"]
    /\ UNCHANGED waiters

\* acquireSidecarSlot: the loop test on entry or after a wake-up fails.
Take(c) ==
    /\ pc[c] \in {"calling", "woken"}
    /\ active < MaxOf[c]
    /\ active' = active + 1
    /\ pc' = [pc EXCEPT ![c] = "holding"]
    /\ UNCHANGED waiters

\* The loop test holds: the call queues, at the tail even if it was woken.
Park(c) ==
    /\ pc[c] \in {"calling", "woken"}
    /\ active >= MaxOf[c]
    /\ waiters' = Append(waiters, c)
    /\ pc' = [pc EXCEPT ![c] = "parked"]
    /\ UNCHANGED active

\* Changed form of Decremented: a second release of the slot, unclamped.
Decremented_Twice(n) == n - 2

\* Math.max(0, activeSidecarCount - 1)
Decremented(n) == IF n = 0 THEN 0 ELSE n - 1

\* Changed forms of Release: a wake-up only when the pool is empty; no wake-up
\* at all.
Release_WakeWhenEmpty(c) ==
    /\ pc[c] = "holding"
    /\ active' = Decremented(active)
    /\ \/ /\ waiters = <<>> \/ active > 1
          /\ pc' = [pc EXCEPT ![c] = "released"]
          /\ UNCHANGED waiters
       \/ /\ waiters # <<>> /\ active <= 1
          /\ waiters' = Tail(waiters)
          /\ pc' = [pc EXCEPT ![c] = "released", ![Head(waiters)] = "woken"]

Release_Silent(c) ==
    /\ pc[c] = "holding"
    /\ active' = Decremented(active)
    /\ pc' = [pc EXCEPT ![c] = "released"]
    /\ UNCHANGED waiters

\* releaseSidecarSlot, in the finally of runBackgroundTask.
Release(c) ==
    /\ pc[c] = "holding"
    /\ active' = Decremented(active)
    /\ \/ /\ waiters = <<>>
          /\ pc' = [pc EXCEPT ![c] = "released"]
          /\ UNCHANGED waiters
       \/ /\ waiters # <<>>
          /\ waiters' = Tail(waiters)
          /\ pc' = [pc EXCEPT ![c] = "released", ![Head(waiters)] = "woken"]

Next == \E c \in Calls : Take(c) \/ Park(c) \/ Release(c)

\* The event loop runs every queued callback, and runCommand always settles.
Fairness ==
    \A c \in Calls : WF_vars(Take(c)) /\ WF_vars(Park(c)) /\ WF_vars(Release(c))

Safe == Init /\ [][Next]_vars

Spec == Safe /\ Fairness

-----------------------------------------------------------------------------
\* Calls that hold a slot are exactly what activeSidecarCount counts, so the
\* Math.max(0, ...) of the release is never what keeps the counter right.
CountsHolders == active = Cardinality(At("holding"))

\* Calls that asked for at most m running sidecars never see more than m of
\* them running, whatever the limits of the other calls.
HoldersWithin(m) == {c \in At("holding") : MaxOf[c] <= m}

LimitRespected == \A m \in 1..20 : Cardinality(HoldersWithin(m)) <= m

\* The list holds each parked call once: a resolver is never run twice or lost.
QueueIsParked ==
    /\ {waiters[i] : i \in 1..Len(waiters)} = At("parked")
    /\ \A i, j \in 1..Len(waiters) : waiters[i] = waiters[j] => i = j

\* While a call is parked, the calls that hold a slot or are about to look for
\* one are as many as some call's limit: with one limit for all, no slot stays
\* idle; with several, a parked call always has somebody left to wake it up.
WorkConserving ==
    At("parked") # {} =>
        \E c \in Calls : active + Cardinality(At("woken")) >= MaxOf[c]

\* Two things no waiting or waking may cost, whatever order calls resume in:
\* the limits hold, and no parked call is left without somebody to wake it.
SlotsHold == LimitRespected /\ WorkConserving

\* The semaphore implements the abstract pool.
Pool == INSTANCE SlotPool WITH holding <- At("holding"), released <- At("released")

ImplementsPool == Pool!Spec

ImplementsPoolSafety == Pool!Safe
=============================================================================

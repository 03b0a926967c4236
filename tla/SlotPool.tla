------------------------------ MODULE SlotPool ------------------------------
(***************************************************************************)
(* What the sidecar slot semaphore promises its callers, without queues or *)
(* wake-ups: a call that asks for a slot holds one at most once, only when *)
(* fewer slots than its own limit are taken, and gives it back.            *)
(***************************************************************************)
EXTENDS Naturals, FiniteSets

CONSTANTS
    Calls,     \* the runBackgroundTask calls of one process
    MaxOf      \* the limit each call reads from its environment

VARIABLES
    holding,   \* the calls that hold a slot
    released   \* the calls that have given their slot back

vars == <<holding, released>>

Init == holding = {} /\ released = {}

Acquire(c) ==
    /\ c \notin holding \cup released
    /\ Cardinality(holding) < MaxOf[c]
    /\ holding' = holding \cup {c}
    /\ UNCHANGED released

Release(c) ==
    /\ c \in holding
    /\ holding' = holding \ {c}
    /\ released' = released \cup {c}

Next == \E c \in Calls : Acquire(c) \/ Release(c)

Safe == Init /\ [][Next]_vars

\* A pool that can serve a call serves one, and a held slot is given back.
Spec ==
    /\ Safe
    /\ WF_vars(\E c \in Calls : Acquire(c))
    /\ \A c \in Calls : WF_vars(Release(c))
=============================================================================

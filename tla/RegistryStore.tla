---------------------------- MODULE RegistryStore ----------------------------
(***************************************************************************)
(* What the OAuth model registry promises the processes that share it: one *)
(* cell, whose revision counts the updates it holds, and to which every    *)
(* update is applied at most once and never undone.                        *)
(***************************************************************************)
EXTENDS Naturals

CONSTANT Updaters   \* calls of updateState

VARIABLES
    revision,       \* revision of the state a reader gets, 0 before the first
    updates         \* the updates that state contains

vars == <<revision, updates>>

Init == revision = 0 /\ updates = {}

Update(u) ==
    /\ u \notin updates
    /\ updates' = updates \cup {u}
    /\ revision' = revision + 1

Next == \E u \in Updaters : Update(u)

Spec == Init /\ [][Next]_vars
=============================================================================

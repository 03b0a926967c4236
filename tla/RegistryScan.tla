---------------------------- MODULE RegistryScan ----------------------------
(***************************************************************************)
(* The scan of the OAuth model registry: refreshRegistry and boundedWait   *)
(* of src/src/runtime/oauth-doctor.js.                                     *)
(*                                                                         *)
(* A request that finds the registry stale discovers the installed models  *)
(* under a scan lock shared by all processes, and publishes them with      *)
(* updateState (module RegistryFile).  Requests of the same process share  *)
(* the scan; each waits for it no longer than its own timer.  A process    *)
(* runs one piece of synchronous code at a time and may die anywhere.      *)
(***************************************************************************)
CONSTANTS
    Requests,   \* calls of refreshRegistry
    Processes,
    Home,       \* the process of each request
    Forced,     \* the requests with options.force
    Reclaims,   \* TRUE on darwin, where a dead owner's lock can be taken over
    NoOne        \* no process, no request

ASSUME ScanAssumption ==
    /\ Home \in [Requests -> Processes]
    /\ Forced \subseteq Requests /\ Reclaims \in BOOLEAN
    /\ NoOne \notin Processes \cup Requests

VARIABLES
    lock,       \* the process whose pid .scan-lock holds
    fresh,      \* scannedAt of the registry is less than a minute old
    recent,     \* a scan ended less than a minute ago
    pending,    \* per process: the request whose scan is in the pending map
    at,         \* per request: where refreshRegistry is
    waitsFor,   \* per request: the request whose scan it awaits
    scan,       \* per request: the scan it started
    stuck,      \* the processes that could not remove their lock
    dead        \* the processes that died

scanVars == <<lock, fresh, recent, pending, at, waitsFor, scan, stuck, dead>>

Ended == {"succeeded", "rejected"}

ScanTypeOK ==
    /\ lock \in Processes \cup {NoOne}
    /\ fresh \in BOOLEAN /\ recent \in BOOLEAN
    /\ pending \in [Processes -> Requests \cup {NoOne}]
    /\ at \in [Requests -> {"idle", "stale", "waiting", "returned", "threw"}]
    /\ waitsFor \in [Requests -> Requests \cup {NoOne}]
    /\ scan \in [Requests -> {"none", "discovering", "published", "refused"} \cup Ended]
    /\ stuck \subseteq Processes /\ dead \subseteq Processes
    /\ \A r \in Requests : at[r] = "waiting" => waitsFor[r] # NoOne

ScanInit ==
    /\ lock = NoOne /\ fresh = FALSE /\ recent = FALSE
    /\ pending = [p \in Processes |-> NoOne]
    /\ at = [r \in Requests |-> "idle"]
    /\ waitsFor = [r \in Requests |-> NoOne]
    /\ scan = [r \in Requests |-> "none"]
    /\ stuck = {} /\ dead = {}

\* The process is in the middle of synchronous code: between reading the
\* registry and taking the lock, or between updateState and release.
Busy(p) == \E r \in Requests :
    Home[r] = p /\ (at[r] = "stale" \/ scan[r] \in {"published", "refused"})

Quiet(r) == Home[r] \notin dead /\ ~Busy(Home[r])

-----------------------------------------------------------------------------
\* Changed form of Join: the map is not looked up before the wait.
Join_Any(r) ==
    /\ at[r] = "idle" /\ Quiet(r)
    /\ waitsFor' = [waitsFor EXCEPT ![r] = pending[Home[r]]]
    /\ at' = [at EXCEPT ![r] = "waiting"]
    /\ UNCHANGED <<lock, fresh, recent, pending, scan, stuck, dead>>

\* A scan of this process is under way: share it.
Join(r) ==
    /\ at[r] = "idle" /\ Quiet(r) /\ pending[Home[r]] # NoOne
    /\ waitsFor' = [waitsFor EXCEPT ![r] = pending[Home[r]]]
    /\ at' = [at EXCEPT ![r] = "waiting"]
    /\ UNCHANGED <<lock, fresh, recent, pending, scan, stuck, dead>>

\* Read the registry: a fresh one is returned, unless the scan is forced.
Check(r) ==
    /\ at[r] = "idle" /\ Quiet(r) /\ pending[Home[r]] = NoOne
    /\ at' = [at EXCEPT ![r] = IF fresh /\ r \notin Forced THEN "returned" ELSE "stale"]
    /\ UNCHANGED <<lock, fresh, recent, pending, waitsFor, scan, stuck, dead>>

Free == lock = NoOne \/ (Reclaims /\ lock \in dead)

\* Changed form of Start: a lock that looks old is taken over.
Start_Steals(r) ==
    /\ at[r] = "stale" /\ Home[r] \notin dead
    /\ lock' = Home[r]
    /\ scan' = [scan EXCEPT ![r] = "discovering"]
    /\ pending' = [pending EXCEPT ![Home[r]] = r]
    /\ waitsFor' = [waitsFor EXCEPT ![r] = r]
    /\ at' = [at EXCEPT ![r] = "waiting"]
    /\ UNCHANGED <<fresh, recent, stuck, dead>>

\* Take the lock and start to discover, the scan being in the pending map.
Start(r) ==
    /\ at[r] = "stale" /\ Home[r] \notin dead /\ Free
    /\ lock' = Home[r]
    /\ scan' = [scan EXCEPT ![r] = "discovering"]
    /\ pending' = [pending EXCEPT ![Home[r]] = r]
    /\ waitsFor' = [waitsFor EXCEPT ![r] = r]
    /\ at' = [at EXCEPT ![r] = "waiting"]
    /\ UNCHANGED <<fresh, recent, stuck, dead>>

\* The lock is held: the registry as it was read is returned.
LockHeld(r) ==
    /\ at[r] = "stale" /\ Home[r] \notin dead /\ ~Free
    /\ at' = [at EXCEPT ![r] = "returned"]
    /\ UNCHANGED <<lock, fresh, recent, pending, waitsFor, scan, stuck, dead>>

\* Another error of acquireLock, the lock file being there already.
LockFails(r) ==
    /\ at[r] = "stale" /\ Home[r] \notin dead /\ Free
    /\ lock' = Home[r]
    /\ at' = [at EXCEPT ![r] = "threw"]
    /\ UNCHANGED <<fresh, recent, pending, waitsFor, scan, stuck, dead>>

-----------------------------------------------------------------------------
\* Discovery ends, and updateState publishes its result and scannedAt.
PublishScan(r) ==
    /\ scan[r] = "discovering" /\ Quiet(r)
    /\ scan' = [scan EXCEPT ![r] = "published"]
    /\ fresh' = TRUE
    /\ UNCHANGED <<lock, recent, pending, at, waitsFor, stuck, dead>>

\* Discovery rejects, or updateState throws: the registry's lock is held.
RefuseScan(r) ==
    /\ scan[r] = "discovering" /\ Quiet(r)
    /\ scan' = [scan EXCEPT ![r] = "refused"]
    /\ UNCHANGED <<lock, fresh, recent, pending, at, waitsFor, stuck, dead>>

\* The finally block: release the lock, forget the pending scan.
FinishScan(r) ==
    /\ scan[r] \in {"published", "refused"} /\ Home[r] \notin dead
    /\ lock' = NoOne
    /\ pending' = [pending EXCEPT ![Home[r]] = NoOne]
    /\ scan' = [scan EXCEPT ![r] = IF @ = "published" THEN "succeeded" ELSE "rejected"]
    /\ recent' = TRUE
    /\ UNCHANGED <<fresh, at, waitsFor, stuck, dead>>

\* release throws: the lock stays, and so does the pending scan.
ReleaseFails(r) ==
    /\ scan[r] \in {"published", "refused"} /\ Home[r] \notin dead
    /\ scan' = [scan EXCEPT ![r] = "rejected"]
    /\ stuck' = stuck \cup {Home[r]}
    /\ recent' = TRUE
    /\ UNCHANGED <<lock, fresh, pending, at, waitsFor, dead>>

-----------------------------------------------------------------------------
\* boundedWait: the scan first, with its result or its error.
Settle(r) ==
    /\ at[r] = "waiting" /\ Quiet(r) /\ scan[waitsFor[r]] \in Ended
    /\ at' = [at EXCEPT ![r] = IF scan[waitsFor[r]] = "succeeded" THEN "returned" ELSE "threw"]
    /\ UNCHANGED <<lock, fresh, recent, pending, waitsFor, scan, stuck, dead>>

\* Changed form of WaitTimesOut: only the request that started the scan has a timer.
WaitTimesOut_OwnerOnly(r) ==
    /\ at[r] = "waiting" /\ Quiet(r) /\ scan[waitsFor[r]] \notin Ended
    /\ waitsFor[r] = r
    /\ at' = [at EXCEPT ![r] = "returned"]
    /\ UNCHANGED <<lock, fresh, recent, pending, waitsFor, scan, stuck, dead>>

\* boundedWait: the timer first, with the registry as it is then.  A scan that
\* has ended wins the race.
WaitTimesOut(r) ==
    /\ at[r] = "waiting" /\ Quiet(r) /\ scan[waitsFor[r]] \notin Ended
    /\ at' = [at EXCEPT ![r] = "returned"]
    /\ UNCHANGED <<lock, fresh, recent, pending, waitsFor, scan, stuck, dead>>

Crash(p) ==
    /\ p \notin dead
    /\ dead' = dead \cup {p}
    /\ UNCHANGED <<lock, fresh, recent, pending, at, waitsFor, scan, stuck>>

\* A minute goes by.
Minute ==
    /\ fresh \/ recent
    /\ fresh' = FALSE /\ recent' = FALSE
    /\ UNCHANGED <<lock, pending, at, waitsFor, scan, stuck, dead>>

\* What the process does by itself, whatever discovery does.
Own(r) ==
    \/ Join(r) \/ Check(r) \/ Start(r) \/ LockHeld(r) \/ LockFails(r)
    \/ FinishScan(r) \/ ReleaseFails(r) \/ Settle(r) \/ WaitTimesOut(r)

ScanNext ==
    \/ \E r \in Requests : Own(r) \/ PublishScan(r) \/ RefuseScan(r)
    \/ \E p \in Processes : Crash(p)
    \/ Minute

ScanSpec == ScanInit /\ [][ScanNext]_scanVars

\* Synchronous code goes on and timers fire; discovery may hang for ever.
ScanFair == \A r \in Requests : WF_scanVars(Own(r))

-----------------------------------------------------------------------------
Live(r) == Home[r] \notin dead /\ scan[r] \in {"discovering", "published", "refused"}

\* At most one scan runs on the machine, though locks of dead processes are
\* taken over and some locks cannot be removed.
ScansExclusive == \A r, q \in Requests : Live(r) /\ Live(q) => r = q

\* The pending map of a live process names a scan that runs, so that nobody
\* joins one that failed: except after a lock that could not be removed.
PendingIsLive ==
    \A p \in Processes \ (stuck \cup dead) :
        /\ pending[p] # NoOne => Live(pending[p])
        /\ \A r \in Requests : Home[r] = p /\ Live(r) => pending[p] = r

\* Coalescing is sound between processes and inside one: one scan at a time,
\* and nobody joins a scan that is over.
ScansAreSound == ScansExclusive /\ PendingIsLive

\* test/oauth-recovery.test.js: "a coalesced doctor waiter respects its own
\* deadline".  Every request under way in a live process ends though discovery
\* may hang.
EveryRequestSettles ==
    \A r \in Requests :
        at[r] \in {"stale", "waiting"} ~> (at[r] \in {"returned", "threw"} \/ Home[r] \in dead)

\* docs/oauth-recovery.md: "Failures trigger a coalesced scan with a one-minute
\* cooldown."  A scan nobody forced starts a minute after the last one at least.
Cooldown ==
    [][\A r \in Requests \ Forced : scan[r] = "none" /\ scan'[r] # "none" => ~recent]_scanVars
=============================================================================

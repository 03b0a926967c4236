-------------------------- MODULE LockedPasses_proofs --------------------------
(***************************************************************************)
(* Proofs about work that processes do in turn behind a lock that is taken *)
(* over from the dead: the scan of the OAuth registry and the refresh of   *)
(* the Atelier graphs.  The two share nothing; each has a part of its own. *)
(***************************************************************************)
EXTENDS RegistryScan, AtelierRefresh, SequenceTheorems, TLAPS

----------------------------------------------------------------------------
(***************************************************************************)
(* The registry scan for every set of requests and processes, with and     *)
(* without takeover of locks: type correctness, one scan on the machine,   *)
(* and a pending map that never names a scan that has ended.               *)
(***************************************************************************)


\* A scan that runs is behind the lock of its process, and alone there.
LockInv ==
    /\ \A r \in Requests : Live(r) => lock = Home[r]
    /\ ScansExclusive

\* A process has only scans of its own in its map.
OwnPending == \A p \in Processes : pending[p] # NoOne => Home[pending[p]] = p

IInv == ScanTypeOK /\ LockInv /\ OwnPending /\ PendingIsLive

LEMMA InitInv == ScanInit => IInv
<1> SUFFICES ASSUME ScanInit PROVE IInv
  OBVIOUS
<1> USE ScanAssumption DEF ScanInit
<1>1. ScanTypeOK
  BY DEF ScanTypeOK
<1>2. \A r \in Requests : ~Live(r)
  BY DEF Live
<1>3. LockInv /\ OwnPending /\ PendingIsLive
  BY <1>2 DEF LockInv, ScansExclusive, OwnPending, PendingIsLive
<1> QED
  BY <1>1, <1>3 DEF IInv

\* While the lock may be taken, nothing runs: a live owner would hold it.
LEMMA FreeMeansQuiet == ASSUME IInv, Free PROVE \A r \in Requests : ~Live(r)
BY ScanAssumption DEF IInv, LockInv, Free, Live

LEMMA TypeInv == ASSUME ScanTypeOK, [ScanNext]_scanVars PROVE ScanTypeOK'
<1> USE ScanAssumption DEF ScanTypeOK
<1>1. ASSUME NEW r \in Requests, Own(r) PROVE ScanTypeOK'
  <2>1. CASE Join(r)
    BY <2>1 DEF Join
  <2>2. CASE Check(r)
    BY <2>2 DEF Check
  <2>3. CASE Start(r)
    BY <2>3 DEF Start
  <2>4. CASE LockHeld(r)
    BY <2>4 DEF LockHeld
  <2>5. CASE LockFails(r)
    BY <2>5 DEF LockFails
  <2>6. CASE FinishScan(r)
    BY <2>6 DEF FinishScan, Ended
  <2>7. CASE ReleaseFails(r)
    BY <2>7 DEF ReleaseFails, Ended
  <2>8. CASE Settle(r)
    BY <2>8 DEF Settle
  <2>9. CASE WaitTimesOut(r)
    BY <2>9 DEF WaitTimesOut
  <2> QED
    BY <1>1, <2>1, <2>2, <2>3, <2>4, <2>5, <2>6, <2>7, <2>8, <2>9 DEF Own
<1>2. ASSUME NEW r \in Requests, PublishScan(r) \/ RefuseScan(r) PROVE ScanTypeOK'
  <2>1. CASE PublishScan(r)
    BY <2>1 DEF PublishScan
  <2>2. CASE RefuseScan(r)
    BY <2>2 DEF RefuseScan
  <2> QED
    BY <1>2, <2>1, <2>2
<1>3. ASSUME NEW p \in Processes, Crash(p) PROVE ScanTypeOK'
  BY <1>3 DEF Crash
<1>4. CASE Minute \/ UNCHANGED scanVars
  BY <1>4 DEF Minute, scanVars
<1> QED
  BY <1>1, <1>2, <1>3, <1>4 DEF ScanNext

\* The steps that leave the lock, the map and the scans as they are.
LEMMA Aside ==
    ASSUME IInv, UNCHANGED <<lock, pending, scan, stuck, dead>>
    PROVE  LockInv' /\ OwnPending' /\ PendingIsLive'
BY DEF IInv, LockInv, ScansExclusive, OwnPending, PendingIsLive, Live

LEMMA StartInv ==
    ASSUME IInv, NEW r \in Requests, Start(r)
    PROVE  LockInv' /\ OwnPending' /\ PendingIsLive'
<1> USE ScanAssumption DEF IInv, ScanTypeOK
<1>1. \A q \in Requests : ~Live(q)
  BY FreeMeansQuiet DEF Start
<1>2. Live(r)' /\ \A q \in Requests \ {r} : ~Live(q)'
  BY <1>1 DEF Start, Live
<1>3. LockInv'
  BY <1>2 DEF Start, LockInv, ScansExclusive
<1>4. OwnPending'
  BY DEF Start, OwnPending
<1>5. PendingIsLive'
  <2>1. \A p \in Processes \ (stuck \cup dead) : pending[p] = NoOne
    BY <1>1 DEF PendingIsLive
  <2> QED
    BY <1>2, <2>1 DEF Start, PendingIsLive
<1> QED
  BY <1>3, <1>4, <1>5

\* Discovery ends in a publication or a refusal: the scan still runs.
LEMMA DiscoveredInv ==
    ASSUME IInv, NEW r \in Requests, PublishScan(r) \/ RefuseScan(r)
    PROVE  LockInv' /\ OwnPending' /\ PendingIsLive'
<1> USE DEF IInv, ScanTypeOK
<1>1. \A q \in Requests : Live(q)' <=> Live(q)
  BY DEF PublishScan, RefuseScan, Live
<1> QED
  BY <1>1 DEF PublishScan, RefuseScan, LockInv, ScansExclusive, OwnPending, PendingIsLive

\* A scan ends, with its lock removed or not.
LEMMA EndedInv ==
    ASSUME IInv, NEW r \in Requests, FinishScan(r) \/ ReleaseFails(r)
    PROVE  LockInv' /\ OwnPending' /\ PendingIsLive'
<1> USE ScanAssumption DEF IInv, ScanTypeOK
<1>1. Live(r)
  BY DEF FinishScan, ReleaseFails, Live
<1>2. \A q \in Requests : ~Live(q)'
  <2>1. ~Live(r)'
    BY DEF FinishScan, ReleaseFails, Live
  <2>2. \A q \in Requests \ {r} : ~Live(q)
    BY <1>1 DEF LockInv, ScansExclusive
  <2>3. \A q \in Requests \ {r} : ~Live(q)'
    BY <2>2 DEF FinishScan, ReleaseFails, Live
  <2> QED
    BY <2>1, <2>3
<1>3. LockInv'
  BY <1>2 DEF LockInv, ScansExclusive
<1>4. OwnPending'
  BY DEF FinishScan, ReleaseFails, OwnPending
<1>5. PendingIsLive'
  <2>1. ASSUME NEW p \in Processes \ (stuck \cup dead), pending[p] # NoOne PROVE p = Home[r]
    BY <1>1, <2>1 DEF PendingIsLive, OwnPending, LockInv, ScansExclusive
  <2>2. CASE FinishScan(r)
    BY <1>2, <2>1, <2>2 DEF FinishScan, PendingIsLive
  <2>3. CASE ReleaseFails(r)
    BY <1>2, <2>1, <2>3 DEF ReleaseFails, PendingIsLive
  <2> QED
    BY <2>2, <2>3
<1> QED
  BY <1>3, <1>4, <1>5

LEMMA CrashInv ==
    ASSUME IInv, NEW p \in Processes, Crash(p)
    PROVE  LockInv' /\ OwnPending' /\ PendingIsLive'
<1> USE DEF IInv, ScanTypeOK
<1>1. \A q \in Requests : Live(q)' <=> Live(q) /\ Home[q] # p
  BY ScanAssumption DEF Crash, Live
<1>2. LockInv' /\ OwnPending'
  BY <1>1 DEF Crash, LockInv, ScansExclusive, OwnPending
<1>3. PendingIsLive'
  BY <1>1 DEF Crash, OwnPending, PendingIsLive
<1> QED
  BY <1>2, <1>3

\* A lock file left behind by an error: nothing ran when it was free.
LEMMA LockFailsInv ==
    ASSUME IInv, NEW r \in Requests, LockFails(r)
    PROVE  LockInv' /\ OwnPending' /\ PendingIsLive'
<1>1. \A q \in Requests : ~Live(q) /\ ~Live(q)'
  BY FreeMeansQuiet DEF LockFails, Live
<1>2. UNCHANGED <<pending, stuck, dead>>
  BY DEF LockFails
<1>3. LockInv' /\ OwnPending'
  BY <1>1, <1>2 DEF IInv, LockInv, ScansExclusive, OwnPending
<1>4. PendingIsLive'
  BY <1>1, <1>2 DEF IInv, ScanTypeOK, PendingIsLive
<1> QED
  BY <1>3, <1>4

LEMMA NextInv == IInv /\ [ScanNext]_scanVars => IInv'
<1> SUFFICES ASSUME IInv, [ScanNext]_scanVars PROVE IInv'
  OBVIOUS
<1>1. ScanTypeOK'
  BY TypeInv DEF IInv
<1>2. ASSUME NEW r \in Requests, Own(r) PROVE LockInv' /\ OwnPending' /\ PendingIsLive'
  <2>1. CASE Join(r) \/ Check(r) \/ LockHeld(r) \/ Settle(r) \/ WaitTimesOut(r)
    BY <2>1, Aside DEF Join, Check, LockHeld, Settle, WaitTimesOut
  <2>2. CASE Start(r) \/ LockFails(r) \/ FinishScan(r) \/ ReleaseFails(r)
    BY <2>2, StartInv, LockFailsInv, EndedInv
  <2> QED
    BY <1>2, <2>1, <2>2 DEF Own
<1>3. ASSUME NEW r \in Requests, PublishScan(r) \/ RefuseScan(r) PROVE LockInv' /\ OwnPending' /\ PendingIsLive'
  BY <1>3, DiscoveredInv
<1>4. ASSUME NEW p \in Processes, Crash(p) PROVE LockInv' /\ OwnPending' /\ PendingIsLive'
  BY <1>4, CrashInv
<1>5. CASE Minute \/ UNCHANGED scanVars
  <2>1. UNCHANGED <<lock, pending, scan, stuck, dead>>
    BY <1>5 DEF Minute, scanVars
  <2> QED
    BY <1>1, <2>1, Aside DEF IInv
<1> QED
  BY <1>1, <1>2, <1>3, <1>4, <1>5 DEF ScanNext, IInv

LEMMA AlwaysInv == ScanSpec => []IInv
BY InitInv, NextInv, PTL DEF ScanSpec

\* The variables keep their types.
THEOREM ScanTypeCorrect == ScanSpec => []ScanTypeOK
BY AlwaysInv, PTL DEF IInv

\* However many processes ask, die and take over locks, at most one of them is
\* discovering models at a time.
THEOREM OneScan == ScanSpec => []ScansExclusive
BY AlwaysInv, PTL DEF IInv, LockInv

\* While its locks can be removed, a process shares exactly the scan it runs:
\* nobody joins one that has ended.
THEOREM SharedScansRun == ScanSpec => []PendingIsLive
BY AlwaysInv, PTL DEF IInv

\* Coalescing is sound between processes and inside one.
THEOREM CoalescingIsSound == ScanSpec => []ScansAreSound
<1>1. ScansExclusive /\ PendingIsLive => ScansAreSound
  BY DEF ScansAreSound
<1> QED
  BY <1>1, OneScan, SharedScansRun, PTL

------------------------------------------------------------
(***************************************************************************)
(* The refresh of the Atelier graphs for any passes, sources, budgets and  *)
(* upsets: what is found fresh is, and no source is rebuilt for ever.      *)
(***************************************************************************)

Marks == [attempts : Nat, files : Nat, waits : BOOLEAN, unreconciled : BOOLEAN, origin : Nat]

PassPlaces == {"idle", "looking", "asking", "guarding", "comparing", "moving", "again", "filling", "unguard",
               "loading", "source", "looked", "sync", "building", "built", "saving", "releasing", "over", "dead"}

PassRecords == [at : PassPlaces, mine : Nat, seen : Nat, guards : BOOLEAN, todo : Seq(Sources),
                plan : [Sources -> Marks], files : Nat, used : Nat, begun : SUBSET Sources]

SourceRecords == [files : Nat, origin : Nat, stands : Nat, graph : Nat, receipt : [files : Nat, graph : Nat]]

\* Who holds the lock of a rebuilding, and the tools nobody waits for.
ToolTypes ==
    /\ builder \in [Sources -> SUBSET Passes]
    /\ orphans \in [Sources -> SUBSET Nat] /\ strays \subseteq Sources

RefreshTypes ==
    /\ refreshLock \in [inode : Nat, owner : SUBSET Passes, made : Nat] /\ rescue \in BOOLEAN
    /\ refreshState \in [Sources -> Marks] /\ world \in [Sources -> SourceRecords]
    /\ pass \in [Passes -> PassRecords]
    /\ tried \in [Sources -> [files : Nat, times : Nat]] /\ lost \in [Sources -> Nat]
    /\ ToolTypes

\* Which steps are taken with a lock of one's own, with sources left, with the
\* guard, or with a try that is not saved.
PlaceFits(q) ==
    /\ q.at \in {"idle", "looking", "asking", "guarding", "comparing", "moving", "again", "over", "dead"}
         => q.mine = 0 /\ q.todo = <<>>
    /\ q.at \in {"filling", "loading", "source", "looked", "sync", "saving", "releasing"} => q.mine # 0
    /\ q.at \in {"looked", "sync"} => q.todo # <<>>
    /\ q.at \in {"building", "built"} => (q.mine # 0 <=> q.todo # <<>>)
    /\ q.at \in {"comparing", "moving", "again", "unguard"} => q.guards
    /\ q.at \in {"asking", "guarding", "comparing", "moving"} => q.seen # 0 /\ q.seen <= refreshLock.made
    /\ q.at \notin {"sync", "building", "built", "saving", "releasing"} => q.begun = {}

\* A lock somebody has made is there, and it is his.
LockIsHis(q, p) ==
    q.mine # 0 => refreshLock.inode = q.mine /\ refreshLock.owner = (IF q.at = "filling" THEN {} ELSE {p})

\* A lock somebody is about to take over is that of a dead process, if it is
\* still there; once compared it is.
TakesOverDead(q) ==
    /\ q.at \in {"guarding", "comparing", "moving"} /\ refreshLock.inode = q.seen => Abandoned
    /\ q.at = "moving" => refreshLock.inode = q.seen

GuardFits ==
    /\ \A p \in Passes : pass[p].guards => rescue
    /\ \A p, q \in Passes : pass[p].guards /\ pass[q].guards => p = q

LocksFit ==
    /\ refreshLock.inode <= refreshLock.made /\ (refreshLock.inode = 0 => refreshLock.owner = {})
    /\ \A p \in Passes : PlaceFits(pass[p]) /\ LockIsHis(pass[p], p) /\ TakesOverDead(pass[p])
    /\ GuardFits
    /\ \A p, q \in Passes : pass[p].mine # 0 /\ pass[q].mine = pass[p].mine => p = q

\* The attempts that record r leaves to the source s counted.
Counted(r, s) ==
    IF (r.unreconciled /\ r.origin # world[s].origin) \/ (r.files # 0 /\ r.files # world[s].files)
    THEN 0 ELSE r.attempts

\* Record r counts the tries of the present files, but for those lost and extra.
Tells(r, s, extra) == tried[s].files = world[s].files => tried[s].times <= Counted(r, s) + lost[s] + extra

Rebuilding == {"sync", "building", "built"}
AtWork(q) == q.mine # 0 /\ q.at \in {"source", "looked", "saving"} \cup Rebuilding

\* The plan of a pass at work tells of every source but the one it is at.
PlanTells(q) ==
    AtWork(q) => \A s \in Sources : ~(q.at \in Rebuilding /\ s = Head(q.todo)) => Tells(q.plan[s], s, 0)

\* The attempts at source s with files n.
AttemptsAt(r, n) == IF r.files # 0 /\ r.files # n THEN 0 ELSE r.attempts

\* Its attempt would be counted.
LookedTells(q) ==
    q.at = "looked" =>
        LET s == Head(q.todo) IN
        /\ tried[s].files <= q.files /\ q.files <= world[s].files
        /\ tried[s].files = q.files => tried[s].times <= AttemptsAt(q.plan[s], q.files) + lost[s]

\* Its attempt is about to be counted.
RebuildTells(q) ==
    q.mine # 0 /\ q.at \in Rebuilding =>
        LET s == Head(q.todo) IN
        /\ tried[s].files = q.files /\ q.plan[s].files = q.files /\ ~q.plan[s].unreconciled
        /\ tried[s].times <= q.plan[s].attempts + 1 + lost[s]

PassTells(q) == PlanTells(q) /\ LookedTells(q) /\ RebuildTells(q)

Unsaved(s) == \E p \in Passes : AtWork(pass[p]) /\ s \in pass[p].begun

TriesCount ==
    /\ \A s \in Sources : tried[s].files <= world[s].files
    /\ AttemptsBounded
    /\ \A s \in Sources : Tells(refreshState[s], s, IF Unsaved(s) THEN 1 ELSE 0)
    /\ \A p \in Passes : PassTells(pass[p])

\* The source whose graph is rebuilt.
TargetOf(q) == IF q.todo = <<>> THEN Head(Enrolled) ELSE Head(q.todo)

\* What a builder knows: the files were no newer when it read them, and a graph
\* there is was built since, but for one that a tool nobody waits for has put there.
BuilderKnows(q) ==
    /\ q.at \in {"building", "built"} => q.seen <= world[TargetOf(q)].files
    /\ q.at = "built" => \/ world[TargetOf(q)].graph = 0 \/ q.seen <= world[TargetOf(q)].graph
                         \/ TargetOf(q) \in strays

GraphsFit ==
    /\ \A s \in Sources : /\ world[s].graph <= world[s].files
                          /\ world[s].receipt.files = world[s].receipt.graph \/ s \in strays
    /\ \A p \in Passes : BuilderKnows(pass[p])

\* Whoever rebuilds a graph holds its lock alone.
Builds(q) == q.at \in {"building", "built"}

BuildersFit == \A p \in Passes : Builds(pass[p]) => builder[TargetOf(pass[p])] = {p}

RefreshInv == RefreshTypes /\ LocksFit /\ TriesCount /\ GraphsFit /\ BuildersFit

\* The fields of q are those of i, but for its place.
Alike(q, i) ==
    /\ q.mine = i.mine /\ q.seen = i.seen /\ q.guards = i.guards /\ q.todo = i.todo /\ q.plan = i.plan
    /\ q.files = i.files /\ q.begun = i.begun

\* What is over, or dead, knows nothing.
Cleared(q) == q.mine = 0 /\ q.todo = <<>> /\ q.guards = FALSE /\ q.begun = {}

LEMMA SourcesFacts == Enrolled \in Seq(Sources) /\ Enrolled # <<>> /\ Head(Enrolled) \in Sources
BY RefreshAssumption DEF Sources

LEMMA TodoFacts ==
    ASSUME NEW todo \in Seq(Sources), todo # <<>>
    PROVE  Head(todo) \in Sources /\ Tail(todo) \in Seq(Sources)
BY HeadTailProperties

LEMMA UntriedFacts ==
    /\ Untried \in Marks /\ Untried.attempts = 0 /\ Untried.files = 0 /\ ~Untried.waits /\ ~Untried.unreconciled
    /\ Untried.origin = 0
BY DEF Untried, Marks

LEMMA NoPassFacts ==
    /\ \A place \in PassPlaces : [NoPass EXCEPT !.at = place] \in PassRecords
    /\ \A place : [NoPass EXCEPT !.at = place].at = place /\ Cleared([NoPass EXCEPT !.at = place])
    /\ NoPass \in PassRecords /\ NoPass.at = "idle" /\ Cleared(NoPass)
<1>1. NoPass \in PassRecords /\ NoPass.at = "idle" /\ Cleared(NoPass)
  BY UntriedFacts DEF NoPass, PassRecords, PassPlaces, Cleared
<1>2. \A place \in PassPlaces : [NoPass EXCEPT !.at = place] \in PassRecords
  BY Zenon, <1>1 DEF PassRecords
<1>3. \A place : [NoPass EXCEPT !.at = place].at = place /\ Cleared([NoPass EXCEPT !.at = place])
  BY DEF NoPass, Cleared
<1> QED
  BY <1>1, <1>2, <1>3

LEMMA PassMoves ==
    ASSUME RefreshTypes, NEW p \in Passes, NEW place \in PassPlaces, Moves(p, place)
    PROVE  \E q \in PassRecords :
             /\ pass' = [pass EXCEPT ![p] = q] /\ q.at = place
             /\ IF place \in {"over", "dead"} THEN Cleared(q) ELSE Alike(q, pass[p])
<1>1. pass[p] \in PassRecords
  BY DEF RefreshTypes
<1>2. CASE place \in {"over", "dead"}
  <2>1. pass' = [pass EXCEPT ![p] = [NoPass EXCEPT !.at = place]]
    BY <1>2 DEF Moves
  <2> QED
    BY <1>2, <2>1, NoPassFacts
<1>3. CASE place \notin {"over", "dead"}
  <2> DEFINE q == [pass[p] EXCEPT !.at = place]
  <2>1. q \in PassRecords
    BY Zenon, <1>1 DEF PassRecords
  <2>2. q.at = place /\ Alike(q, pass[p])
    BY <1>1 DEF PassRecords, Alike
  <2>3. pass' = [pass EXCEPT ![p] = q]
    BY <1>3 DEF Moves, RefreshTypes
  <2> QED
    BY <1>3, <2>1, <2>2, <2>3
<1> QED
  BY <1>2, <1>3

LEMMA PassLeaves ==
    ASSUME RefreshTypes, NEW p \in Passes, pass[p].todo # <<>>, NEW r \in Marks, NEW place \in PassPlaces,
           Leave(p, r, place)
    PROVE  \E q \in PassRecords :
             /\ pass' = [pass EXCEPT ![p] = q] /\ q.at = place /\ q.plan = [pass[p].plan EXCEPT ![Source(p)] = r]
             /\ q.mine = pass[p].mine /\ q.guards = pass[p].guards /\ q.begun = pass[p].begun
             /\ q.todo = Tail(pass[p].todo)
<1>1. pass[p] \in PassRecords /\ pass[p].todo \in Seq(Sources) /\ pass[p].plan \in [Sources -> Marks]
  BY DEF RefreshTypes, PassRecords
<1>2. Source(p) \in Sources /\ Tail(pass[p].todo) \in Seq(Sources)
  BY <1>1, TodoFacts DEF Source
<1> DEFINE plan == [pass[p].plan EXCEPT ![Source(p)] = r]
           q == [pass[p] EXCEPT !.at = place, !.plan = plan, !.todo = Tail(@), !.files = 0, !.seen = 0]
<1>3. plan \in [Sources -> Marks]
  BY <1>1
<1>4. pass' = [pass EXCEPT ![p] = q]
  BY ZenonT(60), <1>1 DEF Leave, RefreshTypes
<1> HIDE DEF plan
<1>5. q \in PassRecords
  BY ZenonT(60), <1>1, <1>2, <1>3 DEF PassRecords
<1>6. /\ q.at = place /\ q.plan = plan /\ q.todo = Tail(pass[p].todo) /\ q.begun = pass[p].begun
      /\ q.mine = pass[p].mine /\ q.guards = pass[p].guards
  BY <1>1 DEF PassRecords
<1> QED
  BY <1>4, <1>5, <1>6 DEF plan

-----------------------------------------------------------------------------
\* The lock.

LEMMA CreateLockActs ==
    ASSUME RefreshTypes, NEW p \in Passes, CreateLock(p)
    PROVE  /\ pass[p].at \in {"idle", "again"} /\ rescue' = rescue
           /\ \E q \in PassRecords :
               /\ pass' = [pass EXCEPT ![p] = q]
               /\ \/ /\ refreshLock.inode = 0 /\ q.at = "filling" /\ q.mine = refreshLock.made + 1
                     /\ q.guards = pass[p].guards /\ q.todo = pass[p].todo /\ q.begun = pass[p].begun
                     /\ refreshLock' = [inode |-> refreshLock.made + 1, owner |-> {}, made |-> refreshLock.made + 1]
                  \/ /\ q.at = (IF pass[p].guards THEN "unguard" ELSE "looking") /\ Alike(q, pass[p])
                     /\ refreshLock' = refreshLock
<1>1. pass[p] \in PassRecords /\ refreshLock.made + 1 \in Nat
  BY DEF RefreshTypes
<1>2. CASE refreshLock.inode = 0
  <2> DEFINE q == [pass[p] EXCEPT !.at = "filling", !.mine = refreshLock.made + 1]
  <2>1. pass' = [pass EXCEPT ![p] = q]
    BY <1>2 DEF CreateLock, RefreshTypes
  <2>2. "filling" \in PassPlaces
    BY DEF PassPlaces
  <2>3. q \in PassRecords
    BY ZenonT(60), <1>1, <2>2 DEF PassRecords
  <2>4. /\ q.at = "filling" /\ q.mine = refreshLock.made + 1 /\ q.guards = pass[p].guards /\ q.todo = pass[p].todo
        /\ q.begun = pass[p].begun
    BY <1>1 DEF PassRecords
  <2> QED
    BY <1>2, <2>1, <2>3, <2>4 DEF CreateLock
<1>3. CASE refreshLock.inode # 0
  <2> DEFINE place == IF pass[p].guards THEN "unguard" ELSE "looking"
  <2>1. place \in PassPlaces /\ place \notin {"over", "dead"} /\ Moves(p, place) /\ refreshLock' = refreshLock
    BY <1>3 DEF CreateLock, PassPlaces
  <2> HIDE DEF place
  <2>2. PICK q \in PassRecords : pass' = [pass EXCEPT ![p] = q] /\ q.at = place /\ Alike(q, pass[p])
    BY <2>1, PassMoves
  <2> QED
    BY <2>1, <2>2 DEF place, CreateLock
<1> QED
  BY <1>2, <1>3 DEF CreateLock

LEMMA LookAtLockActs ==
    ASSUME RefreshTypes, NEW p \in Passes, LookAtLock(p)
    PROVE  /\ pass[p].at = "looking" /\ UNCHANGED <<refreshLock, rescue>>
           /\ \E q \in PassRecords :
               /\ pass' = [pass EXCEPT ![p] = q]
               /\ \/ q.at = "over" /\ Cleared(q)
                  \/ /\ q.at = "asking" /\ refreshLock.inode # 0 /\ q.seen = refreshLock.inode
                     /\ q.mine = pass[p].mine /\ q.guards = pass[p].guards /\ q.todo = pass[p].todo
                     /\ q.begun = pass[p].begun
<1>1. pass[p] \in PassRecords /\ refreshLock.inode \in Nat /\ {"over", "asking"} \subseteq PassPlaces
  BY DEF RefreshTypes, PassPlaces
<1>2. CASE refreshLock.inode = 0
  <2>1. PICK q \in PassRecords : pass' = [pass EXCEPT ![p] = q] /\ q.at = "over" /\ Cleared(q)
    BY <1>1, <1>2, PassMoves DEF LookAtLock
  <2> QED
    BY <2>1 DEF LookAtLock
<1>3. CASE refreshLock.inode # 0
  <2> DEFINE q == [pass[p] EXCEPT !.at = "asking", !.seen = refreshLock.inode]
  <2>1. pass' = [pass EXCEPT ![p] = q]
    BY <1>3 DEF LookAtLock, RefreshTypes
  <2>2. q \in PassRecords
    BY ZenonT(60), <1>1 DEF PassRecords
  <2>3. /\ q.at = "asking" /\ q.seen = refreshLock.inode /\ q.mine = pass[p].mine /\ q.guards = pass[p].guards
        /\ q.todo = pass[p].todo /\ q.begun = pass[p].begun
    BY <1>1 DEF PassRecords
  <2> QED
    BY <1>3, <2>1, <2>2, <2>3 DEF LookAtLock
<1> QED
  BY <1>2, <1>3

LEMMA AskOwnerActs ==
    ASSUME RefreshTypes, NEW p \in Passes, AskOwner(p)
    PROVE  /\ pass[p].at = "asking" /\ UNCHANGED <<refreshLock, rescue>>
           /\ \E q \in PassRecords :
               /\ pass' = [pass EXCEPT ![p] = q]
               /\ \/ q.at = "over" /\ Cleared(q)
                  \/ q.at = "guarding" /\ Abandoned /\ Alike(q, pass[p])
<1> DEFINE place == IF refreshLock.inode # 0 /\ Abandoned THEN "guarding" ELSE "over"
<1>1. place \in PassPlaces /\ Moves(p, place)
  BY DEF AskOwner, PassPlaces
<1>2. place = "over" \/ (place = "guarding" /\ Abandoned)
  OBVIOUS
<1> HIDE DEF place
<1>3. PICK q \in PassRecords :
        /\ pass' = [pass EXCEPT ![p] = q] /\ q.at = place
        /\ IF place \in {"over", "dead"} THEN Cleared(q) ELSE Alike(q, pass[p])
  BY <1>1, PassMoves
<1> QED
  BY <1>2, <1>3 DEF AskOwner

LEMMA TakeGuardActs ==
    ASSUME RefreshTypes, NEW p \in Passes, TakeGuard(p)
    PROVE  /\ pass[p].at = "guarding" /\ refreshLock' = refreshLock
           /\ \E q \in PassRecords :
               /\ pass' = [pass EXCEPT ![p] = q]
               /\ \/ q.at = "over" /\ Cleared(q) /\ rescue' = rescue
                  \/ /\ q.at = "comparing" /\ ~rescue /\ rescue' /\ q.guards
                     /\ q.mine = pass[p].mine /\ q.seen = pass[p].seen /\ q.todo = pass[p].todo
                     /\ q.begun = pass[p].begun
<1>1. pass[p] \in PassRecords /\ {"over", "comparing"} \subseteq PassPlaces
  BY DEF RefreshTypes, PassPlaces
<1>2. CASE rescue
  <2>1. PICK q \in PassRecords : pass' = [pass EXCEPT ![p] = q] /\ q.at = "over" /\ Cleared(q)
    BY <1>1, <1>2, PassMoves DEF TakeGuard
  <2> QED
    BY <1>2, <2>1 DEF TakeGuard
<1>3. CASE ~rescue
  <2> DEFINE q == [pass[p] EXCEPT !.at = "comparing", !.guards = TRUE]
  <2>1. pass' = [pass EXCEPT ![p] = q] /\ rescue'
    BY <1>3 DEF TakeGuard, RefreshTypes
  <2>2. q \in PassRecords
    BY ZenonT(60), <1>1 DEF PassRecords
  <2>3. /\ q.at = "comparing" /\ q.guards /\ q.mine = pass[p].mine /\ q.seen = pass[p].seen
        /\ q.todo = pass[p].todo /\ q.begun = pass[p].begun
    BY <1>1 DEF PassRecords
  <2> QED
    BY <1>3, <2>1, <2>2, <2>3 DEF TakeGuard
<1> QED
  BY <1>2, <1>3

LEMMA CompareLockActs ==
    ASSUME RefreshTypes, NEW p \in Passes, CompareLock(p)
    PROVE  /\ pass[p].at = "comparing" /\ UNCHANGED <<refreshLock, rescue>>
           /\ \E q \in PassRecords :
               /\ pass' = [pass EXCEPT ![p] = q] /\ Alike(q, pass[p])
               /\ q.at = IF refreshLock.inode = pass[p].seen THEN "moving" ELSE "unguard"
<1> DEFINE place == IF refreshLock.inode = pass[p].seen THEN "moving" ELSE "unguard"
<1>1. place \in PassPlaces /\ Moves(p, place) /\ place \notin {"over", "dead"}
  BY DEF CompareLock, PassPlaces
<1> HIDE DEF place
<1>2. PICK q \in PassRecords : pass' = [pass EXCEPT ![p] = q] /\ q.at = place /\ Alike(q, pass[p])
  BY <1>1, PassMoves
<1> QED
  BY <1>2 DEF CompareLock, place

LEMMA MoveLockActs ==
    ASSUME RefreshTypes, NEW p \in Passes, MoveLock(p)
    PROVE  /\ pass[p].at = "moving" /\ rescue' = rescue
           /\ refreshLock' = [refreshLock EXCEPT !.inode = 0, !.owner = {}]
           /\ \E q \in PassRecords : pass' = [pass EXCEPT ![p] = q] /\ Alike(q, pass[p]) /\ q.at = "again"
<1>1. "again" \in PassPlaces
  BY DEF PassPlaces
<1>2. PICK q \in PassRecords : pass' = [pass EXCEPT ![p] = q] /\ q.at = "again" /\ Alike(q, pass[p])
  BY <1>1, PassMoves DEF MoveLock
<1> QED
  BY <1>2 DEF MoveLock

LEMMA FillLockActs ==
    ASSUME RefreshTypes, NEW p \in Passes, FillLock(p)
    PROVE  /\ pass[p].at = "filling" /\ rescue' = rescue
           /\ refreshLock' = IF refreshLock.inode = pass[p].mine THEN [refreshLock EXCEPT !.owner = {p}]
                             ELSE refreshLock
           /\ \E q \in PassRecords :
               /\ pass' = [pass EXCEPT ![p] = q] /\ Alike(q, pass[p])
               /\ q.at = IF pass[p].guards THEN "unguard" ELSE "loading"
<1> DEFINE place == IF pass[p].guards THEN "unguard" ELSE "loading"
<1>1. place \in PassPlaces /\ Moves(p, place) /\ place \notin {"over", "dead"}
  BY DEF FillLock, PassPlaces
<1> HIDE DEF place
<1>2. PICK q \in PassRecords : pass' = [pass EXCEPT ![p] = q] /\ q.at = place /\ Alike(q, pass[p])
  BY <1>1, PassMoves
<1> QED
  BY <1>2 DEF FillLock, place

LEMMA UnguardActs ==
    ASSUME RefreshTypes, NEW p \in Passes, Unguard(p)
    PROVE  /\ pass[p].at = "unguard" /\ refreshLock' = refreshLock /\ ~rescue'
           /\ \E q \in PassRecords :
               /\ pass' = [pass EXCEPT ![p] = q]
               /\ \/ pass[p].mine = 0 /\ q.at = "over" /\ Cleared(q)
                  \/ /\ pass[p].mine # 0 /\ q.at = "loading" /\ ~q.guards /\ q.mine = pass[p].mine
                     /\ q.todo = pass[p].todo /\ q.begun = pass[p].begun
<1>1. pass[p] \in PassRecords /\ {"over", "loading"} \subseteq PassPlaces
  BY DEF RefreshTypes, PassPlaces
<1>2. CASE pass[p].mine = 0
  <2>1. PICK q \in PassRecords : pass' = [pass EXCEPT ![p] = q] /\ q.at = "over" /\ Cleared(q)
    BY <1>1, <1>2, PassMoves DEF Unguard
  <2> QED
    BY <1>2, <2>1 DEF Unguard
<1>3. CASE pass[p].mine # 0
  <2> DEFINE q == [pass[p] EXCEPT !.at = "loading", !.guards = FALSE]
  <2>1. pass' = [pass EXCEPT ![p] = q]
    BY <1>3 DEF Unguard, RefreshTypes
  <2>2. q \in PassRecords
    BY ZenonT(60), <1>1 DEF PassRecords
  <2>3. /\ q.at = "loading" /\ ~q.guards /\ q.mine = pass[p].mine /\ q.todo = pass[p].todo
        /\ q.begun = pass[p].begun
    BY <1>1 DEF PassRecords
  <2> QED
    BY <1>3, <2>1, <2>2, <2>3 DEF Unguard
<1> QED
  BY <1>2, <1>3

LEMMA ReleaseLockActs ==
    ASSUME RefreshTypes, NEW p \in Passes, ReleaseLock(p)
    PROVE  /\ pass[p].at = "releasing" /\ rescue' = rescue
           /\ refreshLock' = IF refreshLock.inode = pass[p].mine THEN [refreshLock EXCEPT !.inode = 0, !.owner = {}]
                             ELSE refreshLock
           /\ \E q \in PassRecords : pass' = [pass EXCEPT ![p] = q] /\ Cleared(q) /\ q.at = "over"
<1>1. "over" \in PassPlaces
  BY DEF PassPlaces
<1>2. PICK q \in PassRecords : pass' = [pass EXCEPT ![p] = q] /\ q.at = "over" /\ Cleared(q)
  BY <1>1, PassMoves DEF ReleaseLock
<1> QED
  BY <1>2 DEF ReleaseLock

-----------------------------------------------------------------------------
\* A pass at work.

LEMMA MarkTypes ==
    ASSUME NEW r \in Marks
    PROVE  /\ r.attempts \in Nat /\ r.files \in Nat /\ r.origin \in Nat /\ r.waits \in BOOLEAN
           /\ r.unreconciled \in BOOLEAN
           /\ \A s \in Sources : Counted(r, s) \in Nat /\ Counted(r, s) <= r.attempts
BY DEF Marks, Counted

\* The source at hand, and what is known of it.
LEMMA AtHand ==
    ASSUME RefreshTypes, NEW p \in Passes, pass[p].todo # <<>>
    PROVE  /\ Source(p) \in Sources /\ Source(p) = Head(pass[p].todo) /\ Tail(pass[p].todo) \in Seq(Sources)
           /\ Prior(p) \in Marks /\ Prior(p) = pass[p].plan[Source(p)] /\ world[Source(p)] \in SourceRecords
           /\ world[Source(p)].files \in Nat /\ world[Source(p)].origin \in Nat
           /\ pass[p] \in PassRecords /\ pass[p].plan \in [Sources -> Marks] /\ pass[p].files \in Nat
<1>1. pass[p] \in PassRecords
  BY DEF RefreshTypes
<1>2. pass[p].todo \in Seq(Sources) /\ pass[p].plan \in [Sources -> Marks] /\ pass[p].files \in Nat
  BY <1>1 DEF PassRecords
<1>3. Source(p) \in Sources /\ Tail(pass[p].todo) \in Seq(Sources)
  BY <1>2, TodoFacts DEF Source
<1>4. world[Source(p)] \in SourceRecords
  BY <1>3 DEF RefreshTypes
<1> QED
  BY <1>1, <1>2, <1>3, <1>4 DEF Source, Prior, SourceRecords

LEMMA LoadStateActs ==
    ASSUME RefreshTypes, NEW p \in Passes, LoadState(p)
    PROVE  /\ pass[p].at = "loading" /\ UNCHANGED <<refreshLock, rescue, refreshState, world, tried, lost>>
           /\ \E q \in PassRecords :
               /\ pass' = [pass EXCEPT ![p] = q] /\ q.at = "source" /\ q.plan = refreshState
               /\ q.mine = pass[p].mine /\ q.guards = pass[p].guards /\ q.begun = pass[p].begun
<1> DEFINE q == [pass[p] EXCEPT !.at = "source", !.todo = Enrolled, !.plan = refreshState]
<1>1. pass[p] \in PassRecords /\ refreshState \in [Sources -> Marks] /\ "source" \in PassPlaces
  BY DEF RefreshTypes, PassPlaces
<1>2. pass' = [pass EXCEPT ![p] = q]
  BY DEF LoadState, RefreshTypes
<1>3. q \in PassRecords
  BY ZenonT(60), <1>1, SourcesFacts DEF PassRecords
<1>4. /\ q.at = "source" /\ q.plan = refreshState /\ q.mine = pass[p].mine /\ q.guards = pass[p].guards
      /\ q.begun = pass[p].begun
  BY <1>1 DEF PassRecords
<1> QED
  BY <1>2, <1>3, <1>4 DEF LoadState

\* What a pass notes of a source that was not rebuilt counts no less than before.
LeftWith(q, p, r, place) ==
    /\ q.at = place /\ q.plan = [pass[p].plan EXCEPT ![Source(p)] = r] /\ q.todo = Tail(pass[p].todo)
    /\ q.mine = pass[p].mine /\ q.guards = pass[p].guards /\ q.begun = pass[p].begun

LEMMA RenewedFacts ==
    ASSUME NEW r \in Marks, NEW s \in Sources, world[s].origin \in Nat
    PROVE  /\ Renewed(r, s) \in Marks /\ Counted(r, s) <= Counted(Renewed(r, s), s)
           /\ ~(Renewed(r, s).unreconciled /\ Renewed(r, s).origin # world[s].origin)
<1>1. CASE r.unreconciled /\ r.origin # world[s].origin
  <2>1. Renewed(r, s) = Untried /\ Counted(r, s) = 0
    BY <1>1 DEF Renewed, Counted
  <2> QED
    BY <2>1, UntriedFacts, MarkTypes
<1>2. CASE ~(r.unreconciled /\ r.origin # world[s].origin)
  <2>1. Renewed(r, s) = r
    BY <1>2 DEF Renewed
  <2> QED
    BY <1>2, <2>1, MarkTypes
<1> QED
  BY <1>1, <1>2

\* A record that counts no attempts less, and does not speak of older files.
LEMMA CountsOn ==
    ASSUME NEW r \in Marks, NEW e \in Marks, NEW s \in Sources, world[s].origin \in Nat,
           e.files = 0, e.attempts >= Renewed(r, s).attempts, e.unreconciled => e.origin = world[s].origin
    PROVE  Counted(r, s) <= Counted(e, s)
<1>1. Counted(r, s) <= Counted(Renewed(r, s), s) /\ Renewed(r, s) \in Marks
  BY RenewedFacts
<1>2. Counted(Renewed(r, s), s) <= Renewed(r, s).attempts
  BY <1>1, MarkTypes
<1>3. Counted(e, s) = e.attempts
  BY DEF Counted
<1>4. Counted(r, s) \in Nat /\ Counted(Renewed(r, s), s) \in Nat /\ Renewed(r,
    s).attempts \in Nat /\ e.attempts \in Nat
  BY <1>1, MarkTypes
<1> QED
  BY <1>1, <1>2, <1>3, <1>4

ReconcileLeaves(p, q) ==
    /\ UNCHANGED <<world, tried, strays>>
    /\ \E r \in Marks : LeftWith(q, p, r, "source") /\ Counted(Prior(p), Source(p)) <= Counted(r, Source(p))

ReconcileLooks(p, q) ==
    /\ UNCHANGED <<world, tried, strays>>
    /\ q.at = "looked" /\ q.files = world[Source(p)].files /\ q.todo = pass[p].todo
    /\ q.mine = pass[p].mine /\ q.guards = pass[p].guards /\ q.begun = pass[p].begun
    /\ \E r \in Marks : /\ q.plan = [pass[p].plan EXCEPT ![Source(p)] = r]
                        /\ Counted(Prior(p), Source(p)) <= Counted(r, Source(p))
                        /\ ~(r.unreconciled /\ r.origin # world[Source(p)].origin)

ReconcileDone(p, q) ==
    /\ \E w \in SourceRecords :
         /\ world' = [world EXCEPT ![Source(p)] = w] /\ w.files = world[Source(p)].files + 1
         /\ w.graph <= w.files /\ w.receipt.files = w.files /\ w.receipt.graph = w.graph
         /\ \/ w.graph = w.files /\ strays' = strays \ {Source(p)}
            \/ strays' = strays \cup {Source(p)}
    /\ tried' = [tried EXCEPT ![Source(p)].times = 0]
    /\ \E r \in Marks : LeftWith(q, p, r, "saving")

LEMMA ReconcileActs ==
    ASSUME RefreshTypes, NEW p \in Passes, Reconcile(p)
    PROVE  /\ pass[p].at = "source" /\ pass[p].todo # <<>> /\ UNCHANGED <<refreshLock, rescue, refreshState, lost>>
           /\ \E q \in PassRecords :
               /\ pass' = [pass EXCEPT ![p] = q]
               /\ ReconcileLeaves(p, q) \/ ReconcileLooks(p, q) \/ ReconcileDone(p, q)
<1> DEFINE s == Source(p)
           i == pass[p]
           r == Renewed(Prior(p), s)
           once == [pass EXCEPT ![p].used = @ + 1, ![p].todo = Tail(@)]
           o == [pass[p] EXCEPT !.used = @ + 1, !.todo = Tail(@)]
<1>1. i.at = "source" /\ i.todo # <<>> /\ UNCHANGED <<refreshLock, rescue, refreshState, lost>>
  BY DEF Reconcile
<1>2. /\ s \in Sources /\ Tail(i.todo) \in Seq(Sources) /\ Prior(p) \in Marks /\ i \in PassRecords
      /\ i.plan \in [Sources -> Marks] /\ world[s] \in SourceRecords /\ world[s].origin \in Nat
      /\ world[s].files \in Nat
  BY <1>1, AtHand
<1>3. r \in Marks /\ Counted(Prior(p), s) <= Counted(r, s) /\ ~(r.unreconciled /\ r.origin # world[s].origin)
  BY <1>2, RenewedFacts
<1>4. {"source", "looked", "saving"} \subseteq PassPlaces /\ r.attempts \in Nat /\ i.used + 1 \in Nat
  <2>1. r.attempts \in Nat
    BY <1>3, MarkTypes
  <2>2. i.used + 1 \in Nat
    BY <1>2 DEF PassRecords
  <2> QED
    BY <2>1, <2>2 DEF PassPlaces
<1>13. /\ o \in PassRecords /\ once = [pass EXCEPT ![p] = o]
       /\ o.plan = i.plan /\ o.at = i.at /\ o.todo = Tail(i.todo) /\ o.begun = i.begun /\ o.mine = i.mine
       /\ o.guards = i.guards
  <2>1. o \in PassRecords
    BY ZenonT(60), <1>2, <1>4 DEF PassRecords
  <2>2. once = [pass EXCEPT ![p] = o]
    BY DEF RefreshTypes
  <2>3. /\ o.plan = i.plan /\ o.at = i.at /\ o.todo = Tail(i.todo) /\ o.begun = i.begun /\ o.mine = i.mine
        /\ o.guards = i.guards
    BY <1>2 DEF PassRecords
  <2> QED
    BY <2>1, <2>2, <2>3
<1>14. DOMAIN pass = Passes /\ DOMAIN once = Passes /\ once[p] = o /\ \A x \in Passes \ {p} : once[x] = pass[x]
  BY <1>13 DEF RefreshTypes
<1>5. tried' = IF world' # world THEN [tried EXCEPT ![s].times = 0] ELSE tried
  BY DEF Reconcile
<1>6. ASSUME NEW e \in Marks, Counted(Prior(p), s) <= Counted(e, s), Leave(p, e, "source"), UNCHANGED <<world, strays>>
      PROVE  \E q \in PassRecords : pass' = [pass EXCEPT ![p] = q] /\ ReconcileLeaves(p, q)
  <2>1. PICK q \in PassRecords : pass' = [pass EXCEPT ![p] = q] /\ LeftWith(q, p, e, "source")
    BY <1>1, <1>4, <1>6, PassLeaves DEF LeftWith
  <2> QED
    BY <1>5, <1>6, <2>1 DEF ReconcileLeaves
<1>7. CASE HeldBack(p, r, s) /\ Leave(p, Prior(p), "source") /\ UNCHANGED <<world, strays>>
  <2>1. Counted(Prior(p), s) <= Counted(Prior(p), s)
    BY <1>2, MarkTypes
  <2> QED
    BY <1>1, <1>2, <1>6, <1>7, <2>1
<1>8. CASE /\ Leave(p, [Untried EXCEPT !.attempts = r.attempts, !.origin = world[s].origin], "source")
           /\ UNCHANGED <<world, strays>>
  <2> DEFINE e == [Untried EXCEPT !.attempts = r.attempts, !.origin = world[s].origin]
  <2>1. e \in Marks /\ e.files = 0 /\ e.attempts = r.attempts /\ ~e.unreconciled
    BY <1>2, <1>4 DEF Untried, Marks
  <2> HIDE DEF e
  <2>2. Counted(Prior(p), s) <= Counted(e, s)
    BY <1>2, <1>4, <2>1, CountsOn
  <2> QED
    BY <1>1, <1>6, <1>8, <2>1, <2>2 DEF e
<1>9. ASSUME NEW again \in BOOLEAN, UNCHANGED <<world, strays>>,
             pass' = [once EXCEPT ![p].plan[s] =
                       [attempts |-> r.attempts + (IF again THEN 1 ELSE 0), files |-> 0, waits |-> again,
                        unreconciled |-> again, origin |-> world[s].origin]]
      PROVE  \E q \in PassRecords : pass' = [pass EXCEPT ![p] = q] /\ ReconcileLeaves(p, q)
  <2> HIDE DEF o, once
  <2> DEFINE e == [attempts |-> r.attempts + (IF again THEN 1 ELSE 0), files |-> 0, waits |-> again,
                   unreconciled |-> again, origin |-> world[s].origin]
             plan == [i.plan EXCEPT ![s] = e]
             q == [o EXCEPT !.plan = plan]
             more == IF again THEN 1 ELSE 0
  <2>1. e \in Marks /\ e.files = 0 /\ e.attempts >= r.attempts /\ (e.unreconciled => e.origin = world[s].origin)
    <3>1. more \in Nat /\ r.attempts + more \in Nat /\ r.attempts + more >= r.attempts
      BY <1>4
    <3> HIDE DEF more
    <3>2. [attempts |-> r.attempts + more, files |-> 0, waits |-> again, unreconciled |-> again,
           origin |-> world[s].origin] \in Marks
      BY <1>2, <3>1 DEF Marks
    <3> QED
      BY <3>1, <3>2 DEF more
  <2> HIDE DEF e
  <2>2. pass' = [pass EXCEPT ![p] = q]
    <3>1. pass' = [once EXCEPT ![p].plan[s] = e]
      BY <1>9 DEF e
    <3>2. [once EXCEPT ![p].plan[s] = e] = [pass EXCEPT ![p] = [o EXCEPT !.plan = [o.plan EXCEPT ![s] = e]]]
      BY <1>14
    <3> QED
      BY <1>13, <3>1, <3>2
  <2>3. plan \in [Sources -> Marks]
    BY <1>2, <2>1
  <2> HIDE DEF plan
  <2>4. q \in PassRecords
    BY ZenonT(60), <1>13, <2>3 DEF PassRecords
  <2>5. /\ q.at = i.at /\ q.plan = plan /\ q.todo = Tail(i.todo) /\ q.begun = i.begun /\ q.mine = i.mine
        /\ q.guards = i.guards
    BY <1>13 DEF PassRecords
  <2>6. Counted(Prior(p), s) <= Counted(e, s)
    BY <1>2, <2>1, CountsOn
  <2> HIDE DEF q
  <2>7. LeftWith(q, p, e, "source")
    BY <1>1, <2>5 DEF LeftWith, plan
  <2> QED
    BY <1>5, <1>9, <2>1, <2>2, <2>4, <2>6, <2>7 DEF ReconcileLeaves
<1>10. ASSUME NEW g \in {world[s].files + 1} \cup Writable(s, world[s].files + 1),
              LET n == world[s].files + 1 IN
                world' = [world EXCEPT ![s] = [files |-> n, origin |-> @.origin, stands |-> @.origin, graph |-> g,
                                               receipt |-> [files |-> n, graph |-> g]]],
              strays' = IF g = world[s].files + 1 THEN strays \ {s} ELSE strays \cup {s},
              pass' = [once EXCEPT ![p].plan[s] = [Untried EXCEPT !.files = world'[s].files], ![p].at = "saving"]
       PROVE  \E q \in PassRecords : pass' = [pass EXCEPT ![p] = q] /\ ReconcileDone(p, q)
  <2> HIDE DEF o, once
  <2> DEFINE n == world[s].files + 1
             w == [files |-> n, origin |-> world[s].origin, stands |-> world[s].origin, graph |-> g,
                   receipt |-> [files |-> n, graph |-> g]]
             e == [Untried EXCEPT !.files = n]
             plan == [i.plan EXCEPT ![s] = e]
             q == [o EXCEPT !.plan = plan, !.at = "saving"]
  <2>1. /\ w \in SourceRecords /\ w.files = n /\ w.graph = g /\ w.graph <= w.files
        /\ w.receipt.files = w.files /\ w.receipt.graph = w.graph
        /\ world' = [world EXCEPT ![s] = w]
    <3>1. n \in Nat /\ world[s].origin \in Nat
      BY <1>2
    <3>2. orphans[s] \subseteq Nat
      BY <1>2 DEF RefreshTypes, ToolTypes
    <3>3. g \in Nat /\ g <= n
      BY <1>10, <3>1, <3>2 DEF Writable
    <3>4. world' = [world EXCEPT ![s] = w]
      BY <1>10
    <3> HIDE DEF n
    <3> QED
      BY <3>1, <3>3, <3>4 DEF SourceRecords
  <2>9. (w.graph = w.files /\ strays' = strays \ {s}) \/ strays' = strays \cup {s}
    BY <1>10, <2>1
  <2> HIDE DEF w
  <2>2. world'[s] = w /\ world' # world
    BY <1>2, <2>1 DEF RefreshTypes
  <2>3. e \in Marks
    <3>1. n \in Nat
      BY <1>2
    <3> HIDE DEF n
    <3> QED
      BY <3>1 DEF Untried, Marks
  <2>4. pass' = [pass EXCEPT ![p] = q]
    <3>1. world'[s].files = n
      BY <2>1, <2>2
    <3>2. pass' = [once EXCEPT ![p].plan[s] = e, ![p].at = "saving"]
      BY <1>10, <3>1
    <3> HIDE DEF e
    <3> QED
      <4>1. [once EXCEPT ![p].plan[s] = e, ![p].at = "saving"] =
              [pass EXCEPT ![p] = [o EXCEPT !.plan = [o.plan EXCEPT ![s] = e], !.at = "saving"]]
        BY <1>14
      <4> QED
        BY <1>13, <3>2, <4>1
  <2> HIDE DEF e
  <2>5. plan \in [Sources -> Marks]
    BY <1>2, <2>3
  <2> HIDE DEF plan
  <2>6. q \in PassRecords
    BY ZenonT(60), <1>4, <1>13, <2>5 DEF PassRecords
  <2>7. /\ q.at = "saving" /\ q.plan = plan /\ q.todo = Tail(i.todo) /\ q.begun = i.begun /\ q.mine = i.mine
        /\ q.guards = i.guards
    BY <1>13 DEF PassRecords
  <2> HIDE DEF q
  <2>8. LeftWith(q, p, e, "saving")
    BY <2>7 DEF LeftWith, plan
  <2> QED
    BY <1>5, <2>1, <2>2, <2>3, <2>4, <2>6, <2>8, <2>9 DEF ReconcileDone
<1>11. ASSUME pass' = [pass EXCEPT ![p].at = "looked", ![p].plan[s] = r, ![p].files = world[s].files],
              UNCHANGED <<world, strays>>
       PROVE  \E q \in PassRecords : pass' = [pass EXCEPT ![p] = q] /\ ReconcileLooks(p, q)
  <2> DEFINE plan == [i.plan EXCEPT ![s] = r]
             q == [i EXCEPT !.at = "looked", !.plan = plan, !.files = world[s].files]
  <2> HIDE DEF r
  <2>1. pass' = [pass EXCEPT ![p] = q]
    BY ZenonT(60), <1>2, <1>11 DEF RefreshTypes
  <2>2. plan \in [Sources -> Marks]
    BY <1>2, <1>3
  <2> HIDE DEF plan
  <2>3. q \in PassRecords
    BY ZenonT(60), <1>2, <1>4, <2>2 DEF PassRecords
  <2>4. /\ q.at = "looked" /\ q.plan = plan /\ q.todo = i.todo /\ q.begun = i.begun /\ q.mine = i.mine
        /\ q.guards = i.guards /\ q.files = world[s].files
    BY <1>2 DEF PassRecords
  <2> HIDE DEF q
  <2> QED
    BY <1>3, <1>5, <1>11, <2>1, <2>3, <2>4 DEF ReconcileLooks, plan
<1>12. \/ HeldBack(p, r, s) /\ Leave(p, Prior(p), "source") /\ UNCHANGED <<world, strays>>
       \/ /\ Leave(p, [Untried EXCEPT !.attempts = r.attempts, !.origin = world[s].origin], "source")
          /\ UNCHANGED <<world, strays>>
       \/ /\ UNCHANGED <<world, strays>>
          /\ \E again \in BOOLEAN :
               pass' = [once EXCEPT ![p].plan[s] =
                         [attempts |-> r.attempts + (IF again THEN 1 ELSE 0), files |-> 0, waits |-> again,
                          unreconciled |-> again, origin |-> world[s].origin]]
       \/ /\ \E g \in {world[s].files + 1} \cup Writable(s, world[s].files + 1) :
               /\ LET n == world[s].files + 1 IN
                  world' = [world EXCEPT ![s] = [files |-> n, origin |-> @.origin, stands |-> @.origin, graph |-> g,
                                                 receipt |-> [files |-> n, graph |-> g]]]
               /\ strays' = IF g = world[s].files + 1 THEN strays \ {s} ELSE strays \cup {s}
          /\ pass' = [once EXCEPT ![p].plan[s] = [Untried EXCEPT !.files = world'[s].files], ![p].at = "saving"]
       \/ /\ pass' = [pass EXCEPT ![p].at = "looked", ![p].plan[s] = r, ![p].files = world[s].files]
          /\ UNCHANGED <<world, strays>>
  BY DEF Reconcile
<1> HIDE DEF r, once, o
<1> QED
  BY <1>1, <1>7, <1>8, <1>9, <1>10, <1>11, <1>12

LEMMA FingerprintActs ==
    ASSUME RefreshTypes, NEW p \in Passes, Fingerprint(p)
    PROVE  /\ pass[p].at = "source" /\ pass[p].todo # <<>>
           /\ UNCHANGED <<refreshLock, rescue, refreshState, lost, world, tried>> /\ Source(p) \notin Reconciling
           /\ \E q \in PassRecords :
               /\ pass' = [pass EXCEPT ![p] = q] /\ q.at = "looked" /\ q.files = world[Source(p)].files
               /\ q.todo = pass[p].todo /\ q.plan = pass[p].plan
               /\ q.mine = pass[p].mine /\ q.guards = pass[p].guards /\ q.begun = pass[p].begun
<1>1. pass[p].todo # <<>>
  BY DEF Fingerprint
<1>2. pass[p] \in PassRecords /\ world[Source(p)].files \in Nat /\ "looked" \in PassPlaces
  BY <1>1, AtHand DEF PassPlaces
<1> DEFINE q == [pass[p] EXCEPT !.at = "looked", !.files = world[Source(p)].files]
<1>3. pass' = [pass EXCEPT ![p] = q]
  BY DEF Fingerprint, RefreshTypes
<1>4. q \in PassRecords
  BY ZenonT(60), <1>2 DEF PassRecords
<1>5. /\ q.at = "looked" /\ q.files = world[Source(p)].files /\ q.todo = pass[p].todo /\ q.plan = pass[p].plan
      /\ q.mine = pass[p].mine /\ q.guards = pass[p].guards /\ q.begun = pass[p].begun
  BY <1>2 DEF PassRecords
<1> HIDE DEF q
<1> QED
  BY <1>3, <1>4, <1>5 DEF Fingerprint

LEMMA AttemptsFacts ==
    ASSUME RefreshTypes, NEW p \in Passes, pass[p].todo # <<>>
    PROVE  /\ Attempts(p) = AttemptsAt(Prior(p), pass[p].files) /\ Attempts(p) \in Nat
           /\ Noted(p) \in Marks /\ Noted(p).files = pass[p].files /\ Noted(p).attempts = Attempts(p)
           /\ ~Noted(p).unreconciled
           /\ [Untried EXCEPT !.files = pass[p].files] \in Marks
<1>1. Prior(p) \in Marks /\ pass[p].files \in Nat
  BY AtHand
<1>2. Attempts(p) = AttemptsAt(Prior(p), pass[p].files) /\ Attempts(p) \in Nat
  BY <1>1, MarkTypes DEF Attempts, AttemptsAt
<1>3. /\ Noted(p) \in Marks /\ Noted(p).files = pass[p].files /\ Noted(p).attempts = Attempts(p)
      /\ ~Noted(p).unreconciled
  BY <1>1, <1>2 DEF Noted, Untried, Marks
<1>4. [Untried EXCEPT !.files = pass[p].files] \in Marks
  BY <1>1 DEF Untried, Marks
<1> QED
  BY <1>2, <1>3, <1>4

RefreshLeaves(p, q) ==
    \/ tried' = tried /\ LeftWith(q, p, Prior(p), "source")
    \/ tried' = tried /\ LeftWith(q, p, Noted(p), "source")
    \/ /\ tried' = [tried EXCEPT ![Source(p)].times = 0]
       /\ \E r \in Marks : LeftWith(q, p, r, "source")

RefreshTries(p, q) ==
    /\ Attempts(p) < MaxAttempts
    /\ q.at = "sync" /\ q.plan = [pass[p].plan EXCEPT ![Source(p)] = Noted(p)] /\ q.todo = pass[p].todo
    /\ q.files = pass[p].files /\ q.begun = pass[p].begun \cup {Source(p)}
    /\ q.mine = pass[p].mine /\ q.guards = pass[p].guards
    /\ tried' = [tried EXCEPT ![Source(p)] =
         [files |-> pass[p].files, times |-> IF @.files = pass[p].files THEN @.times + 1 ELSE 1]]

LEMMA RefreshActs ==
    ASSUME RefreshTypes, NEW p \in Passes, Refresh(p), pass[p].todo # <<>>
    PROVE  /\ pass[p].at = "looked" /\ UNCHANGED <<refreshLock, rescue, refreshState, lost, world>>
           /\ \E q \in PassRecords : pass' = [pass EXCEPT ![p] = q] /\ (RefreshLeaves(p, q) \/ RefreshTries(p, q))
<1> DEFINE s == Source(p)
           i == pass[p]
<1>1. /\ s \in Sources /\ Prior(p) \in Marks /\ i \in PassRecords /\ i.plan \in [Sources -> Marks]
      /\ Noted(p) \in Marks /\ [Untried EXCEPT !.files = i.files] \in Marks
  BY AtHand, AttemptsFacts
<1>2. {"source", "sync"} \subseteq PassPlaces /\ i.used + 1 \in Nat /\ i.begun \cup {s} \in SUBSET Sources
  BY <1>1 DEF PassPlaces, PassRecords
<1>3. ASSUME NEW r \in Marks, Leave(p, r, "source")
      PROVE  \E q \in PassRecords : pass' = [pass EXCEPT ![p] = q] /\ LeftWith(q, p, r, "source")
  BY <1>2, <1>3, PassLeaves DEF LeftWith
<1>4. CASE Leave(p, Prior(p), "source") /\ UNCHANGED tried
  BY <1>1, <1>3, <1>4 DEF RefreshLeaves, Refresh
<1>5. CASE Leave(p, Noted(p), "source") /\ UNCHANGED tried
  BY <1>1, <1>3, <1>5 DEF RefreshLeaves, Refresh
<1>6. CASE Leave(p, [Untried EXCEPT !.files = i.files], "source") /\ tried' = [tried EXCEPT ![s].times = 0]
  <2>1. PICK q \in PassRecords :
          pass' = [pass EXCEPT ![p] = q] /\ LeftWith(q, p, [Untried EXCEPT !.files = i.files], "source")
    BY <1>1, <1>3, <1>6
  <2> QED
    BY <1>1, <1>6, <2>1 DEF RefreshLeaves, Refresh
<1>7. CASE /\ Attempts(p) < MaxAttempts
           /\ pass' = [pass EXCEPT ![p].at = "sync", ![p].plan[s] = Noted(p),
                                   ![p].used = @ + 1, ![p].begun = @ \cup {s}]
           /\ tried' = [tried EXCEPT ![s] = [files |-> i.files,
                                            times |-> IF @.files = i.files THEN @.times + 1 ELSE 1]]
  <2> DEFINE plan == [i.plan EXCEPT ![s] = Noted(p)]
             q == [i EXCEPT !.at = "sync", !.plan = plan, !.used = @ + 1, !.begun = @ \cup {s}]
  <2>1. pass' = [pass EXCEPT ![p] = q]
    BY ZenonT(60), <1>1, <1>7 DEF RefreshTypes
  <2>2. plan \in [Sources -> Marks]
    BY <1>1
  <2> HIDE DEF plan
  <2>3. q \in PassRecords
    BY ZenonT(60), <1>1, <1>2, <2>2 DEF PassRecords
  <2>4. /\ q.at = "sync" /\ q.plan = plan /\ q.todo = i.todo /\ q.files = i.files /\ q.begun = i.begun \cup {s}
        /\ q.mine = i.mine /\ q.guards = i.guards
    BY <1>1 DEF PassRecords
  <2> HIDE DEF q
  <2>5. RefreshTries(p, q)
    BY <1>7, <2>4 DEF RefreshTries, plan
  <2> QED
    BY <2>1, <2>3, <2>5 DEF Refresh
<1> QED
  BY <1>4, <1>5, <1>6, <1>7 DEF Refresh

LEMMA SaveStateActs ==
    ASSUME RefreshTypes, NEW p \in Passes, SaveState(p)
    PROVE  /\ pass[p].at \in {"saving", "source"} /\ UNCHANGED <<refreshLock, rescue, world, tried, lost>>
           /\ refreshState' = pass[p].plan
           /\ \E q \in PassRecords :
               /\ pass' = [pass EXCEPT ![p] = q] /\ q.at = (IF pass[p].at = "saving" THEN "source" ELSE "releasing")
               /\ q.plan = pass[p].plan /\ q.todo = pass[p].todo /\ q.begun = {}
               /\ q.mine = pass[p].mine /\ q.guards = pass[p].guards
<1>1. pass[p] \in PassRecords /\ {"source", "releasing"} \subseteq PassPlaces
  BY DEF RefreshTypes, PassPlaces
<1> DEFINE place == IF pass[p].at = "saving" THEN "source" ELSE "releasing"
           q == [pass[p] EXCEPT !.at = place, !.begun = {}]
<1>2. pass' = [pass EXCEPT ![p] = q] /\ place \in PassPlaces
  BY <1>1 DEF SaveState, RefreshTypes
<1> HIDE DEF place
<1>3. q \in PassRecords
  BY ZenonT(60), <1>1, <1>2 DEF PassRecords
<1>4. /\ q.at = place /\ q.plan = pass[p].plan /\ q.todo = pass[p].todo /\ q.begun = {}
      /\ q.mine = pass[p].mine /\ q.guards = pass[p].guards
  BY <1>1 DEF PassRecords
<1> HIDE DEF q
<1> QED
  BY <1>2, <1>3, <1>4 DEF SaveState, place

LEMMA ForgottenFacts ==
    ASSUME RefreshTypes, NEW p \in Passes, Forgotten(p)
    PROVE  /\ lost' \in [Sources -> Nat]
           /\ \A s \in Sources : lost'[s] >= lost[s] /\ (s \in pass[p].begun => lost'[s] = lost[s] + 1)
<1>1. \A s \in Sources : lost'[s] = lost[s] + (IF s \in pass[p].begun THEN 1 ELSE 0) /\ lost[s] \in Nat
  BY DEF Forgotten, RefreshTypes
<1>2. lost' = [s \in Sources |-> lost[s] + (IF s \in pass[p].begun THEN 1 ELSE 0)]
  BY DEF Forgotten
<1> QED
  BY <1>1, <1>2

LEMMA GivesUpActs ==
    ASSUME RefreshTypes, NEW p \in Passes, WriteFails(p) \/ PassDies(p)
    PROVE  /\ UNCHANGED <<refreshLock, rescue, refreshState, world, tried>> /\ Forgotten(p)
           /\ pass[p].at \notin {"idle", "over", "dead"}
           /\ \E q \in PassRecords :
               /\ pass' = [pass EXCEPT ![p] = q]
               /\ \/ pass[p].at \in {"source", "saving"} /\ q.at = "releasing" /\ Alike(q, pass[p])
                  \/ q.at = "dead" /\ Cleared(q)
<1>1. {"releasing", "dead"} \subseteq PassPlaces
  BY DEF PassPlaces
<1>2. CASE WriteFails(p)
  <2>1. PICK q \in PassRecords : pass' = [pass EXCEPT ![p] = q] /\ q.at = "releasing" /\ Alike(q, pass[p])
    BY <1>1, <1>2, PassMoves DEF WriteFails
  <2> QED
    BY <1>2, <2>1 DEF WriteFails
<1>3. CASE PassDies(p)
  <2>1. PICK q \in PassRecords : pass' = [pass EXCEPT ![p] = q] /\ q.at = "dead" /\ Cleared(q)
    BY <1>1, <1>3, PassMoves DEF PassDies
  <2> QED
    BY <1>3, <2>1 DEF PassDies
<1> QED
  BY <1>2, <1>3

-----------------------------------------------------------------------------
\* A rebuilding.

\* It is over for p: a pass notes what came of it.
EndsAs(p, q, well) ==
    \/ pass[p].todo = <<>> /\ q.at = "over" /\ Cleared(q) /\ tried' = tried
    \/ /\ pass[p].todo # <<>> /\ ~well /\ tried' = tried
       /\ \E r \in Marks :
            /\ LeftWith(q, p, r, "saving")
            /\ r.attempts = Prior(p).attempts + 1 /\ r.files = Prior(p).files /\ r.unreconciled = Prior(p).unreconciled
    \/ /\ pass[p].todo # <<>> /\ well /\ tried' = [tried EXCEPT ![Source(p)].times = 0]
       /\ \E r \in Marks : LeftWith(q, p, r, "saving")

LEMMA EndsActs ==
    ASSUME RefreshTypes, NEW p \in Passes, NEW well \in BOOLEAN, Ends(p, well)
    PROVE  \E q \in PassRecords : pass' = [pass EXCEPT ![p] = q] /\ EndsAs(p, q, well)
<1>1. {"over", "saving"} \subseteq PassPlaces
  BY DEF PassPlaces
<1>2. CASE pass[p].todo = <<>>
  <2>1. Moves(p, "over") /\ tried' = tried
    BY <1>2 DEF Ends, ByHand
  <2>2. PICK q \in PassRecords : pass' = [pass EXCEPT ![p] = q] /\ q.at = "over" /\ Cleared(q)
    BY <1>1, <2>1, PassMoves
  <2> QED
    BY <1>2, <2>1, <2>2 DEF EndsAs
<1>3. CASE pass[p].todo # <<>> /\ ~well
  <2> DEFINE r == [Prior(p) EXCEPT !.attempts = @ + 1, !.waits = TRUE]
  <2>1. Leave(p, r, "saving") /\ tried' = tried
    BY <1>3 DEF Ends, ByHand, SyncFails
  <2>2. /\ r \in Marks /\ r.attempts = Prior(p).attempts + 1 /\ r.files = Prior(p).files
        /\ r.unreconciled = Prior(p).unreconciled
    <3>1. Prior(p) \in Marks
      BY <1>3, AtHand
    <3>2. Prior(p).attempts + 1 \in Nat
      BY <3>1, MarkTypes
    <3>3. r \in Marks
      BY ZenonT(60), <3>1, <3>2 DEF Marks
    <3> QED
      BY <3>1, <3>3 DEF Marks
  <2> HIDE DEF r
  <2>3. PICK q \in PassRecords : pass' = [pass EXCEPT ![p] = q] /\ LeftWith(q, p, r, "saving")
    BY <1>1, <1>3, <2>1, <2>2, PassLeaves DEF LeftWith
  <2> QED
    BY <1>3, <2>1, <2>2, <2>3 DEF EndsAs
<1>4. CASE pass[p].todo # <<>> /\ well
  <2> DEFINE r == [Untried EXCEPT !.files = pass[p].files]
  <2>1. Leave(p, r, "saving") /\ tried' = [tried EXCEPT ![Source(p)].times = 0]
    BY <1>4 DEF Ends, ByHand
  <2>2. r \in Marks
    BY <1>4, AttemptsFacts
  <2> HIDE DEF r
  <2>3. PICK q \in PassRecords : pass' = [pass EXCEPT ![p] = q] /\ LeftWith(q, p, r, "saving")
    BY <1>1, <1>4, <2>1, <2>2, PassLeaves DEF LeftWith
  <2> QED
    BY <1>4, <2>1, <2>2, <2>3 DEF EndsAs
<1> QED
  BY <1>2, <1>3, <1>4

LEMMA TargetFacts ==
    ASSUME RefreshTypes, NEW p \in Passes
    PROVE  /\ Target(p) = TargetOf(pass[p]) /\ Target(p) \in Sources
           /\ world[Target(p)] \in SourceRecords
<1>1. pass[p].todo \in Seq(Sources)
  BY DEF RefreshTypes, PassRecords
<1>2. Target(p) = TargetOf(pass[p]) /\ Target(p) \in Sources
  BY <1>1, SourcesFacts, TodoFacts DEF Target, TargetOf, ByHand, Source
<1> QED
  BY <1>2 DEF RefreshTypes

\* The source that is rebuilt keeps its files.
Rewrites(p, w) ==
    /\ w \in SourceRecords /\ world' = [world EXCEPT ![Target(p)] = w]
    /\ w.files = world[Target(p)].files /\ w.origin = world[Target(p)].origin

LEMMA BeginSyncActs ==
    ASSUME RefreshTypes, NEW p \in Passes, BeginSync(p)
    PROVE  /\ pass[p].at \in {"sync", "idle"} /\ UNCHANGED <<refreshLock, rescue, refreshState, lost>>
           /\ \E q \in PassRecords :
               /\ pass' = [pass EXCEPT ![p] = q]
               /\ \/ EndsAs(p, q, FALSE) /\ UNCHANGED <<world, builder, strays>>
                  \/ /\ q.at = "building" /\ q.seen = world[Target(p)].files /\ q.todo = pass[p].todo
                     /\ q.plan = pass[p].plan /\ q.files = pass[p].files /\ q.begun = pass[p].begun
                     /\ q.mine = pass[p].mine /\ q.guards = pass[p].guards /\ tried' = tried
                     /\ \E w : /\ Rewrites(p, w) /\ w.graph = world[Target(p)].graph
                               /\ w.receipt.files = w.receipt.graph
                     /\ strays' = strays \ {Target(p)} /\ builder' = [builder EXCEPT ![Target(p)] = {p}]
                     /\ \A x \in builder[Target(p)] : ~Alive(x)
<1> DEFINE s == Target(p)
<1>1. s \in Sources /\ world[s] \in SourceRecords /\ pass[p] \in PassRecords /\ world[s].files \in Nat
      /\ "building" \in PassPlaces
  BY TargetFacts DEF RefreshTypes, SourceRecords, PassPlaces
<1>2. CASE \E x \in builder[s] : Alive(x)
  <2>1. Ends(p, FALSE) /\ UNCHANGED <<world, builder, strays>>
    BY <1>2 DEF BeginSync
  <2> QED
    BY <2>1, EndsActs DEF BeginSync
<1>3. CASE ~\E x \in builder[s] : Alive(x)
  <2> DEFINE q == [pass[p] EXCEPT !.at = "building", !.seen = world[s].files]
             w == [world[s] EXCEPT !.receipt = Unvouched]
  <2>1. pass' = [pass EXCEPT ![p] = q] /\ tried' = tried /\ world' = [world EXCEPT ![s] = w]
    BY <1>3 DEF BeginSync, RefreshTypes
  <2>7. strays' = strays \ {s} /\ builder' = [builder EXCEPT ![s] = {p}] /\ \A x \in builder[s] : ~Alive(x)
    BY <1>3 DEF BeginSync
  <2>2. q \in PassRecords
    BY ZenonT(60), <1>1 DEF PassRecords
  <2>3. /\ q.at = "building" /\ q.seen = world[s].files /\ q.todo = pass[p].todo
        /\ q.plan = pass[p].plan /\ q.files = pass[p].files /\ q.begun = pass[p].begun
        /\ q.mine = pass[p].mine /\ q.guards = pass[p].guards
    BY <1>1 DEF PassRecords
  <2>4. Unvouched \in [files : Nat, graph : Nat] /\ Unvouched.files = Unvouched.graph
    BY DEF Unvouched
  <2>5. w \in SourceRecords
    BY ZenonT(60), <1>1, <2>4 DEF SourceRecords
  <2>6. w.files = world[s].files /\ w.origin = world[s].origin /\ w.graph = world[s].graph /\ w.receipt = Unvouched
    BY <1>1 DEF SourceRecords
  <2> HIDE DEF q, w
  <2> QED
    BY <2>1, <2>2, <2>3, <2>4, <2>5, <2>6, <2>7 DEF BeginSync, Rewrites
<1> QED
  BY <1>2, <1>3

LEMMA BuildGraphActs ==
    ASSUME RefreshTypes, NEW p \in Passes, BuildGraph(p)
    PROVE  /\ pass[p].at = "building" /\ UNCHANGED <<refreshLock, rescue, refreshState, strays, lost>>
           /\ \E q \in PassRecords :
               /\ pass' = [pass EXCEPT ![p] = q]
               /\ \/ /\ EndsAs(p, q, FALSE) /\ world' = world
                     /\ builder' = [builder EXCEPT ![Target(p)] = {}]
                  \/ /\ q.at = "built" /\ Alike(q, pass[p]) /\ tried' = tried /\ builder' = builder
                     /\ \E w : /\ Rewrites(p, w) /\ pass[p].seen <= w.graph /\ w.graph <= w.files
                               /\ w.receipt = world[Target(p)].receipt
<1> DEFINE s == Target(p)
<1>1. s \in Sources /\ world[s] \in SourceRecords /\ world[s].files \in Nat /\ "built" \in PassPlaces
  BY TargetFacts DEF SourceRecords, PassPlaces
<1>2. CASE Ends(p, FALSE) /\ builder' = [builder EXCEPT ![s] = {}] /\ UNCHANGED world
  BY <1>2, EndsActs DEF BuildGraph
<1>3. ASSUME Moves(p, "built"), NEW g \in pass[p].seen..world[s].files,
             world' = [world EXCEPT ![s].graph = g], UNCHANGED <<builder, tried>>
      PROVE  \E q \in PassRecords :
               /\ pass' = [pass EXCEPT ![p] = q] /\ q.at = "built" /\ Alike(q, pass[p])
               /\ \E w : /\ Rewrites(p, w) /\ pass[p].seen <= w.graph /\ w.graph <= w.files
                         /\ w.receipt = world[s].receipt
  <2>1. PICK q \in PassRecords : pass' = [pass EXCEPT ![p] = q] /\ q.at = "built" /\ Alike(q, pass[p])
    BY <1>1, <1>3, PassMoves
  <2> DEFINE w == [world[s] EXCEPT !.graph = g]
  <2>2. world' = [world EXCEPT ![s] = w]
    BY <1>3 DEF RefreshTypes
  <2>5. g \in Nat /\ pass[p].seen <= g /\ g <= world[s].files
    <3>1. pass[p].seen \in Nat
      BY DEF RefreshTypes, PassRecords
    <3> QED
      BY <1>1, <1>3, <3>1
  <2>3. w \in SourceRecords
    BY ZenonT(60), <1>1, <2>5 DEF SourceRecords
  <2>4. /\ w.files = world[s].files /\ w.origin = world[s].origin /\ w.graph = g
        /\ w.receipt = world[s].receipt
    BY <1>1 DEF SourceRecords
  <2> HIDE DEF w
  <2> QED
    BY <2>1, <2>2, <2>3, <2>4, <2>5 DEF Rewrites
<1>4. pass[p].at = "building" /\ UNCHANGED <<refreshLock, rescue, refreshState, strays, lost>>
  BY DEF BuildGraph
<1>5. \/ /\ Moves(p, "built") /\ \E g \in pass[p].seen..world[s].files : world' = [world EXCEPT ![s].graph = g]
         /\ UNCHANGED <<builder, tried>>
      \/ Ends(p, FALSE) /\ builder' = [builder EXCEPT ![s] = {}] /\ UNCHANGED world
  BY DEF BuildGraph
<1>6. CASE \E g \in pass[p].seen..world[s].files :
             Moves(p, "built") /\ world' = [world EXCEPT ![s].graph = g] /\ UNCHANGED <<builder, tried>>
  <2>1. UNCHANGED <<builder, tried>>
    BY <1>6
  <2> QED
    BY <1>3, <1>4, <1>6, <2>1
<1> QED
  BY <1>2, <1>5, <1>6

LEMMA PublishActs ==
    ASSUME RefreshTypes, NEW p \in Passes, PublishReceipt(p)
    PROVE  /\ pass[p].at = "built" /\ UNCHANGED <<refreshLock, rescue, refreshState, strays, lost>>
           /\ builder' = [builder EXCEPT ![Target(p)] = {}]
           /\ \E q \in PassRecords :
               /\ pass' = [pass EXCEPT ![p] = q] /\ \E well \in BOOLEAN : EndsAs(p, q, well)
           /\ \/ world' = world
              \/ /\ world[Target(p)].graph # 0 /\ world[Target(p)].files = pass[p].seen
                 /\ \E w : /\ Rewrites(p, w) /\ w.graph = world[Target(p)].graph
                           /\ w.receipt = [files |-> world[Target(p)].files, graph |-> world[Target(p)].graph]
<1> DEFINE s == Target(p)
<1>1. s \in Sources /\ world[s] \in SourceRecords
  BY TargetFacts
<1>2. world[s].files \in Nat /\ world[s].graph \in Nat
  BY <1>1 DEF SourceRecords
<1>3. PICK well \in BOOLEAN : Ends(p, well)
  BY DEF PublishReceipt
<1>7. /\ pass[p].at = "built" /\ UNCHANGED <<refreshLock, rescue, refreshState, strays, lost>>
      /\ builder' = [builder EXCEPT ![s] = {}]
  BY DEF PublishReceipt, tools
<1>4. PICK q \in PassRecords : pass' = [pass EXCEPT ![p] = q] /\ EndsAs(p, q, well)
  BY <1>3, EndsActs
<1>5. CASE ~Vouched(p)
  BY <1>4, <1>5, <1>7 DEF PublishReceipt
<1>6. CASE Vouched(p)
  <2> DEFINE w == [world[s] EXCEPT !.receipt = [files |-> world[s].files, graph |-> world[s].graph]]
  <2>1. world' = [world EXCEPT ![s] = w]
    BY <1>6 DEF PublishReceipt, RefreshTypes
  <2>2. [files |-> world[s].files, graph |-> world[s].graph] \in [files : Nat, graph : Nat]
    BY <1>2
  <2>3. w \in SourceRecords
    BY ZenonT(60), <1>1, <2>2 DEF SourceRecords
  <2>4. /\ w.files = world[s].files /\ w.origin = world[s].origin /\ w.graph = world[s].graph
        /\ w.receipt = [files |-> world[s].files, graph |-> world[s].graph]
    BY <1>1 DEF SourceRecords
  <2> HIDE DEF w
  <2> QED
    BY <1>4, <1>6, <1>7, <2>1, <2>3, <2>4 DEF Rewrites, Vouched
<1> QED
  BY <1>5, <1>6

-----------------------------------------------------------------------------
\* Who holds the lock, and who the guard.

\* A step of p that leaves lock and guard alone.
LEMMA LocksKept ==
    ASSUME RefreshTypes, LocksFit, NEW p \in Passes, NEW q \in PassRecords, pass' = [pass EXCEPT ![p] = q],
           refreshLock' = refreshLock, GuardFits', pass[p].at # "dead",
           PlaceFits(q), LockIsHis(q, p), q.mine \in {0, pass[p].mine}, TakesOverDead(q)
    PROVE  LocksFit'
<1>1. pass'[p] = q /\ \A x \in Passes \ {p} : pass'[x] = pass[x]
  BY DEF RefreshTypes
<1>2. Abandoned => Abandoned'
  <2> SUFFICES ASSUME NEW x \in refreshLock.owner, ~Alive(x)  PROVE Abandoned'
    BY DEF Abandoned
  <2>1. x \in Passes /\ x # p
    BY DEF RefreshTypes, Alive
  <2>2. ~Alive(x)'
    BY <1>1, <2>1 DEF Alive
  <2> QED
    BY <2>2 DEF Abandoned
<1>3. \A x \in Passes : PlaceFits(pass'[x]) /\ LockIsHis(pass'[x], x) /\ TakesOverDead(pass'[x])
  BY <1>1 DEF LocksFit
<1>4. \A x \in Passes : PlaceFits(pass[x])' /\ LockIsHis(pass[x], x)' /\ TakesOverDead(pass[x])'
  <2> TAKE x \in Passes
  <2>1. PlaceFits(pass[x])'
    BY <1>3 DEF PlaceFits
  <2>2. LockIsHis(pass[x], x)'
    BY <1>3 DEF LockIsHis
  <2>3. TakesOverDead(pass[x])'
    BY <1>2, <1>3 DEF TakesOverDead
  <2> QED
    BY <2>1, <2>2, <2>3
<1>5. (\A x, y \in Passes : pass[x].mine # 0 /\ pass[y].mine = pass[x].mine => x = y)'
  BY <1>1 DEF LocksFit
<1> QED
  BY <1>4, <1>5 DEF LocksFit

\* The guard stays with who has it.
LEMMA GuardKept ==
    ASSUME RefreshTypes, GuardFits, NEW p \in Passes, NEW q \in PassRecords, pass' = [pass EXCEPT ![p] = q],
           rescue' = rescue, q.guards => pass[p].guards
    PROVE  GuardFits'
BY DEF GuardFits, RefreshTypes

\* Nobody has a lock where there is none, or that of a dead process.
LEMMA LockFacts ==
    ASSUME RefreshTypes, LocksFit
    PROVE  /\ \A x \in Passes : pass[x].mine \in Nat /\ pass[x].seen \in Nat
           /\ refreshLock.inode \in Nat /\ refreshLock.made \in Nat
           /\ refreshLock.inode = 0 \/ Abandoned => \A x \in Passes : pass[x].mine = 0
           /\ \A x, y \in Passes : pass[x].mine # 0 /\ pass[y].mine # 0 => x = y
           /\ \A x, y \in Passes : pass[x].at \in {"comparing", "moving", "again",
               "unguard"} /\ pass[y].guards => x = y
<1>1. /\ \A x \in Passes : pass[x].mine \in Nat /\ pass[x].seen \in Nat
      /\ refreshLock.inode \in Nat /\ refreshLock.made \in Nat
  BY DEF RefreshTypes, PassRecords
<1>2. refreshLock.inode = 0 => \A x \in Passes : pass[x].mine = 0
  BY DEF LocksFit, LockIsHis
<1>3. ASSUME Abandoned, NEW x \in Passes, pass[x].mine # 0  PROVE FALSE
  <2>1. refreshLock.owner \subseteq {x}
    BY <1>3 DEF LocksFit, LockIsHis
  <2>2. ~Alive(x)
    BY <1>3, <2>1 DEF Abandoned
  <2>3. pass[x].at = "dead" /\ PlaceFits(pass[x])
    BY <2>2 DEF Alive, LocksFit
  <2> QED
    BY <1>3, <2>3 DEF PlaceFits
<1>4. \A x, y \in Passes : pass[x].mine # 0 /\ pass[y].mine # 0 => x = y
  BY DEF LocksFit, LockIsHis
<1>5. \A x, y \in Passes : pass[x].at \in {"comparing", "moving", "again", "unguard"} /\ pass[y].guards => x = y
  BY DEF LocksFit, PlaceFits, GuardFits
<1> QED
  BY <1>1, <1>2, <1>3, <1>4, <1>5

LEMMA CreateLockKeeps ==
    ASSUME RefreshTypes, LocksFit, NEW p \in Passes, CreateLock(p)
    PROVE  LocksFit'
<1>1. /\ pass[p].at \in {"idle", "again"} /\ rescue' = rescue /\ PlaceFits(pass[p])
      /\ LockIsHis(pass[p], p) /\ GuardFits
  BY CreateLockActs DEF LocksFit
<1>2. PICK q \in PassRecords :
        /\ pass' = [pass EXCEPT ![p] = q]
        /\ \/ /\ refreshLock.inode = 0 /\ q.at = "filling" /\ q.mine = refreshLock.made + 1
              /\ q.guards = pass[p].guards /\ q.todo = pass[p].todo /\ q.begun = pass[p].begun
              /\ refreshLock' = [inode |-> refreshLock.made + 1, owner |-> {}, made |-> refreshLock.made + 1]
           \/ /\ q.at = (IF pass[p].guards THEN "unguard" ELSE "looking") /\ Alike(q, pass[p])
              /\ refreshLock' = refreshLock
  BY CreateLockActs
<1>3. GuardFits'
  BY <1>1, <1>2, GuardKept DEF Alike
<1>4. CASE /\ q.at = (IF pass[p].guards THEN "unguard" ELSE "looking") /\ Alike(q, pass[p])
           /\ refreshLock' = refreshLock
  <2>1. PlaceFits(q) /\ LockIsHis(q, p) /\ TakesOverDead(q) /\ q.mine \in {0, pass[p].mine} /\ pass[p].at # "dead"
    BY <1>1, <1>4 DEF PlaceFits, LockIsHis, TakesOverDead, Alike
  <2> QED
    BY <1>2, <1>3, <1>4, <2>1, LocksKept
<1>5. CASE /\ refreshLock.inode = 0 /\ q.at = "filling" /\ q.mine = refreshLock.made + 1
           /\ q.guards = pass[p].guards /\ q.todo = pass[p].todo /\ q.begun = pass[p].begun
           /\ refreshLock' = [inode |-> refreshLock.made + 1, owner |-> {}, made |-> refreshLock.made + 1]
  <2>1. pass'[p] = q /\ \A x \in Passes \ {p} : pass'[x] = pass[x]
    BY <1>2 DEF RefreshTypes
  <2>2. /\ \A x \in Passes : pass[x].mine = 0
        /\ refreshLock.made \in Nat
        /\ refreshLock'.inode = refreshLock.made + 1 /\ refreshLock'.owner = {}
        /\ refreshLock'.made = refreshLock.made + 1
    BY <1>5, LockFacts
  <2>3. ASSUME NEW x \in Passes
        PROVE  PlaceFits(pass[x])' /\ LockIsHis(pass[x], x)' /\ TakesOverDead(pass[x])'
    <3>1. PlaceFits(pass[x]) /\ TakesOverDead(pass[x]) /\ pass[x].seen \in Nat /\ pass[x].mine = 0
      BY <2>2, LockFacts DEF LocksFit
    <3>2. CASE x = p
      BY <1>1, <1>5, <2>1, <2>2, <3>2 DEF PlaceFits, LockIsHis, TakesOverDead
    <3>3. CASE x # p
      <4>1. pass'[x] = pass[x]
        BY <2>1, <3>3
      <4>2. PlaceFits(pass[x])'
        BY <2>2, <3>1, <4>1 DEF PlaceFits
      <4>3. LockIsHis(pass[x], x)'
        BY <3>1, <4>1 DEF LockIsHis
      <4>4. TakesOverDead(pass[x])'
        BY <1>5, <2>2, <3>1, <4>1 DEF TakesOverDead, PlaceFits
      <4> QED
        BY <4>2, <4>3, <4>4
    <3> QED
      BY <3>2, <3>3
  <2>4. (\A x, y \in Passes : pass[x].mine # 0 /\ pass[y].mine = pass[x].mine => x = y)'
    BY <2>1, <2>2
  <2>5. refreshLock'.inode <= refreshLock'.made /\ refreshLock'.inode # 0
    BY <2>2
  <2> QED
    BY <1>3, <2>3, <2>4, <2>5 DEF LocksFit
<1> QED
  BY <1>2, <1>4, <1>5

LEMMA MoveLockKeeps ==
    ASSUME RefreshTypes, LocksFit, NEW p \in Passes, MoveLock(p) \/ ReleaseLock(p)
    PROVE  LocksFit'
<1>1. PICK q \in PassRecords :
        /\ pass' = [pass EXCEPT ![p] = q] /\ (q.guards => pass[p].guards) /\ q.mine = 0 /\ q.todo = <<>>
        /\ q.begun = {} /\ q.at \in {"again", "over"} /\ (q.at = "again" => q.guards)
  <2>1. PlaceFits(pass[p])
    BY DEF LocksFit
  <2>2. CASE MoveLock(p)
    BY <2>1, <2>2, MoveLockActs DEF Alike, PlaceFits
  <2>3. CASE ReleaseLock(p)
    BY <2>3, ReleaseLockActs DEF Cleared
  <2> QED
    BY <2>2, <2>3
<1>2. rescue' = rescue /\ refreshLock' = [refreshLock EXCEPT !.inode = 0, !.owner = {}]
  <2>1. CASE MoveLock(p)
    BY <2>1, MoveLockActs
  <2>2. CASE ReleaseLock(p)
    BY <2>2, ReleaseLockActs DEF LocksFit, PlaceFits, LockIsHis
  <2> QED
    BY <2>1, <2>2
<1>3. GuardFits'
  BY <1>1, <1>2, GuardKept DEF LocksFit
<1>4. pass'[p] = q /\ \A x \in Passes \ {p} : pass'[x] = pass[x]
  BY <1>1 DEF RefreshTypes
<1>5. refreshLock'.inode = 0 /\ refreshLock'.owner = {} /\ refreshLock'.made = refreshLock.made
  BY <1>2 DEF RefreshTypes
\* Nobody has a lock any more, and nobody else is about to move one away.
<1>6. ASSUME NEW x \in Passes, x # p  PROVE pass[x].mine = 0 /\ pass[x].at # "moving"
  <2>1. TakesOverDead(pass[x]) /\ TakesOverDead(pass[p]) /\ PlaceFits(pass[p]) /\ LockIsHis(pass[p], p)
    BY DEF LocksFit
  <2>2. CASE MoveLock(p)
    <3>1. pass[p].at = "moving" /\ Abandoned
      BY <2>1, <2>2, MoveLockActs DEF TakesOverDead
    <3> QED
      BY <1>6, <3>1, LockFacts DEF LocksFit, PlaceFits
  <2>3. CASE ReleaseLock(p)
    <3>1. pass[p].at = "releasing" /\ pass[p].mine # 0 /\ refreshLock.owner = {p}
      BY <2>1, <2>3, ReleaseLockActs DEF PlaceFits, LockIsHis
    <3>2. ~Abandoned
      BY <3>1 DEF Abandoned, Alive
    <3> QED
      BY <1>6, <2>1, <3>1, <3>2, LockFacts DEF TakesOverDead
  <2> QED
    BY <2>2, <2>3
<1>7. ASSUME NEW x \in Passes
      PROVE  PlaceFits(pass[x])' /\ LockIsHis(pass[x], x)' /\ TakesOverDead(pass[x])'
  <2>1. CASE x = p
    BY <1>1, <1>4, <1>5, <2>1 DEF PlaceFits, LockIsHis, TakesOverDead
  <2>2. CASE x # p
    <3>1. pass'[x] = pass[x] /\ pass[x].mine = 0 /\ pass[x].at # "moving" /\ PlaceFits(pass[x])
      BY <1>4, <1>6, <2>2 DEF LocksFit
    <3> QED
      BY <1>5, <3>1 DEF PlaceFits, LockIsHis, TakesOverDead
  <2> QED
    BY <2>1, <2>2
<1>8. (\A x, y \in Passes : pass[x].mine # 0 /\ pass[y].mine = pass[x].mine => x = y)'
  BY <1>1, <1>4, <1>6
<1> QED
  BY <1>3, <1>5, <1>7, <1>8, LockFacts DEF LocksFit

LEMMA FillLockKeeps ==
    ASSUME RefreshTypes, LocksFit, NEW p \in Passes, FillLock(p)
    PROVE  LocksFit'
<1>1. PlaceFits(pass[p]) /\ LockIsHis(pass[p], p) /\ GuardFits
  BY DEF LocksFit
<1>2. pass[p].at = "filling" /\ pass[p].mine # 0 /\ refreshLock.inode = pass[p].mine /\ refreshLock.owner = {}
  BY <1>1, FillLockActs DEF PlaceFits, LockIsHis
<1>3. /\ rescue' = rescue /\ refreshLock'.inode = refreshLock.inode /\ refreshLock'.made = refreshLock.made
      /\ refreshLock'.owner = {p}
  BY <1>2, FillLockActs DEF RefreshTypes
<1>4. PICK q \in PassRecords :
        /\ pass' = [pass EXCEPT ![p] = q] /\ Alike(q, pass[p])
        /\ q.at = IF pass[p].guards THEN "unguard" ELSE "loading"
  BY FillLockActs
<1>5. pass'[p] = q /\ \A x \in Passes \ {p} : pass'[x] = pass[x]
  BY <1>4 DEF RefreshTypes
<1>6. GuardFits'
  BY <1>1, <1>3, <1>4, GuardKept DEF Alike
<1>7. ~Abandoned
  BY <1>2 DEF Abandoned
<1>8. ASSUME NEW x \in Passes
      PROVE  PlaceFits(pass[x])' /\ LockIsHis(pass[x], x)' /\ TakesOverDead(pass[x])'
  <2>1. CASE x = p
    BY <1>1, <1>2, <1>3, <1>4, <1>5, <2>1 DEF PlaceFits, LockIsHis, TakesOverDead, Alike
  <2>2. CASE x # p
    <3>1. pass'[x] = pass[x] /\ pass[x].mine = 0 /\ PlaceFits(pass[x]) /\ TakesOverDead(pass[x])
      BY <1>2, <1>5, <2>2, LockFacts DEF LocksFit
    <3> QED
      BY <1>3, <1>7, <3>1 DEF PlaceFits, LockIsHis, TakesOverDead
  <2> QED
    BY <2>1, <2>2
<1>9. (\A x, y \in Passes : pass[x].mine # 0 /\ pass[y].mine = pass[x].mine => x = y)'
  BY <1>4, <1>5 DEF Alike, LocksFit
<1> QED
  BY <1>2, <1>3, <1>6, <1>8, <1>9 DEF LocksFit

\* The other steps with the lock leave it alone.
LEMMA GuardStepsKeep ==
    ASSUME RefreshTypes, LocksFit, NEW p \in Passes,
           LookAtLock(p) \/ AskOwner(p) \/ TakeGuard(p) \/ CompareLock(p) \/ Unguard(p)
    PROVE  LocksFit'
<1>1. PlaceFits(pass[p]) /\ LockIsHis(pass[p], p) /\ TakesOverDead(pass[p]) /\ GuardFits
      /\ refreshLock.inode <= refreshLock.made
  BY DEF LocksFit
<1> DEFINE Fitting(q) == /\ PlaceFits(q) /\ LockIsHis(q, p) /\ q.mine \in {0, pass[p].mine} /\ TakesOverDead(q)
                      /\ pass[p].at # "dead" /\ refreshLock' = refreshLock /\ GuardFits'
<1>2. CASE LookAtLock(p)
  <2>1. PICK q \in PassRecords :
          /\ pass' = [pass EXCEPT ![p] = q]
          /\ \/ q.at = "over" /\ Cleared(q)
             \/ /\ q.at = "asking" /\ refreshLock.inode # 0 /\ q.seen = refreshLock.inode
                /\ q.mine = pass[p].mine /\ q.guards = pass[p].guards /\ q.todo = pass[p].todo
                /\ q.begun = pass[p].begun
    BY <1>2, LookAtLockActs
  <2>2. pass[p].at = "looking" /\ refreshLock' = refreshLock /\ rescue' = rescue
    BY <1>2, LookAtLockActs
  <2>3. GuardFits'
    BY <1>1, <2>1, <2>2, GuardKept DEF Cleared
  <2>4. Fitting(q)
    BY <1>1, <2>1, <2>2, <2>3 DEF PlaceFits, LockIsHis, TakesOverDead, Cleared
  <2> QED
    BY <2>1, <2>4, LocksKept
<1>3. CASE AskOwner(p)
  <2>1. PICK q \in PassRecords :
          /\ pass' = [pass EXCEPT ![p] = q]
          /\ \/ q.at = "over" /\ Cleared(q)
             \/ q.at = "guarding" /\ Abandoned /\ Alike(q, pass[p])
    BY <1>3, AskOwnerActs
  <2>2. pass[p].at = "asking" /\ refreshLock' = refreshLock /\ rescue' = rescue
    BY <1>3, AskOwnerActs
  <2>3. GuardFits'
    BY <1>1, <2>1, <2>2, GuardKept DEF Cleared, Alike
  <2>4. Fitting(q)
    BY <1>1, <2>1, <2>2, <2>3 DEF PlaceFits, LockIsHis, TakesOverDead, Cleared, Alike
  <2> QED
    BY <2>1, <2>4, LocksKept
<1>4. CASE TakeGuard(p)
  <2>1. PICK q \in PassRecords :
          /\ pass' = [pass EXCEPT ![p] = q]
          /\ \/ q.at = "over" /\ Cleared(q) /\ rescue' = rescue
             \/ /\ q.at = "comparing" /\ ~rescue /\ rescue' /\ q.guards
                /\ q.mine = pass[p].mine /\ q.seen = pass[p].seen /\ q.todo = pass[p].todo
                /\ q.begun = pass[p].begun
    BY <1>4, TakeGuardActs
  <2>2. pass[p].at = "guarding" /\ refreshLock' = refreshLock
    BY <1>4, TakeGuardActs
  <2>3. GuardFits'
    <3>1. CASE q.at = "over" /\ Cleared(q) /\ rescue' = rescue
      BY <1>1, <2>1, <3>1, GuardKept DEF Cleared
    <3>2. CASE ~rescue /\ rescue'
      BY <1>1, <2>1, <3>2 DEF GuardFits, RefreshTypes
    <3> QED
      BY <2>1, <3>1, <3>2
  <2>4. Fitting(q)
    BY <1>1, <2>1, <2>2, <2>3 DEF PlaceFits, LockIsHis, TakesOverDead, Cleared
  <2> QED
    BY <2>1, <2>4, LocksKept
<1>5. CASE CompareLock(p)
  <2>1. PICK q \in PassRecords :
          /\ pass' = [pass EXCEPT ![p] = q] /\ Alike(q, pass[p])
          /\ q.at = IF refreshLock.inode = pass[p].seen THEN "moving" ELSE "unguard"
    BY <1>5, CompareLockActs
  <2>2. pass[p].at = "comparing" /\ refreshLock' = refreshLock /\ rescue' = rescue
    BY <1>5, CompareLockActs
  <2>3. GuardFits'
    BY <1>1, <2>1, <2>2, GuardKept DEF Alike
  <2>4. Fitting(q)
    BY <1>1, <2>1, <2>2, <2>3 DEF PlaceFits, LockIsHis, TakesOverDead, Alike
  <2> QED
    BY <2>1, <2>4, LocksKept
<1>6. CASE Unguard(p)
  <2>1. PICK q \in PassRecords :
          /\ pass' = [pass EXCEPT ![p] = q]
          /\ \/ pass[p].mine = 0 /\ q.at = "over" /\ Cleared(q)
             \/ /\ pass[p].mine # 0 /\ q.at = "loading" /\ ~q.guards /\ q.mine = pass[p].mine
                /\ q.todo = pass[p].todo /\ q.begun = pass[p].begun
    BY <1>6, UnguardActs
  <2>2. pass[p].at = "unguard" /\ refreshLock' = refreshLock /\ ~rescue'
    BY <1>6, UnguardActs
  <2>3. GuardFits'
    <3>1. pass[p].guards /\ ~q.guards
      BY <1>1, <2>1, <2>2 DEF PlaceFits, Cleared
    <3> QED
      BY <1>1, <2>1, <3>1 DEF GuardFits, RefreshTypes
  <2>4. Fitting(q)
    BY <1>1, <2>1, <2>2, <2>3 DEF PlaceFits, LockIsHis, TakesOverDead, Cleared
  <2> QED
    BY <2>1, <2>4, LocksKept
<1> QED
  BY <1>2, <1>3, <1>4, <1>5, <1>6

\* What a step of a pass at work, or of a rebuilding by hand, leaves of p.
KeepsLock(q, p) ==
    /\ pass[p].at # "dead" /\ (q.guards => pass[p].guards)
    /\ \/ q.at \in {"over", "dead"} /\ Cleared(q)
       \/ /\ q.at \in {"source", "looked", "saving", "releasing"} \cup Rebuilding /\ q.mine = pass[p].mine
          /\ pass[p].at # "filling" /\ (q.mine # 0 \/ q.at \in {"building", "built"})
          /\ q.at \in {"looked"} \cup Rebuilding => (q.mine # 0 <=> q.todo # <<>>)
          /\ q.at \in {"source", "looked"} => q.begun = {}

LEMMA WorkKeepsLocks ==
    ASSUME RefreshTypes, LocksFit, NEW p \in Passes, NEW q \in PassRecords, pass' = [pass EXCEPT ![p] = q],
           UNCHANGED <<refreshLock, rescue>>, KeepsLock(q, p)
    PROVE  LocksFit'
<1>1. PlaceFits(pass[p]) /\ LockIsHis(pass[p], p) /\ GuardFits /\ q.mine \in Nat
  BY DEF LocksFit, PassRecords
<1>2. GuardFits'
  BY <1>1, GuardKept DEF KeepsLock
<1>3. PlaceFits(q)
  BY <1>1 DEF PlaceFits, KeepsLock, Cleared, Rebuilding
<1>4. LockIsHis(q, p) /\ TakesOverDead(q) /\ q.mine \in {0, pass[p].mine} /\ pass[p].at # "dead"
  BY <1>1 DEF LockIsHis, TakesOverDead, KeepsLock, Cleared, Rebuilding
<1> QED
  BY <1>2, <1>3, <1>4, LocksKept

\* The steps of a pass at work, each as what is known of them.
LEMMA PassWorksOn ==
    ASSUME RefreshTypes, LocksFit, NEW p \in Passes, NEW q \in PassRecords, pass' = [pass EXCEPT ![p] = q],
           PlaceFits(pass[p])
    PROVE  /\ LoadState(p) => KeepsLock(q, p)
           /\ Reconcile(p) => KeepsLock(q, p)
           /\ Fingerprint(p) => KeepsLock(q, p)
           /\ Refresh(p) => KeepsLock(q, p)
           /\ SaveState(p) => KeepsLock(q, p)
           /\ WriteFails(p) \/ PassDies(p) => KeepsLock(q, p)
<1>1. q = pass'[p]
  BY DEF RefreshTypes
<1>2. ASSUME NEW e \in PassRecords, pass' = [pass EXCEPT ![p] = e]  PROVE e = q
  BY <1>1, <1>2 DEF RefreshTypes
<1>3. CASE LoadState(p)
  BY ZenonT(60), <1>2, <1>3, LoadStateActs DEF KeepsLock, PlaceFits, Rebuilding
<1>4. CASE Reconcile(p)
  <2>1. pass[p].at = "source" /\ pass[p].todo # <<>>
    BY <1>4, ReconcileActs
  <2>2. ReconcileLeaves(p, q) \/ ReconcileLooks(p, q) \/ ReconcileDone(p, q)
    BY <1>2, <1>4, ReconcileActs
  <2> QED
    BY <2>1, <2>2 DEF ReconcileLeaves, ReconcileLooks, ReconcileDone, LeftWith, KeepsLock, PlaceFits, Rebuilding
<1>5. CASE Fingerprint(p)
  <2>1. /\ pass[p].at = "source" /\ pass[p].todo # <<>> /\ q.at = "looked"
        /\ q.todo = pass[p].todo /\ q.mine = pass[p].mine /\ q.guards = pass[p].guards /\ q.begun = pass[p].begun
    <3>1. PICK e \in PassRecords :
            /\ pass' = [pass EXCEPT ![p] = e] /\ e.at = "looked" /\ e.todo = pass[p].todo
            /\ e.mine = pass[p].mine /\ e.guards = pass[p].guards /\ e.begun = pass[p].begun
      BY <1>5, FingerprintActs
    <3> QED
      BY <1>2, <1>5, <3>1, FingerprintActs
  <2> QED
    BY <2>1 DEF KeepsLock, PlaceFits, Rebuilding
<1>6. CASE Refresh(p)
  <2>1. pass[p].at = "looked" /\ pass[p].todo # <<>>
    BY <1>6 DEF Refresh, PlaceFits
  <2>2. RefreshLeaves(p, q) \/ RefreshTries(p, q)
    BY <1>2, <1>6, <2>1, RefreshActs
  <2> QED
    BY <2>1, <2>2 DEF RefreshLeaves, RefreshTries, LeftWith, KeepsLock, PlaceFits, Rebuilding
<1>7. CASE SaveState(p)
  <2>1. /\ pass[p].at \in {"saving", "source"} /\ q.at \in {"source", "releasing"} /\ q.begun = {}
        /\ q.mine = pass[p].mine /\ q.guards = pass[p].guards
    <3>1. PICK e \in PassRecords :
            /\ pass' = [pass EXCEPT ![p] = e] /\ e.at = (IF pass[p].at = "saving" THEN "source" ELSE "releasing")
            /\ e.begun = {} /\ e.mine = pass[p].mine /\ e.guards = pass[p].guards
      BY <1>7, SaveStateActs
    <3> QED
      BY <1>2, <1>7, <3>1, SaveStateActs
  <2> QED
    BY <2>1 DEF KeepsLock, PlaceFits, Rebuilding
<1>8. CASE WriteFails(p) \/ PassDies(p)
  <2>1. /\ pass[p].at \notin {"idle", "over", "dead"}
        /\ \/ pass[p].at \in {"source", "saving"} /\ q.at = "releasing" /\ Alike(q, pass[p])
           \/ q.at = "dead" /\ Cleared(q)
    BY <1>2, <1>8, GivesUpActs
  <2> QED
    BY <2>1 DEF KeepsLock, PlaceFits, Rebuilding, Alike, Cleared
<1> QED
  BY <1>3, <1>4, <1>5, <1>6, <1>7, <1>8


\* Nor does a rebuilding touch the lock of the passes.
LEMMA EndsWorksOn ==
    ASSUME NEW p \in Passes, NEW q \in PassRecords, NEW well \in BOOLEAN, PlaceFits(pass[p]),
           pass[p].at \in {"idle"} \cup Rebuilding, EndsAs(p, q, well)
    PROVE  KeepsLock(q, p)
<1>1. CASE q.at = "over" /\ Cleared(q)
  BY <1>1 DEF KeepsLock, Cleared, Rebuilding
<1>2. CASE pass[p].todo # <<>> /\ \E r \in Marks : LeftWith(q, p, r, "saving")
  BY <1>2 DEF LeftWith, KeepsLock, PlaceFits, Rebuilding
<1> QED
  BY <1>1, <1>2 DEF EndsAs

LEMMA RebuildWorksOn ==
    ASSUME RefreshTypes, LocksFit, NEW p \in Passes, NEW q \in PassRecords, pass' = [pass EXCEPT ![p] = q],
           PlaceFits(pass[p])
    PROVE  /\ BeginSync(p) => KeepsLock(q, p)
           /\ BuildGraph(p) => KeepsLock(q, p)
           /\ PublishReceipt(p) => KeepsLock(q, p)
<1>1. ASSUME NEW e \in PassRecords, pass' = [pass EXCEPT ![p] = e]  PROVE e = q
  BY <1>1 DEF RefreshTypes
<1>2. CASE BeginSync(p)
  <2>1. /\ pass[p].at \in {"sync", "idle"}
        /\ \/ EndsAs(p, q, FALSE)
           \/ /\ q.at = "building" /\ q.todo = pass[p].todo /\ q.mine = pass[p].mine /\ q.guards = pass[p].guards
    <3>1. PICK e \in PassRecords :
            /\ pass' = [pass EXCEPT ![p] = e]
            /\ \/ EndsAs(p, e, FALSE)
               \/ /\ e.at = "building" /\ e.todo = pass[p].todo /\ e.mine = pass[p].mine /\ e.guards = pass[p].guards
      BY <1>2, BeginSyncActs
    <3> QED
      BY <1>1, <1>2, <3>1, BeginSyncActs
  <2>2. CASE EndsAs(p, q, FALSE)
    BY <2>1, <2>2, EndsWorksOn DEF Rebuilding
  <2>3. CASE q.at = "building" /\ q.todo = pass[p].todo /\ q.mine = pass[p].mine /\ q.guards = pass[p].guards
    BY <2>1, <2>3 DEF KeepsLock, PlaceFits, Rebuilding
  <2> QED
    BY <2>1, <2>2, <2>3
<1>3. CASE BuildGraph(p)
  <2>1. pass[p].at = "building" /\ (EndsAs(p, q, FALSE) \/ (q.at = "built" /\ Alike(q, pass[p])))
    BY <1>1, <1>3, BuildGraphActs
  <2>2. CASE EndsAs(p, q, FALSE)
    BY <2>1, <2>2, EndsWorksOn DEF Rebuilding
  <2>3. CASE q.at = "built" /\ Alike(q, pass[p])
    BY <2>1, <2>3 DEF KeepsLock, PlaceFits, Rebuilding, Alike
  <2> QED
    BY <2>1, <2>2, <2>3
<1>4. CASE PublishReceipt(p)
  <2>1. pass[p].at = "built" /\ \E well \in BOOLEAN : EndsAs(p, q, well)
    BY <1>1, <1>4, PublishActs
  <2> QED
    BY <2>1, EndsWorksOn DEF Rebuilding
<1> QED
  BY <1>2, <1>3, <1>4

-----------------------------------------------------------------------------
\* The counting of tries.

\* Files only grow newer, tries are only forgotten, and what is lost is noted.
Grows ==
    \A s \in Sources :
        /\ lost'[s] >= lost[s] /\ world'[s].files >= world[s].files /\ tried'[s].files = tried[s].files
        /\ \/ tried'[s].times = 0
           \/ /\ tried'[s].times = tried[s].times
              /\ world'[s].files = world[s].files => world'[s].origin = world[s].origin

LEMMA SourceTypes ==
    ASSUME RefreshTypes, NEW s \in Sources
    PROVE  /\ world[s].files \in Nat /\ world[s].origin \in Nat /\ world[s].graph \in Nat /\ lost[s] \in Nat
           /\ tried[s].files \in Nat /\ tried[s].times \in Nat
BY DEF RefreshTypes, SourceRecords

LEMMA SourceTypesNext ==
    ASSUME RefreshTypes', NEW s \in Sources
    PROVE  /\ world'[s].files \in Nat /\ world'[s].origin \in Nat /\ world'[s].graph \in Nat /\ lost'[s] \in Nat
           /\ tried'[s].files \in Nat /\ tried'[s].times \in Nat
BY DEF RefreshTypes, SourceRecords

\* A record goes on telling.
LEMMA TellsOn ==
    ASSUME RefreshTypes, RefreshTypes', Grows, NEW s \in Sources, tried[s].files <= world[s].files,
           NEW r \in Marks, NEW extra \in Nat, NEW more \in Nat, Tells(r, s, extra),
           extra + lost[s] <= more + lost'[s]
    PROVE  Tells(r, s, more)'
<1> SUFFICES ASSUME tried'[s].files = world'[s].files
             PROVE  tried'[s].times <= Counted(r, s)' + lost'[s] + more
  BY DEF Tells
<1>1. /\ lost'[s] >= lost[s] /\ world'[s].files >= world[s].files /\ tried'[s].files = tried[s].files
      /\ \/ tried'[s].times = 0
         \/ /\ tried'[s].times = tried[s].times
            /\ world'[s].files = world[s].files => world'[s].origin = world[s].origin
  BY DEF Grows
<1>2. r.attempts \in Nat /\ Counted(r, s) \in Nat
  BY MarkTypes
<1>3. Counted(r, s)' \in Nat
  BY <1>2 DEF Counted
<1>4. CASE tried'[s].times = 0
  BY <1>3, <1>4, SourceTypesNext
<1>5. CASE tried'[s].times # 0
  <2>1. world'[s].files = world[s].files /\ world'[s].origin = world[s].origin /\ tried'[s].times = tried[s].times
        /\ tried[s].files = world[s].files
    BY <1>1, <1>5, SourceTypes, SourceTypesNext
  <2>2. Counted(r, s)' = Counted(r, s)
    BY <2>1 DEF Counted
  <2>3. tried[s].times <= Counted(r, s) + lost[s] + extra
    BY <2>1 DEF Tells
  <2> QED
    BY <1>2, <2>1, <2>2, <2>3, SourceTypes, SourceTypesNext
<1> QED
  BY <1>4, <1>5

\* What a pass knows stays so while others work.
LEMMA KnownOn ==
    ASSUME RefreshTypes, RefreshTypes', TriesCount, Grows, NEW i \in PassRecords, PlaceFits(i), PassTells(i)
    PROVE  PassTells(i)'
<1>1. i.plan \in [Sources -> Marks] /\ i.files \in Nat /\ i.todo \in Seq(Sources)
  BY DEF PassRecords
<1>2. \A s \in Sources : tried[s].files <= world[s].files
  BY DEF TriesCount
<1>3. PlanTells(i)'
  <2> SUFFICES ASSUME AtWork(i), NEW s \in Sources, ~(i.at \in Rebuilding /\ s = Head(i.todo))
               PROVE  Tells(i.plan[s], s, 0)'
    BY DEF PlanTells, AtWork
  <2>1. Tells(i.plan[s], s, 0) /\ i.plan[s] \in Marks
    BY <1>1 DEF PassTells, PlanTells
  <2>2. 0 + lost[s] <= 0 + lost'[s]
    BY SourceTypes, SourceTypesNext DEF Grows
  <2> HIDE DEF PlanTells
  <2>3. \A r \in Marks : Tells(r, s, 0) => Tells(r, s, 0)'
    BY <1>2, <2>2, TellsOn
  <2> QED
    BY <2>1, <2>3
<1>4. LookedTells(i)'
  <2> SUFFICES ASSUME i.at = "looked"  PROVE LookedTells(i)'
    BY DEF LookedTells
  <2> DEFINE s == Head(i.todo)
  <2>1. s \in Sources
    BY <1>1, TodoFacts DEF PlaceFits
  <2>2. /\ tried[s].files <= i.files /\ i.files <= world[s].files
        /\ tried[s].files = i.files => tried[s].times <= AttemptsAt(i.plan[s], i.files) + lost[s]
    BY DEF PassTells, LookedTells
  <2>3. i.plan[s].attempts \in Nat /\ AttemptsAt(i.plan[s], i.files) \in Nat
    BY <1>1, <2>1, MarkTypes DEF AttemptsAt
  <2>4. /\ tried'[s].files <= i.files /\ i.files <= world'[s].files
        /\ tried'[s].files = i.files => tried'[s].times <= AttemptsAt(i.plan[s], i.files) + lost'[s]
    <3> HIDE DEF s
    <3>1. /\ lost'[s] >= lost[s] /\ world'[s].files >= world[s].files /\ tried'[s].files = tried[s].files
          /\ (tried'[s].times = 0 \/ tried'[s].times = tried[s].times)
      BY <2>1 DEF Grows
    <3>2. /\ world[s].files \in Nat /\ lost[s] \in Nat /\ tried[s].files \in Nat /\ tried[s].times \in Nat
          /\ world'[s].files \in Nat /\ lost'[s] \in Nat /\ tried'[s].files \in Nat /\ tried'[s].times \in Nat
      BY <2>1, SourceTypes, SourceTypesNext
    <3> QED
      BY SMTT(30), <1>1, <2>2, <2>3, <3>1, <3>2
  <2> QED
    BY <2>4 DEF LookedTells, AttemptsAt
<1>5. RebuildTells(i)'
  <2> SUFFICES ASSUME i.mine # 0, i.at \in Rebuilding  PROVE RebuildTells(i)'
    BY DEF RebuildTells
  <2> DEFINE s == Head(i.todo)
  <2>1. s \in Sources
    BY <1>1, TodoFacts DEF PlaceFits, Rebuilding
  <2>2. /\ tried[s].files = i.files /\ i.plan[s].files = i.files /\ ~i.plan[s].unreconciled
        /\ tried[s].times <= i.plan[s].attempts + 1 + lost[s]
    BY DEF PassTells, RebuildTells
  <2>3. i.plan[s].attempts \in Nat
    BY <1>1, <2>1, MarkTypes
  <2>4. /\ tried'[s].files = i.files /\ tried'[s].times <= i.plan[s].attempts + 1 + lost'[s]
    <3> HIDE DEF s
    <3>1. /\ lost'[s] >= lost[s] /\ world'[s].files >= world[s].files /\ tried'[s].files = tried[s].files
          /\ (tried'[s].times = 0 \/ tried'[s].times = tried[s].times)
      BY <2>1 DEF Grows
    <3>2. /\ world[s].files \in Nat /\ lost[s] \in Nat /\ tried[s].files \in Nat /\ tried[s].times \in Nat
          /\ world'[s].files \in Nat /\ lost'[s] \in Nat /\ tried'[s].files \in Nat /\ tried'[s].times \in Nat
      BY <2>1, SourceTypes, SourceTypesNext
    <3> QED
      <4>1. tried'[s].files = i.files
        BY <2>2, <3>1
      <4>2. tried'[s].times <= i.plan[s].attempts + 1 + lost'[s]
        <5> DEFINE n == i.plan[s].attempts
        <5>1. n \in Nat /\ tried[s].times <= n + 1 + lost[s]
          BY <2>2, <2>3
        <5> HIDE DEF n
        <5>2. tried'[s].times <= n + 1 + lost'[s]
          BY <3>1, <3>2, <5>1
        <5> QED
          BY <5>2 DEF n
      <4> QED
        BY <4>1, <4>2
  <2> QED
    BY <2>2, <2>4 DEF RebuildTells
<1> QED
  BY <1>3, <1>4, <1>5 DEF PassTells

\* A step of p that counts no try: what the state file tells goes on, unless
\* p forgets a try, which is lost.
LEMMA TriesKept ==
    ASSUME RefreshTypes, RefreshTypes', LocksFit, TriesCount, Grows, refreshState' = refreshState,
           NEW p \in Passes, NEW q \in PassRecords, pass' = [pass EXCEPT ![p] = q], PassTells(q)',
           AtWork(pass[p]) /\ ~AtWork(q) => \A s \in pass[p].begun : lost'[s] >= lost[s] + 1,
           AtWork(pass[p]) /\ AtWork(q) => pass[p].begun \subseteq q.begun
    PROVE  TriesCount'
<1>1. pass'[p] = q /\ \A x \in Passes \ {p} : pass'[x] = pass[x]
  BY DEF RefreshTypes
<1>2. \A s \in Sources : tried[s].files <= world[s].files /\ tried[s].times <= MaxAttempts + lost[s]
  BY DEF TriesCount, AttemptsBounded
<1>3. \A s \in Sources : tried'[s].files <= world'[s].files /\ tried'[s].times <= MaxAttempts + lost'[s]
  <2> TAKE s \in Sources
  <2>1. /\ lost'[s] >= lost[s] /\ world'[s].files >= world[s].files /\ tried'[s].files = tried[s].files
        /\ (tried'[s].times = 0 \/ tried'[s].times = tried[s].times)
    BY DEF Grows
  <2> QED
    BY SMTT(30), <1>2, <2>1, SourceTypes, SourceTypesNext, RefreshAssumption
<1>4. \A s \in Sources : Tells(refreshState[s], s, IF Unsaved(s) THEN 1 ELSE 0)'
  <2> TAKE s \in Sources
  <2> DEFINE extra == IF Unsaved(s) THEN 1 ELSE 0
  <2>1. Tells(refreshState[s], s, extra) /\ refreshState[s] \in Marks /\ extra \in {0, 1} /\ (extra = 1 => Unsaved(s))
    BY DEF TriesCount, RefreshTypes
  <2>2. PICK more \in {0, 1} : more = 1 <=> Unsaved(s)'
    OBVIOUS
  <2>3. lost'[s] >= lost[s] + 1 \/ (Unsaved(s) => Unsaved(s)')
    <3> SUFFICES ASSUME NEW x \in Passes, AtWork(pass[x]), s \in pass[x].begun, ~(lost'[s] >= lost[s] + 1)
                 PROVE  AtWork(pass'[x]) /\ s \in pass'[x].begun
      BY DEF Unsaved, AtWork
    <3> QED
      BY <1>1
  <2> HIDE DEF extra
  <2>4. extra + lost[s] <= more + lost'[s]
    BY <2>1, <2>2, <2>3, SourceTypes, SourceTypesNext DEF Grows
  <2>5. \A r \in Marks : Tells(r, s, extra) => Tells(r, s, more)'
    BY <1>2, <2>1, <2>4, TellsOn
  <2>6. Tells(refreshState[s], s, more)'
    BY <2>1, <2>5 DEF Tells, Counted
  <2>7. more = (IF Unsaved(s) THEN 1 ELSE 0)'
    BY <2>2
  <2> QED
    BY <2>6, <2>7 DEF Tells, Counted
<1>5. \A x \in Passes : PassTells(pass[x])'
  <2> TAKE x \in Passes
  <2>1. CASE x = p
    BY <1>1, <2>1
  <2>2. CASE x # p
    <3>1. pass'[x] = pass[x] /\ pass[x] \in PassRecords /\ PlaceFits(pass[x]) /\ PassTells(pass[x])
      BY <1>1, <2>2 DEF RefreshTypes, LocksFit, TriesCount
    <3>2. \A i \in PassRecords : PlaceFits(i) /\ PassTells(i) => PassTells(i)'
      BY KnownOn
    <3> QED
      BY <3>1, <3>2
  <2> QED
    BY <2>1, <2>2
<1> QED
  BY <1>3, <1>4, <1>5 DEF TriesCount, AttemptsBounded

\* A pass that is not at work knows nothing of tries.
LEMMA IdleTells ==
    ASSUME NEW q, ~AtWork(q), q.at = "looked" => q.mine # 0
    PROVE  PassTells(q)'
BY DEF PassTells, PlanTells, LookedTells, RebuildTells, AtWork

LEMMA StillGrows ==
    ASSUME RefreshTypes, UNCHANGED <<world, tried>>, \A s \in Sources : lost'[s] >= lost[s]
    PROVE  Grows
BY DEF Grows, RefreshTypes, SourceRecords

LEMMA NothingForgotten ==
    ASSUME RefreshTypes, lost' = lost
    PROVE  \A s \in Sources : lost'[s] >= lost[s]
BY DEF RefreshTypes

\* What was forgotten is told by any record.
LEMMA ForgottenTells ==
    ASSUME RefreshTypes', NEW s \in Sources, NEW r \in Marks, tried'[s].times = 0
    PROVE  Tells(r, s, 0)'
<1>1. Counted(r, s)' \in Nat
  BY MarkTypes DEF Counted, Marks
<1> QED
  BY <1>1, SourceTypesNext DEF Tells

\* The plan goes on telling, with another record for the source at hand.
LEMMA PlanOn ==
    ASSUME RefreshTypes, RefreshTypes', TriesCount, Grows, NEW p \in Passes, AtWork(pass[p]), pass[p].todo # <<>>,
           NEW q \in PassRecords, NEW r \in Marks, NEW h \in Sources, h = Source(p),
           q.plan = [pass[p].plan EXCEPT ![h] = r], Tells(r, h, 0)' \/ (q.at \in Rebuilding /\ h = Head(q.todo))
    PROVE  PlanTells(q)'
<1>1. pass[p].plan \in [Sources -> Marks] /\ Source(p) = Head(pass[p].todo) /\ Source(p) \in Sources
  BY AtHand
<1>2. \A s \in Sources : tried[s].files <= world[s].files
  BY DEF TriesCount
<1>3. ASSUME NEW s \in Sources, ~(q.at \in Rebuilding /\ s = Head(q.todo))  PROVE Tells(q.plan[s], s, 0)'
  <2>1. CASE s = h
    <3>1. q.plan[s] = r
      BY <1>1, <2>1
    <3> QED
      BY <1>3, <2>1, <3>1
  <2>2. CASE s # h
    <3>1. q.plan[s] = pass[p].plan[s] /\ q.plan[s] \in Marks
      BY <1>1, <2>2
    <3>2. Tells(q.plan[s], s, 0)
      BY <1>1, <2>2, <3>1 DEF TriesCount, PassTells, PlanTells
    <3>3. 0 + lost[s] <= 0 + lost'[s]
      BY SourceTypes, SourceTypesNext DEF Grows
    <3>4. \A e \in Marks : Tells(e, s, 0) => Tells(e, s, 0)'
      BY <1>2, <3>3, TellsOn
    <3> QED
      BY <3>1, <3>2, <3>4
  <2> QED
    BY <2>1, <2>2
<1> QED
  BY <1>3 DEF PlanTells, AtWork

\* A record that counts as much goes on telling.
LEMMA AsMuch ==
    ASSUME RefreshTypes, RefreshTypes', UNCHANGED <<world, tried, lost>>, NEW s \in Sources, NEW e \in Marks,
        NEW r \in Marks,
           Tells(e, s, 0), Counted(e, s) <= Counted(r, s)
    PROVE  Tells(r, s, 0)'
<1>1. Counted(r, s)' = Counted(r, s)
  BY DEF Counted
<1>2. Counted(r, s) \in Nat /\ Counted(e, s) \in Nat
  BY MarkTypes
<1> QED
  BY <1>1, <1>2, SourceTypes DEF Tells

LEMMA LooksTell ==
    ASSUME NEW q, NEW s, s = Head(q.todo), tried'[s].files <= q.files, q.files <= world'[s].files,
           tried'[s].files = q.files => tried'[s].times <= AttemptsAt(q.plan[s], q.files) + lost'[s]
    PROVE  LookedTells(q)'
BY DEF LookedTells, AttemptsAt

\* Passes that take the lock or give it back are not at work.
LEMMA LockStepsTell ==
    ASSUME RefreshTypes, RefreshTypes', LocksFit, TriesCount, NEW p \in Passes, NEW q \in PassRecords,
           pass' = [pass EXCEPT ![p] = q], UNCHANGED <<refreshState, world, tried, lost>>,
           ~AtWork(pass[p]), ~AtWork(q), q.at # "looked"
    PROVE  TriesCount'
<1>1. Grows
  BY NothingForgotten, StillGrows
<1>2. PassTells(q)'
  BY IdleTells
<1> QED
  BY <1>1, <1>2, TriesKept

LEMMA GivesUpTells ==
    ASSUME RefreshTypes, RefreshTypes', LocksFit, TriesCount, NEW p \in Passes, WriteFails(p) \/ PassDies(p)
    PROVE  TriesCount'
<1>1. PICK q \in PassRecords :
        /\ pass' = [pass EXCEPT ![p] = q]
        /\ \/ pass[p].at \in {"source", "saving"} /\ q.at = "releasing" /\ Alike(q, pass[p])
           \/ q.at = "dead" /\ Cleared(q)
  BY GivesUpActs
<1>2. UNCHANGED <<refreshState, world, tried>> /\ Forgotten(p)
  BY GivesUpActs
<1>3. \A s \in Sources : lost'[s] >= lost[s] /\ (s \in pass[p].begun => lost'[s] >= lost[s] + 1)
  BY <1>2, ForgottenFacts, SourceTypes
<1>4. Grows
  BY <1>2, <1>3, StillGrows
<1>5. ~AtWork(q) /\ q.at # "looked"
  BY <1>1 DEF AtWork, Rebuilding
<1>6. pass[p].begun \subseteq Sources
  BY DEF RefreshTypes, PassRecords
<1>7. PassTells(q)'
  BY <1>5, IdleTells
<1> QED
  BY <1>1, <1>2, <1>3, <1>4, <1>5, <1>6, <1>7, TriesKept

LEMMA LoadStateTells ==
    ASSUME RefreshTypes, RefreshTypes', LocksFit, TriesCount, NEW p \in Passes, LoadState(p)
    PROVE  TriesCount'
<1>1. PICK q \in PassRecords :
        /\ pass' = [pass EXCEPT ![p] = q] /\ q.at = "source" /\ q.plan = refreshState
        /\ q.mine = pass[p].mine /\ q.guards = pass[p].guards /\ q.begun = pass[p].begun
  BY LoadStateActs
<1>2. pass[p].at = "loading" /\ pass[p].mine # 0 /\ UNCHANGED <<refreshState, world, tried, lost>>
  BY LoadStateActs DEF LocksFit, PlaceFits
<1>3. Grows
  BY <1>2, NothingForgotten, StillGrows
<1>4. ASSUME NEW s \in Sources  PROVE Tells(refreshState[s], s, 0)'
  <2>1. ~Unsaved(s)
    BY <1>2, LockFacts DEF Unsaved, AtWork, Rebuilding
  <2>2. Tells(refreshState[s], s, 0) /\ refreshState[s] \in Marks
    BY <2>1 DEF TriesCount, RefreshTypes
  <2>3. Counted(refreshState[s], s) <= Counted(refreshState[s], s)
    BY <2>2, MarkTypes
  <2>4. \A r \in Marks : Tells(r, s, 0) => Tells(r, s, 0)'
    BY <1>2 DEF Tells, Counted
  <2> QED
    BY <1>2, <2>2, <2>4 DEF Tells, Counted
<1>5. PassTells(q)'
  BY <1>1, <1>2, <1>4 DEF PassTells, PlanTells, LookedTells, RebuildTells, Rebuilding, Tells, Counted
<1>6. ~AtWork(pass[p])
  BY <1>2 DEF AtWork, Rebuilding
<1> QED
  BY <1>1, <1>2, <1>3, <1>5, <1>6, TriesKept

LEMMA ReconcileTells ==
    ASSUME RefreshTypes, RefreshTypes', LocksFit, TriesCount, NEW p \in Passes, Reconcile(p)
    PROVE  TriesCount'
<1>1. /\ pass[p].at = "source" /\ pass[p].todo # <<>> /\ pass[p].mine # 0 /\ refreshState' = refreshState
      /\ lost' = lost
      /\ AtWork(pass[p])
  BY ReconcileActs DEF LocksFit, PlaceFits, AtWork
<1>2. PICK q \in PassRecords :
        /\ pass' = [pass EXCEPT ![p] = q]
        /\ ReconcileLeaves(p, q) \/ ReconcileLooks(p, q) \/ ReconcileDone(p, q)
  BY ReconcileActs
<1>3. PICK s \in Sources : s = Source(p)
  BY <1>1, AtHand
<1>4. /\ Prior(p) \in Marks /\ Prior(p) = pass[p].plan[s] /\ Tells(pass[p].plan[s], s, 0) /\ s = Head(pass[p].todo)
      /\ tried[s].files <= world[s].files
  <2>1. PlanTells(pass[p]) /\ pass[p].at \notin Rebuilding
    BY <1>1 DEF TriesCount, PassTells, Rebuilding
  <2>2. Tells(pass[p].plan[s], s, 0)
    BY <1>1, <2>1 DEF PlanTells
  <2> QED
    BY <1>1, <1>3, <2>2, AtHand DEF TriesCount
<1>5. CASE ReconcileLeaves(p, q)
  <2>1. PICK r \in Marks : LeftWith(q, p, r, "source") /\ Counted(Prior(p), s) <= Counted(r, s)
    BY <1>3, <1>5 DEF ReconcileLeaves
  <2>2. UNCHANGED <<world, tried>>
    BY <1>5 DEF ReconcileLeaves
  <2>3. Grows
    BY <1>1, <2>2, NothingForgotten, StillGrows
  <2>4. Tells(r, s, 0)'
    BY <1>1, <1>4, <2>1, <2>2, AsMuch
  <2>5. PlanTells(q)'
    BY <1>1, <1>3, <2>1, <2>3, <2>4, PlanOn DEF LeftWith
  <2>6. PassTells(q)'
    BY <2>1, <2>5 DEF LeftWith, PassTells, LookedTells, RebuildTells, Rebuilding
  <2>7. AtWork(q) /\ q.begun = pass[p].begun
    BY <1>1, <2>1 DEF LeftWith, AtWork
  <2> QED
    BY <1>1, <1>2, <2>3, <2>6, <2>7, TriesKept
<1>6. CASE ReconcileLooks(p, q)
  <2>1. PICK r \in Marks : /\ q.plan = [pass[p].plan EXCEPT ![s] = r] /\ Counted(Prior(p), s) <= Counted(r, s)
                           /\ ~(r.unreconciled /\ r.origin # world[s].origin)
    BY <1>3, <1>6 DEF ReconcileLooks
  <2>2. /\ UNCHANGED <<world, tried>> /\ q.at = "looked" /\ q.files = world[s].files /\ q.todo = pass[p].todo
        /\ q.mine = pass[p].mine /\ q.begun = pass[p].begun
    BY <1>3, <1>6 DEF ReconcileLooks
  <2>3. Grows
    BY <1>1, <2>2, NothingForgotten, StillGrows
  <2>4. Tells(r, s, 0)'
    BY <1>1, <1>4, <2>1, <2>2, AsMuch
  <2>5. PlanTells(q)'
    BY <1>1, <1>3, <2>1, <2>3, <2>4, PlanOn
  <2>6. LookedTells(q)'
    <3>1. q.plan[s] = r /\ Head(q.todo) = s
      BY <1>1, <1>4, <2>1, <2>2, AtHand
    <3>2. Counted(r, s) = AttemptsAt(r, world[s].files)
      BY <2>1 DEF Counted, AttemptsAt
    <3>3. tried[s].files = world[s].files => tried[s].times <= Counted(r, s) + lost[s]
      <4>1. tried'[s].files = world'[s].files => tried'[s].times <= Counted(r, s)' + lost'[s] + 0
        BY <2>4 DEF Tells
      <4>2. Counted(r, s)' = Counted(r, s) /\ Counted(r, s) \in Nat
        BY <2>2, MarkTypes DEF Counted
      <4> QED
        BY <1>1, <2>2, <4>1, <4>2, SourceTypes
    <3> QED
      <4>1. /\ q.files = world[s].files /\ world'[s].files = world[s].files
            /\ tried'[s] = tried[s] /\ lost'[s] = lost[s] /\ world[s].files \in Nat
        BY <1>1, <2>2, SourceTypes
      <4>2. tried'[s].files <= q.files /\ q.files <= world'[s].files
        BY <1>4, <4>1
      <4>3. tried'[s].files = q.files => tried'[s].times <= AttemptsAt(q.plan[s], q.files) + lost'[s]
        BY <3>1, <3>2, <3>3, <4>1
      <4> QED
        BY <3>1, <4>2, <4>3, LooksTell
  <2>7. PassTells(q)'
    BY <2>2, <2>5, <2>6 DEF PassTells, RebuildTells, Rebuilding
  <2>8. AtWork(q)
    BY <1>1, <2>2 DEF AtWork
  <2> QED
    BY <1>1, <1>2, <2>2, <2>3, <2>7, <2>8, TriesKept
<1>7. CASE ReconcileDone(p, q)
  <2>1. PICK r \in Marks : LeftWith(q, p, r, "saving")
    BY <1>7 DEF ReconcileDone
  <2>2. PICK w \in SourceRecords : world' = [world EXCEPT ![s] = w] /\ w.files = world[s].files + 1
    BY <1>3, <1>7 DEF ReconcileDone
  <2>3. tried' = [tried EXCEPT ![s].times = 0]
    BY <1>3, <1>7 DEF ReconcileDone
  <2>4. tried'[s].times = 0
    BY <2>3 DEF RefreshTypes
  <2>5. Grows
    <3> SUFFICES ASSUME NEW x \in Sources
                 PROVE  /\ lost'[x] >= lost[x] /\ world'[x].files >= world[x].files /\ tried'[x].files = tried[x].files
                        /\ \/ tried'[x].times = 0
                           \/ /\ tried'[x].times = tried[x].times
                              /\ world'[x].files = world[x].files => world'[x].origin = world[x].origin
      BY DEF Grows
    <3>1. lost'[x] >= lost[x]
      BY <1>1, NothingForgotten
    <3>2. CASE x = s
      BY <2>2, <2>3, <2>4, <3>1, <3>2, SourceTypes DEF RefreshTypes
    <3>3. CASE x # s
      BY <2>2, <2>3, <3>1, <3>3, SourceTypes DEF RefreshTypes
    <3> QED
      BY <3>2, <3>3
  <2>6. Tells(r, s, 0)'
    BY <2>4, ForgottenTells
  <2>7. PlanTells(q)'
    BY <1>1, <1>3, <2>1, <2>5, <2>6, PlanOn DEF LeftWith
  <2>8. PassTells(q)'
    BY <2>1, <2>7 DEF LeftWith, PassTells, LookedTells, RebuildTells, Rebuilding
  <2>9. AtWork(q) /\ q.begun = pass[p].begun
    BY <1>1, <2>1 DEF LeftWith, AtWork
  <2> QED
    BY <1>1, <1>2, <2>5, <2>8, <2>9, TriesKept
<1> QED
  BY <1>2, <1>5, <1>6, <1>7

LEMMA FingerprintTells ==
    ASSUME RefreshTypes, RefreshTypes', LocksFit, TriesCount, NEW p \in Passes, Fingerprint(p)
    PROVE  TriesCount'
<1>1. /\ pass[p].at = "source" /\ pass[p].todo # <<>> /\ pass[p].mine # 0 /\ AtWork(pass[p])
      /\ UNCHANGED <<refreshState, world, tried, lost>>
  BY FingerprintActs DEF LocksFit, PlaceFits, AtWork
<1>2. PICK q \in PassRecords :
        /\ pass' = [pass EXCEPT ![p] = q] /\ q.at = "looked" /\ q.files = world[Source(p)].files
        /\ q.todo = pass[p].todo /\ q.plan = pass[p].plan
        /\ q.mine = pass[p].mine /\ q.guards = pass[p].guards /\ q.begun = pass[p].begun
  BY FingerprintActs
<1>3. PICK s \in Sources : s = Source(p) /\ s = Head(pass[p].todo)
  BY <1>1, AtHand
<1>4. Grows
  BY <1>1, NothingForgotten, StillGrows
<1>5. \A x \in Sources : Tells(pass[p].plan[x], x, 0)
  BY <1>1 DEF TriesCount, PassTells, PlanTells, Rebuilding
<1>6. PlanTells(q)'
  <2> SUFFICES ASSUME NEW x \in Sources  PROVE Tells(q.plan[x], x, 0)'
    BY DEF PlanTells
  <2>1. Tells(q.plan[x], x, 0)
    BY <1>2, <1>5
  <2> QED
    BY <1>1, <2>1 DEF Tells, Counted
<1>7. LookedTells(q)'
  <2> DEFINE r == q.plan[s]
  <2>1. r \in Marks /\ Tells(r, s, 0) /\ tried[s].files <= world[s].files
    BY <1>2, <1>5 DEF PassRecords, TriesCount
  <2> HIDE DEF r
  <2>2. Counted(r, s) \in Nat /\ AttemptsAt(r, world[s].files) \in Nat /\ Counted(r, s) <= AttemptsAt(r,
      world[s].files)
    BY <2>1, MarkTypes DEF Counted, AttemptsAt
  <2>3. tried[s].files = world[s].files => tried[s].times <= AttemptsAt(r, world[s].files) + lost[s]
    BY <2>1, <2>2, SourceTypes DEF Tells
  <2> QED
    <3>1. Head(q.todo) = s /\ q.files = world[s].files /\ q.plan[s] = r /\ world'[s].files = world[s].files
          /\ tried'[s] = tried[s] /\ lost'[s] = lost[s]
      BY <1>1, <1>2, <1>3 DEF r
    <3>2. world[s].files \in Nat
      BY SourceTypes
    <3>3. tried'[s].files <= q.files /\ q.files <= world'[s].files
      BY <2>1, <3>1, <3>2
    <3>4. tried'[s].files = q.files => tried'[s].times <= AttemptsAt(q.plan[s], q.files) + lost'[s]
      BY <2>3, <3>1
    <3> QED
      BY <3>1, <3>3, <3>4, LooksTell
<1>8. PassTells(q)' /\ AtWork(q)
  BY <1>1, <1>2, <1>6, <1>7 DEF PassTells, RebuildTells, Rebuilding, AtWork
<1> QED
  BY <1>1, <1>2, <1>4, <1>8, TriesKept

\* Only the pass that holds the lock knows of tries.
LEMMA OthersTell ==
    ASSUME RefreshTypes, LocksFit, NEW p \in Passes, pass[p].mine # 0, NEW q, pass' = [pass EXCEPT ![p] = q],
           PassTells(q)'
    PROVE  \A x \in Passes : PassTells(pass[x])'
<1> TAKE x \in Passes
<1>1. CASE x = p
  <2>1. pass'[x] = q
    BY <1>1 DEF RefreshTypes
  <2> QED
    BY <2>1
<1>2. CASE x # p
  <2>1. pass'[x] = pass[x] /\ pass[x].mine = 0 /\ PlaceFits(pass[x])
    BY <1>2, LockFacts DEF RefreshTypes, LocksFit
  <2>2. ~AtWork(pass'[x]) /\ pass'[x].at # "looked"
    BY <2>1 DEF AtWork, PlaceFits
  <2>3. \A i : ~AtWork(i) /\ i.at # "looked" => PassTells(i)'
    BY IdleTells
  <2> QED
    BY <2>2, <2>3
<1> QED
  BY <1>1, <1>2

\* The attempt is counted when the rebuilding starts; the state file does not
\* know of it yet.
LEMMA TryTells ==
    ASSUME RefreshTypes, RefreshTypes', LocksFit, TriesCount, NEW p \in Passes, pass[p].at = "looked",
           UNCHANGED <<refreshState, world, lost>>, NEW q \in PassRecords, pass' = [pass EXCEPT ![p] = q],
           RefreshTries(p, q)
    PROVE  TriesCount'
<1>1. pass[p].mine # 0 /\ pass[p].todo # <<>> /\ AtWork(pass[p]) /\ pass[p].begun = {}
  BY DEF LocksFit, PlaceFits, AtWork
<1>2. PICK s \in Sources : s = Source(p) /\ s = Head(pass[p].todo)
  BY <1>1, AtHand
<1>3. /\ Attempts(p) < MaxAttempts /\ q.at = "sync" /\ q.plan = [pass[p].plan EXCEPT ![s] = Noted(p)]
      /\ q.todo = pass[p].todo /\ q.files = pass[p].files /\ q.begun = {s} /\ q.mine = pass[p].mine
      /\ tried' = [tried EXCEPT ![s] =
           [files |-> pass[p].files, times |-> IF @.files = pass[p].files THEN @.times + 1 ELSE 1]]
  BY <1>1, <1>2 DEF RefreshTries
<1>4. /\ tried'[s].files = pass[p].files
      /\ tried'[s].times = IF tried[s].files = pass[p].files THEN tried[s].times + 1 ELSE 1
      /\ \A x \in Sources \ {s} : tried'[x] = tried[x]
  BY <1>3 DEF RefreshTypes
<1>5. /\ Attempts(p) = AttemptsAt(pass[p].plan[s], pass[p].files) /\ Attempts(p) \in Nat
      /\ Noted(p) \in Marks /\ Noted(p).files = pass[p].files /\ Noted(p).attempts = Attempts(p)
      /\ ~Noted(p).unreconciled
  BY <1>1, <1>2, AttemptsFacts DEF Prior
<1>6. /\ tried[s].files <= pass[p].files /\ pass[p].files <= world[s].files
      /\ tried[s].files = pass[p].files => tried[s].times <= Attempts(p) + lost[s]
  BY <1>2, <1>5 DEF TriesCount, PassTells, LookedTells
<1>7. \A x \in Sources : tried'[x].files <= world'[x].files /\ tried'[x].times <= MaxAttempts + lost'[x]
  <2> TAKE x \in Sources
  <2>1. CASE x = s
    <3>1. pass[p].files \in Nat /\ tried[s].times \in Nat /\ lost[s] \in Nat /\ MaxAttempts \in Nat \ {0}
      BY SourceTypes, RefreshAssumption DEF PassRecords, RefreshTypes
    <3> QED
      BY <1>3, <1>4, <1>5, <1>6, <2>1, <3>1
  <2>2. CASE x # s
    BY <1>4, <2>2 DEF TriesCount, AttemptsBounded
  <2> QED
    BY <2>1, <2>2
<1>8. AtWork(q)
  BY <1>1, <1>3 DEF AtWork, Rebuilding
<1>9. \A x \in Sources : Tells(refreshState[x], x, IF Unsaved(x) THEN 1 ELSE 0)'
  <2> TAKE x \in Sources
  <2>1. Tells(refreshState[x], x, IF Unsaved(x) THEN 1 ELSE 0) /\ refreshState[x] \in Marks
    BY DEF TriesCount, RefreshTypes
  <2>2. ~Unsaved(x)
    BY <1>1, LockFacts DEF Unsaved, AtWork
  <2>3. tried[x].files = world[x].files => tried[x].times <= Counted(refreshState[x], x) + lost[x]
    BY <2>1, <2>2, MarkTypes, SourceTypes DEF Tells
  <2>4. Counted(refreshState[x], x)' = Counted(refreshState[x], x) /\ Counted(refreshState[x], x) \in Nat
    BY <2>1, MarkTypes DEF Counted
  <2>5. CASE x = s
    <3>1. pass'[p] = q
      BY DEF RefreshTypes
    <3>2. Unsaved(x)'
      BY <1>3, <1>8, <2>5, <3>1 DEF Unsaved, AtWork
    <3>3. tried'[x].files = world'[x].files => tried'[x].times <= Counted(refreshState[x], x) + lost'[x] + 1
      <4>1. tried[x].times \in Nat /\ lost[x] \in Nat
        BY SourceTypes
      <4> QED
        BY <1>4, <2>3, <2>4, <2>5, <4>1
    <3> QED
      BY <2>4, <3>2, <3>3 DEF Tells
  <2>6. CASE x # s
    <3>1. tried'[x].files = world'[x].files => tried'[x].times <= Counted(refreshState[x], x) + lost'[x]
      BY <1>4, <2>3, <2>6
    <3>2. lost'[x] \in Nat /\ tried'[x].times \in Nat
      BY SourceTypesNext
    <3>3. Tells(refreshState[x], x, 0)' /\ Tells(refreshState[x], x, 1)'
      BY <2>4, <3>1, <3>2 DEF Tells
    <3> QED
      BY <3>3 DEF Tells
  <2> QED
    BY <2>5, <2>6
<1>10. PassTells(q)'
  <2>1. PlanTells(q)'
    <3> SUFFICES ASSUME NEW x \in Sources, x # s  PROVE Tells(q.plan[x], x, 0)'
      BY <1>2, <1>3 DEF PlanTells, Rebuilding
    <3>1. q.plan[x] = pass[p].plan[x]
      BY <1>1, <1>3, AtHand
    <3>2. Tells(pass[p].plan[x], x, 0)
      BY <1>1, <1>2 DEF TriesCount, PassTells, PlanTells, Rebuilding
    <3>3. tried'[x] = tried[x]
      BY <1>4
    <3> QED
      BY <3>1, <3>2, <3>3 DEF Tells, Counted
  <2>2. LookedTells(q)'
    BY <1>3 DEF LookedTells
  <2>3. RebuildTells(q)'
    <3>1. q.plan[s] = Noted(p) /\ Head(q.todo) = s
      BY <1>1, <1>2, <1>3, AtHand
    <3>2. tried'[s].times <= Attempts(p) + 1 + lost'[s]
      <4>1. tried[s].times \in Nat /\ lost[s] \in Nat
        BY SourceTypes
      <4> QED
        BY <1>4, <1>5, <1>6, <4>1
    <3> QED
      BY <1>3, <1>4, <1>5, <3>1, <3>2 DEF RebuildTells
  <2> QED
    BY <2>1, <2>2, <2>3 DEF PassTells
<1>11. \A x \in Passes : PassTells(pass[x])'
  BY <1>1, <1>10, OthersTell
<1> QED
  BY <1>7, <1>9, <1>11 DEF TriesCount, AttemptsBounded

LEMMA RefreshTells ==
    ASSUME RefreshTypes, RefreshTypes', LocksFit, TriesCount, NEW p \in Passes, Refresh(p)
    PROVE  TriesCount'
<1>1. /\ pass[p].at = "looked" /\ pass[p].todo # <<>> /\ pass[p].mine # 0 /\ AtWork(pass[p])
      /\ UNCHANGED <<refreshState, world, lost>>
  BY DEF Refresh, LocksFit, PlaceFits, AtWork
<1>2. PICK q \in PassRecords : pass' = [pass EXCEPT ![p] = q] /\ (RefreshLeaves(p, q) \/ RefreshTries(p, q))
  BY <1>1, RefreshActs
<1>3. PICK s \in Sources : s = Source(p) /\ s = Head(pass[p].todo) /\ Prior(p) = pass[p].plan[s] /\ Prior(p) \in Marks
  BY <1>1, AtHand
<1>4. CASE RefreshTries(p, q)
  BY <1>1, <1>2, <1>4, TryTells
<1>5. ASSUME NEW r \in Marks, LeftWith(q, p, r, "source"), Grows, Tells(r, s, 0)'
      PROVE  TriesCount'
  <2>1. PlanTells(q)'
    <3>1. q.plan = [pass[p].plan EXCEPT ![s] = r]
      BY <1>3, <1>5 DEF LeftWith
    <3> QED
      BY <1>1, <1>3, <1>5, <3>1, PlanOn
  <2>2. PassTells(q)'
    BY <1>5, <2>1 DEF LeftWith, PassTells, LookedTells, RebuildTells, Rebuilding
  <2>3. AtWork(q) /\ q.begun = pass[p].begun
    BY <1>1, <1>5 DEF LeftWith, AtWork
  <2> QED
    BY <1>1, <1>2, <1>5, <2>2, <2>3, TriesKept
<1>6. CASE tried' = tried /\ LeftWith(q, p, Prior(p), "source")
  <2>1. Grows
    BY <1>1, <1>6, NothingForgotten, StillGrows
  <2> DEFINE r == pass[p].plan[s]
  <2>2. r \in Marks /\ Tells(r, s, 0) /\ LeftWith(q, p, r, "source")
    BY <1>1, <1>3, <1>6 DEF TriesCount, PassTells, PlanTells, Rebuilding
  <2>3. \A e \in Marks : Tells(e, s, 0) => Tells(e, s, 0)'
    BY <1>1, <1>6 DEF Tells, Counted
  <2>4. \A e \in Marks : LeftWith(q, p, e, "source") /\ Tells(e, s, 0)' => TriesCount'
    BY <1>5, <2>1
  <2> QED
    BY <2>2, <2>3, <2>4
<1>7. CASE tried' = tried /\ LeftWith(q, p, Noted(p), "source")
  <2>1. Grows
    BY <1>1, <1>7, NothingForgotten, StillGrows
  <2>2. PICK r \in Marks : r = Noted(p) /\ r.files = pass[p].files /\ ~r.unreconciled /\ r.attempts \in Nat
                           /\ r.attempts = AttemptsAt(pass[p].plan[s], pass[p].files)
    BY <1>1, <1>3, AttemptsFacts
  <2>3. /\ tried[s].files <= pass[p].files /\ pass[p].files <= world[s].files
        /\ tried[s].files = pass[p].files => tried[s].times <= r.attempts + lost[s]
    BY <1>1, <1>3, <2>2 DEF TriesCount, PassTells, LookedTells
  <2>4. ASSUME tried[s].files = world[s].files
        PROVE  tried[s].times <= Counted(r, s) + lost[s]
    <3>1. pass[p].files = world[s].files
      <4>1. pass[p].files \in Nat /\ world[s].files \in Nat
        BY SourceTypes DEF RefreshTypes, PassRecords
      <4> QED
        BY <2>3, <2>4, <4>1
    <3>2. Counted(r, s) = r.attempts
      BY <2>2, <3>1 DEF Counted
    <3> QED
      BY <2>3, <2>4, <3>1, <3>2
  <2>5. Tells(r, s, 0)'
    <3>1. Counted(r, s)' = Counted(r, s) /\ Counted(r, s) \in Nat
      BY <1>1, MarkTypes DEF Counted
    <3> QED
      BY <1>1, <1>7, <2>4, <3>1, SourceTypes DEF Tells
  <2> QED
    BY <1>5, <1>7, <2>1, <2>2, <2>5
<1>8. CASE tried' = [tried EXCEPT ![Source(p)].times = 0] /\ \E r \in Marks : LeftWith(q, p, r, "source")
  <2>1. /\ tried'[s].times = 0 /\ tried'[s].files = tried[s].files
        /\ \A x \in Sources \ {s} : tried'[x] = tried[x]
    BY <1>3, <1>8 DEF RefreshTypes
  <2>2. Grows
    BY <1>1, <2>1, NothingForgotten, SourceTypes DEF Grows
  <2>3. PICK r \in Marks : LeftWith(q, p, r, "source")
    BY <1>8
  <2>4. Tells(r, s, 0)'
    BY <2>1, ForgottenTells
  <2> QED
    BY <1>5, <2>2, <2>3, <2>4
<1> QED
  BY <1>2, <1>4, <1>6, <1>7, <1>8 DEF RefreshLeaves

\* What is saved tells of every source.
LEMMA SaveStateTells ==
    ASSUME RefreshTypes, RefreshTypes', LocksFit, TriesCount, NEW p \in Passes, SaveState(p)
    PROVE  TriesCount'
<1>1. /\ pass[p].at \in {"saving", "source"} /\ pass[p].mine # 0 /\ AtWork(pass[p])
      /\ UNCHANGED <<world, tried, lost>> /\ refreshState' = pass[p].plan
  BY SaveStateActs DEF LocksFit, PlaceFits, AtWork
<1>2. PICK q \in PassRecords :
        /\ pass' = [pass EXCEPT ![p] = q] /\ q.at = (IF pass[p].at = "saving" THEN "source" ELSE "releasing")
        /\ q.plan = pass[p].plan /\ q.todo = pass[p].todo /\ q.begun = {}
        /\ q.mine = pass[p].mine /\ q.guards = pass[p].guards
  BY SaveStateActs
<1>3. pass'[p] = q /\ \A x \in Passes \ {p} : pass'[x] = pass[x]
  BY <1>2 DEF RefreshTypes
<1>4. \A s \in Sources : Tells(q.plan[s], s, 0)
  BY <1>1, <1>2 DEF TriesCount, PassTells, PlanTells, Rebuilding
<1>5. \A s \in Sources : Tells(q.plan[s], s, 0)'
  BY <1>1, <1>4 DEF Tells, Counted
<1>6. \A s \in Sources : Tells(refreshState[s], s, IF Unsaved(s) THEN 1 ELSE 0)'
  <2> TAKE s \in Sources
  <2>1. ~Unsaved(s)'
    BY <1>1, <1>2, <1>3, LockFacts DEF Unsaved, AtWork
  <2>2. refreshState'[s] = q.plan[s]
    BY <1>1, <1>2
  <2>3. Tells(refreshState[s], s, 0)'
    BY <1>5, <2>2 DEF Tells, Counted
  <2> QED
    BY <2>1, <2>3 DEF Tells, Counted
<1>7. PassTells(q)'
  <2>1. PlanTells(q)'
    BY <1>5 DEF PlanTells
  <2> QED
    BY <1>2, <2>1 DEF PassTells, LookedTells, RebuildTells, Rebuilding
<1>8. \A x \in Passes : PassTells(pass[x])'
  BY <1>1, <1>2, <1>7, OthersTell
<1> QED
  BY <1>1, <1>6, <1>8 DEF TriesCount, AttemptsBounded

\* The files and origins are those before, and no pass has failed to save.
SameFiles == \A s \in Sources : world'[s].files = world[s].files /\ world'[s].origin = world[s].origin

\* A rebuilding that ends counts.
LEMMA EndsTells ==
    ASSUME RefreshTypes, RefreshTypes', LocksFit, TriesCount, NEW p \in Passes,
        pass[p].at \in {"idle"} \cup Rebuilding,
           UNCHANGED <<refreshState, lost>>, SameFiles, NEW q \in PassRecords, pass' = [pass EXCEPT ![p] = q],
           NEW well \in BOOLEAN, EndsAs(p, q, well)
    PROVE  TriesCount'
<1>1. PlaceFits(pass[p]) /\ PassTells(pass[p]) /\ \A s \in Sources : tried[s].files <= world[s].files
  BY DEF LocksFit, TriesCount
<1>2. CASE pass[p].todo = <<>> /\ q.at = "over" /\ Cleared(q) /\ tried' = tried
  <2>1. ~AtWork(pass[p]) /\ ~AtWork(q) /\ q.at # "looked"
    BY <1>1, <1>2 DEF AtWork, PlaceFits, Cleared, Rebuilding
  <2>2. Grows
    BY <1>2, SourceTypes, SourceTypesNext DEF Grows, SameFiles
  <2>3. PassTells(q)'
    BY <2>1, IdleTells
  <2> QED
    BY <2>1, <2>2, <2>3, TriesKept
<1>3. ASSUME pass[p].todo # <<>>, NEW s \in Sources, s = Source(p), NEW r \in Marks, LeftWith(q, p, r, "saving"),
             Grows, Tells(r, s, 0)'
      PROVE  TriesCount'
  <2>1. pass[p].mine # 0 /\ AtWork(pass[p])
    BY <1>1, <1>3 DEF PlaceFits, AtWork, Rebuilding
  <2>2. q.plan = [pass[p].plan EXCEPT ![s] = r] /\ q.at = "saving" /\ q.mine = pass[p].mine /\ q.begun = pass[p].begun
    BY <1>3 DEF LeftWith
  <2>3. PlanTells(q)'
    BY <1>3, <2>1, <2>2, PlanOn
  <2>4. PassTells(q)' /\ AtWork(q)
    BY <2>1, <2>2, <2>3 DEF PassTells, LookedTells, RebuildTells, Rebuilding, AtWork
  <2> QED
    BY <1>3, <2>2, <2>4, TriesKept
<1>4. CASE /\ pass[p].todo # <<>> /\ tried' = tried
           /\ \E r \in Marks :
                /\ LeftWith(q, p, r, "saving")
                /\ r.attempts = Prior(p).attempts + 1 /\ r.files = Prior(p).files
                /\ r.unreconciled = Prior(p).unreconciled
  <2>1. PICK s \in Sources : s = Source(p) /\ s = Head(pass[p].todo) /\ Prior(p) = pass[p].plan[s] /\ Prior(p) \in Marks
    BY <1>4, AtHand
  <2>2. PICK r \in Marks :
          /\ LeftWith(q, p, r, "saving")
          /\ r.attempts = pass[p].plan[s].attempts + 1 /\ r.files = pass[p].plan[s].files
          /\ r.unreconciled = pass[p].plan[s].unreconciled
    BY <1>4, <2>1
  <2>3. pass[p].mine # 0 /\ pass[p].at \in Rebuilding
    BY <1>1, <1>4 DEF PlaceFits, Rebuilding
  <2>4. /\ tried[s].files = pass[p].files /\ pass[p].plan[s].files = pass[p].files /\ ~pass[p].plan[s].unreconciled
        /\ tried[s].times <= pass[p].plan[s].attempts + 1 + lost[s]
    BY <1>1, <2>1, <2>3 DEF PassTells, RebuildTells
  <2>5. ASSUME tried'[s].files = world'[s].files
        PROVE  tried'[s].times <= Counted(r, s)' + lost'[s] + 0
    <3>1. r.files = world'[s].files /\ ~r.unreconciled
      BY <1>4, <2>2, <2>4, <2>5
    <3>2. Counted(r, s)' = r.attempts /\ r.attempts \in Nat
      BY <3>1, MarkTypes DEF Counted
    <3>3. lost[s] \in Nat /\ tried[s].times \in Nat
      BY SourceTypes
    <3> QED
      BY <1>4, <2>2, <2>4, <3>2, <3>3
  <2>6. Tells(r, s, 0)'
    BY <2>5 DEF Tells
  <2>7. Grows
    BY <1>4, SourceTypes, SourceTypesNext DEF Grows, SameFiles
  <2> QED
    BY <1>3, <1>4, <2>1, <2>2, <2>6, <2>7
<1>5. CASE /\ pass[p].todo # <<>> /\ tried' = [tried EXCEPT ![Source(p)].times = 0]
           /\ \E r \in Marks : LeftWith(q, p, r, "saving")
  <2>1. PICK s \in Sources : s = Source(p)
    BY <1>5, AtHand
  <2>2. /\ tried'[s].times = 0 /\ tried'[s].files = tried[s].files
        /\ \A x \in Sources \ {s} : tried'[x] = tried[x]
    BY <1>5, <2>1 DEF RefreshTypes
  <2>3. Grows
    BY <2>2, SourceTypes, SourceTypesNext DEF Grows, SameFiles
  <2>4. PICK r \in Marks : LeftWith(q, p, r, "saving")
    BY <1>5
  <2>5. Tells(r, s, 0)'
    BY <2>2, ForgottenTells
  <2> QED
    BY <1>3, <1>5, <2>1, <2>3, <2>4, <2>5
<1> QED
  BY <1>2, <1>4, <1>5 DEF EndsAs

\* A rebuilding that goes on knows what it knew.
LEMMA GoesOnTells ==
    ASSUME RefreshTypes, RefreshTypes', LocksFit, TriesCount, NEW p \in Passes, UNCHANGED <<refreshState, tried,
        lost>>,
           SameFiles, NEW q \in PassRecords, pass' = [pass EXCEPT ![p] = q],
           pass[p].at \in Rebuilding \/ pass[p].mine = 0, q.at \in Rebuilding, q.mine = pass[p].mine,
           q.todo = pass[p].todo, q.plan = pass[p].plan, q.files = pass[p].files, q.begun = pass[p].begun
    PROVE  TriesCount'
<1>1. Grows
  BY SourceTypes, SourceTypesNext DEF Grows, SameFiles
<1>2. PlaceFits(pass[p]) /\ PassTells(pass[p]) /\ pass[p] \in PassRecords
  BY DEF LocksFit, TriesCount, RefreshTypes
<1>3. \A i \in PassRecords : PlaceFits(i) /\ PassTells(i) => PassTells(i)'
  BY <1>1, KnownOn
<1>4. PassTells(q) /\ (q.mine # 0 => PlaceFits(q)) /\ (AtWork(pass[p]) => AtWork(q))
  BY <1>2 DEF PassTells, PlanTells, LookedTells, RebuildTells, AtWork, PlaceFits, Rebuilding
<1>5. PassTells(q)'
  <2>1. CASE q.mine # 0
    BY <1>3, <1>4, <2>1
  <2>2. CASE q.mine = 0
    <3>1. ~AtWork(q) /\ q.at # "looked"
      BY <2>2 DEF AtWork, Rebuilding
    <3> QED
      BY <3>1, IdleTells
  <2> QED
    BY <2>1, <2>2
<1> QED
  BY <1>1, <1>4, <1>5, TriesKept

LEMMA RebuildStepsTell ==
    ASSUME RefreshTypes, RefreshTypes', LocksFit, TriesCount, NEW p \in Passes,
           BeginSync(p) \/ BuildGraph(p) \/ PublishReceipt(p)
    PROVE  TriesCount'
<1>1. Target(p) \in Sources
  BY TargetFacts
<1>2. \A w : Rewrites(p, w) => SameFiles
  BY <1>1 DEF Rewrites, SameFiles, RefreshTypes
<1>3. world' = world => SameFiles
  BY DEF SameFiles
<1>4. CASE BeginSync(p)
  <2>1. /\ pass[p].at \in {"sync", "idle"} /\ UNCHANGED <<refreshState, lost>>
        /\ (pass[p].at \in Rebuilding \/ pass[p].mine = 0)
    BY <1>4, BeginSyncActs DEF Rebuilding, LocksFit, PlaceFits
  <2>2. PICK q \in PassRecords :
          /\ pass' = [pass EXCEPT ![p] = q]
          /\ \/ EndsAs(p, q, FALSE) /\ world' = world
             \/ /\ q.at = "building" /\ q.seen = world[Target(p)].files /\ q.todo = pass[p].todo
                /\ q.plan = pass[p].plan /\ q.files = pass[p].files /\ q.begun = pass[p].begun
                /\ q.mine = pass[p].mine /\ q.guards = pass[p].guards /\ tried' = tried
                /\ \E w : /\ Rewrites(p, w) /\ w.graph = world[Target(p)].graph
                          /\ w.receipt.files = w.receipt.graph
    BY <1>4, BeginSyncActs
  <2>3. CASE EndsAs(p, q, FALSE) /\ world' = world
    BY <1>3, <2>1, <2>2, <2>3, EndsTells DEF Rebuilding
  <2>4. CASE /\ q.at = "building" /\ q.todo = pass[p].todo /\ q.plan = pass[p].plan /\ q.files = pass[p].files
             /\ q.begun = pass[p].begun /\ q.mine = pass[p].mine /\ tried' = tried /\ \E w : Rewrites(p, w)
    <3>1. SameFiles /\ q.at \in Rebuilding
      BY <1>2, <2>4 DEF Rebuilding
    <3> QED
      BY <2>1, <2>2, <2>4, <3>1, GoesOnTells
  <2> QED
    BY <2>2, <2>3, <2>4
<1>5. CASE BuildGraph(p)
  <2>1. pass[p].at = "building" /\ UNCHANGED <<refreshState, lost>>
    BY <1>5, BuildGraphActs
  <2>2. PICK q \in PassRecords :
          /\ pass' = [pass EXCEPT ![p] = q]
          /\ \/ EndsAs(p, q, FALSE) /\ world' = world
             \/ q.at = "built" /\ Alike(q, pass[p]) /\ tried' = tried /\ \E w : Rewrites(p, w)
    BY <1>5, BuildGraphActs
  <2>3. CASE EndsAs(p, q, FALSE) /\ world' = world
    BY <1>3, <2>1, <2>2, <2>3, EndsTells DEF Rebuilding
  <2>4. CASE q.at = "built" /\ Alike(q, pass[p]) /\ tried' = tried /\ \E w : Rewrites(p, w)
    <3>1. SameFiles /\ q.at \in Rebuilding /\ pass[p].at \in Rebuilding
      BY <1>2, <2>1, <2>4 DEF Rebuilding
    <3> QED
      BY <2>1, <2>2, <2>4, <3>1, GoesOnTells DEF Alike
  <2> QED
    BY <2>2, <2>3, <2>4
<1>6. CASE PublishReceipt(p)
  <2>1. pass[p].at = "built" /\ UNCHANGED <<refreshState, lost>> /\ SameFiles
    BY <1>2, <1>3, <1>6, PublishActs
  <2>2. PICK q \in PassRecords : pass' = [pass EXCEPT ![p] = q] /\ \E well \in BOOLEAN : EndsAs(p, q, well)
    BY <1>6, PublishActs
  <2> QED
    BY <2>1, <2>2, EndsTells DEF Rebuilding
<1> QED
  BY <1>4, <1>5, <1>6

LEMMA SourceChangesActs ==
    ASSUME RefreshTypes, NEW s \in Sources, SourceChanges(s)
    PROVE  /\ UNCHANGED <<refreshLock, rescue, refreshState, pass, lost>>
           /\ \E w \in SourceRecords :
               /\ world' = [world EXCEPT ![s] = w] /\ w.receipt = world[s].receipt
               /\ \/ /\ w.files = world[s].files + 1 /\ w.graph = world[s].graph /\ tried' = tried
                  \/ /\ w.files = world[s].files /\ w.graph = world[s].graph
                     /\ tried' = [tried EXCEPT ![s].times = 0]
                  \/ /\ w.files = world[s].files /\ w.graph = 0 /\ w.origin = world[s].origin /\ tried' = tried
<1>1. world[s] \in SourceRecords /\ world[s].files + 1 \in Nat /\ world[s].origin + 1 \in Nat
  BY DEF RefreshTypes, SourceRecords
<1>2. CASE world' = [world EXCEPT ![s].files = @ + 1] /\ UNCHANGED tried
  <2> DEFINE w == [world[s] EXCEPT !.files = @ + 1]
  <2>1. w \in SourceRecords
    BY ZenonT(60), <1>1 DEF SourceRecords
  <2>2. world' = [world EXCEPT ![s] = w]
    BY <1>2 DEF RefreshTypes
  <2>3. w.receipt = world[s].receipt /\ w.files = world[s].files + 1 /\ w.graph = world[s].graph
    BY <1>1 DEF SourceRecords
  <2> HIDE DEF w
  <2> QED
    BY <1>2, <2>1, <2>2, <2>3 DEF SourceChanges
<1>3. CASE world' = [world EXCEPT ![s].origin = @ + 1] /\ tried' = [tried EXCEPT ![s].times = 0]
  <2> DEFINE w == [world[s] EXCEPT !.origin = @ + 1]
  <2>1. w \in SourceRecords
    BY ZenonT(60), <1>1 DEF SourceRecords
  <2>2. world' = [world EXCEPT ![s] = w]
    BY <1>3 DEF RefreshTypes
  <2>3. w.receipt = world[s].receipt /\ w.files = world[s].files /\ w.graph = world[s].graph
    BY <1>1 DEF SourceRecords
  <2> HIDE DEF w
  <2> QED
    BY <1>3, <2>1, <2>2, <2>3 DEF SourceChanges
<1>4. CASE world' = [world EXCEPT ![s].graph = 0] /\ UNCHANGED tried
  <2> DEFINE w == [world[s] EXCEPT !.graph = 0]
  <2>1. w \in SourceRecords
    BY ZenonT(60), <1>1 DEF SourceRecords
  <2>2. world' = [world EXCEPT ![s] = w]
    BY <1>4 DEF RefreshTypes
  <2>3. w.receipt = world[s].receipt /\ w.files = world[s].files /\ w.graph = 0 /\ w.origin = world[s].origin
    BY <1>1 DEF SourceRecords
  <2> HIDE DEF w
  <2> QED
    BY <1>4, <2>1, <2>2, <2>3 DEF SourceChanges
<1> QED
  BY <1>2, <1>3, <1>4 DEF SourceChanges

LEMMA SourceChangesTells ==
    ASSUME RefreshTypes, RefreshTypes', LocksFit, TriesCount, NEW s \in Sources, SourceChanges(s)
    PROVE  TriesCount'
<1>1. UNCHANGED <<refreshState, pass, lost>>
  BY SourceChangesActs
<1>2. PICK w \in SourceRecords :
        /\ world' = [world EXCEPT ![s] = w]
        /\ \/ w.files = world[s].files + 1 /\ tried' = tried
           \/ w.files = world[s].files /\ tried' = [tried EXCEPT ![s].times = 0]
           \/ w.files = world[s].files /\ w.origin = world[s].origin /\ tried' = tried
  BY SourceChangesActs
<1>3. Grows
  <2> SUFFICES ASSUME NEW x \in Sources
               PROVE  /\ lost'[x] >= lost[x] /\ world'[x].files >= world[x].files /\ tried'[x].files = tried[x].files
                      /\ \/ tried'[x].times = 0
                         \/ /\ tried'[x].times = tried[x].times
                            /\ world'[x].files = world[x].files => world'[x].origin = world[x].origin
    BY DEF Grows
  <2>1. lost'[x] >= lost[x]
    BY <1>1, NothingForgotten
  <2>2. CASE x = s
    BY <1>2, <2>1, <2>2, SourceTypes DEF RefreshTypes
  <2>3. CASE x # s
    BY <1>2, <2>1, <2>3, SourceTypes DEF RefreshTypes
  <2> QED
    BY <2>2, <2>3
<1>4. \A x \in Sources : tried'[x].files <= world'[x].files /\ tried'[x].times <= MaxAttempts + lost'[x]
  <2> TAKE x \in Sources
  <2>1. tried[x].files <= world[x].files /\ tried[x].times <= MaxAttempts + lost[x]
    BY DEF TriesCount, AttemptsBounded
  <2>2. /\ lost'[x] >= lost[x] /\ world'[x].files >= world[x].files /\ tried'[x].files = tried[x].files
        /\ (tried'[x].times = 0 \/ tried'[x].times = tried[x].times)
    BY <1>3 DEF Grows
  <2> QED
    BY SMTT(30), <2>1, <2>2, SourceTypes, SourceTypesNext, RefreshAssumption
<1>5. \A x \in Sources : Tells(refreshState[x], x, IF Unsaved(x) THEN 1 ELSE 0)'
  <2> TAKE x \in Sources
  <2>1. PICK extra \in {0, 1} : extra = IF Unsaved(x) THEN 1 ELSE 0
    OBVIOUS
  <2>2. Unsaved(x)' <=> Unsaved(x)
    BY <1>1 DEF Unsaved, AtWork
  <2>3. Tells(refreshState[x], x, extra) /\ refreshState[x] \in Marks /\ tried[x].files <= world[x].files
    BY <2>1 DEF TriesCount, RefreshTypes
  <2>4. extra + lost[x] <= extra + lost'[x]
    BY <1>1, SourceTypes
  <2>5. \A r \in Marks : Tells(r, x, extra) => Tells(r, x, extra)'
    BY <1>3, <2>3, <2>4, TellsOn
  <2>6. Tells(refreshState[x], x, extra)'
    BY <1>1, <2>3, <2>5 DEF Tells, Counted
  <2>7. extra = (IF Unsaved(x) THEN 1 ELSE 0)'
    BY <2>1, <2>2
  <2> QED
    BY <2>6, <2>7 DEF Tells, Counted
<1>6. \A x \in Passes : PassTells(pass[x])'
  <2> TAKE x \in Passes
  <2>1. pass'[x] = pass[x] /\ pass[x] \in PassRecords /\ PlaceFits(pass[x]) /\ PassTells(pass[x])
    BY <1>1 DEF RefreshTypes, LocksFit, TriesCount
  <2>2. \A i \in PassRecords : PlaceFits(i) /\ PassTells(i) => PassTells(i)'
    BY <1>3, KnownOn
  <2> QED
    BY <2>1, <2>2
<1> QED
  BY <1>4, <1>5, <1>6 DEF TriesCount, AttemptsBounded

-----------------------------------------------------------------------------
\* The graphs and their receipts.

\* A graph is kept, lost, or that of the files there are; or whoever is about to
\* vouch for it knows of what it was built, or it is put there by a tool that nobody
\* waits for.
GraphsChange ==
    \A s \in Sources :
      /\ world'[s].files >= world[s].files /\ world'[s].graph <= world'[s].files
      /\ world'[s].receipt.files = world'[s].receipt.graph \/ s \in strays'
      /\ \/ world'[s].graph \in {0, world[s].graph, world'[s].files} /\ (s \in strays => s \in strays')
         \/ \A x \in Passes : pass[x].at = "built" /\ TargetOf(pass[x]) = s /\ pass'[x] = pass[x]
                              => pass[x].seen <= world'[s].graph \/ s \in strays'

LEMMA BuilderOn ==
    ASSUME RefreshTypes, RefreshTypes', GraphsFit, GraphsChange
    PROVE  /\ \A s \in Sources : /\ world'[s].graph <= world'[s].files
                                 /\ world'[s].receipt.files = world'[s].receipt.graph \/ s \in strays'
           /\ \A x \in Passes : pass'[x] = pass[x] => BuilderKnows(pass[x])'
<1>1. \A s \in Sources : /\ world'[s].graph <= world'[s].files
                         /\ world'[s].receipt.files = world'[s].receipt.graph \/ s \in strays'
  BY DEF GraphsChange
<1>2. ASSUME NEW x \in Passes, pass'[x] = pass[x]  PROVE BuilderKnows(pass[x])'
  <2>1. BuilderKnows(pass[x]) /\ pass[x].todo \in Seq(Sources) /\ pass[x].seen \in Nat
    BY DEF GraphsFit, RefreshTypes, PassRecords
  <2>2. PICK s \in Sources : s = TargetOf(pass[x])
    BY <2>1, SourcesFacts, TodoFacts DEF TargetOf
  <2>3. /\ world[s].files \in Nat /\ world'[s].files \in Nat /\ world[s].graph \in Nat /\ world'[s].graph \in Nat
        /\ world'[s].files >= world[s].files
    BY SourceTypes, SourceTypesNext DEF GraphsChange
  <2>4. pass[x].at \in {"building", "built"} => pass[x].seen <= world'[s].files
    BY <2>1, <2>2, <2>3 DEF BuilderKnows
  <2>5. pass[x].at = "built" => world'[s].graph = 0 \/ pass[x].seen <= world'[s].graph \/ s \in strays'
    <3>1. CASE world'[s].graph \in {0, world[s].graph, world'[s].files} /\ (s \in strays => s \in strays')
      BY <2>1, <2>2, <2>3, <2>4, <3>1 DEF BuilderKnows
    <3>2. CASE \A y \in Passes : pass[y].at = "built" /\ TargetOf(pass[y]) = s /\ pass'[y] = pass[y]
                                 => pass[y].seen <= world'[s].graph \/ s \in strays'
      BY <1>2, <2>2, <3>2
    <3> QED
      BY <3>1, <3>2 DEF GraphsChange
  <2> QED
    BY <1>2, <2>2, <2>4, <2>5 DEF BuilderKnows, TargetOf
<1> QED
  BY <1>1, <1>2

LEMMA GraphsKept ==
    ASSUME RefreshTypes, RefreshTypes', GraphsFit, NEW p \in Passes, NEW q \in PassRecords,
           pass' = [pass EXCEPT ![p] = q], BuilderKnows(q)', GraphsChange
    PROVE  GraphsFit'
<1>1. pass'[p] = q /\ \A x \in Passes \ {p} : pass'[x] = pass[x]
  BY DEF RefreshTypes
<1>2. \A x \in Passes : BuilderKnows(pass[x])'
  BY <1>1, BuilderOn
<1> QED
  BY <1>2, BuilderOn DEF GraphsFit

\* A step that is no rebuilding and leaves the graphs alone.
LEMMA GraphsLeft ==
    ASSUME RefreshTypes, RefreshTypes', GraphsFit, NEW p \in Passes, NEW q \in PassRecords,
           pass' = [pass EXCEPT ![p] = q], q.at \notin {"building", "built"}, UNCHANGED <<world, strays>>
    PROVE  GraphsFit'
<1>1. BuilderKnows(q)'
  BY DEF BuilderKnows
<1>2. GraphsChange
  BY SourceTypes DEF GraphsFit, GraphsChange
<1> QED
  BY <1>1, <1>2, GraphsKept

LEMMA RebuildStepsFit ==
    ASSUME RefreshTypes, RefreshTypes', GraphsFit, BuildersFit, NEW p \in Passes,
           BeginSync(p) \/ BuildGraph(p) \/ PublishReceipt(p)
    PROVE  GraphsFit'
<1>1. PICK s \in Sources : s = Target(p) /\ s = TargetOf(pass[p]) /\ world[s] \in SourceRecords
  BY TargetFacts
<1>2. /\ world[s].files \in Nat /\ world[s].graph \in Nat /\ world[s].graph <= world[s].files
      /\ world[s].receipt.files = world[s].receipt.graph \/ s \in strays
      /\ BuilderKnows(pass[p]) /\ pass[p].seen \in Nat
  BY SourceTypes DEF GraphsFit, RefreshTypes, PassRecords
<1>3. ASSUME NEW q \in PassRecords, NEW well \in BOOLEAN, EndsAs(p, q, well)
      PROVE  q.at \notin {"building", "built"}
  BY <1>3 DEF EndsAs, LeftWith
<1>4. ASSUME NEW q \in PassRecords, pass' = [pass EXCEPT ![p] = q], BuilderKnows(q)', NEW w, Rewrites(p, w),
             w.graph <= w.files, w.receipt.files = w.receipt.graph \/ s \in strays',
             strays' \in {strays, strays \ {s}},
             \/ w.graph = world[s].graph /\ strays' = strays
             \/ \A x \in Passes : pass[x].at = "built" => TargetOf(pass[x]) # s
      PROVE  GraphsFit'
  <2>1. world' = [world EXCEPT ![s] = w] /\ w.files = world[s].files
    BY <1>1, <1>4 DEF Rewrites
  <2>2. GraphsChange
    <3> SUFFICES ASSUME NEW x \in Sources
                 PROVE  /\ world'[x].files >= world[x].files /\ world'[x].graph <= world'[x].files
                        /\ world'[x].receipt.files = world'[x].receipt.graph \/ x \in strays'
                        /\ \/ /\ world'[x].graph \in {0, world[x].graph, world'[x].files}
                              /\ x \in strays => x \in strays'
                           \/ \A y \in Passes : pass[y].at = "built" /\ TargetOf(pass[y]) = x /\ pass'[y] = pass[y]
                                                => pass[y].seen <= world'[x].graph \/ x \in strays'
      BY DEF GraphsChange
    <3>1. CASE x = s
      <4>1. world'[s] = w
        BY <2>1 DEF RefreshTypes
      <4> QED
        BY <1>2, <1>4, <2>1, <3>1, <4>1
    <3>2. CASE x # s
      <4>1. world'[x] = world[x] /\ (x \in strays => x \in strays')
        BY <1>4, <2>1, <3>2 DEF RefreshTypes
      <4> QED
        BY <4>1, SourceTypes DEF GraphsFit
    <3> QED
      BY <3>1, <3>2
  <2> QED
    BY <1>4, <2>2, GraphsKept
<1>5. CASE BeginSync(p)
  <2>1. PICK q \in PassRecords :
          /\ pass' = [pass EXCEPT ![p] = q]
          /\ \/ EndsAs(p, q, FALSE) /\ UNCHANGED <<world, builder, strays>>
             \/ /\ q.at = "building" /\ q.seen = world[Target(p)].files /\ q.todo = pass[p].todo
                /\ \E w : /\ Rewrites(p, w) /\ w.graph = world[Target(p)].graph
                          /\ w.receipt.files = w.receipt.graph
                /\ strays' = strays \ {Target(p)} /\ \A x \in builder[Target(p)] : ~Alive(x)
    BY <1>5, BeginSyncActs
  <2>2. CASE EndsAs(p, q, FALSE) /\ UNCHANGED <<world, builder, strays>>
    BY <1>3, <2>1, <2>2, GraphsLeft
  <2>3. ASSUME q.at = "building", q.seen = world[s].files, q.todo = pass[p].todo, NEW w, Rewrites(p, w),
               w.graph = world[s].graph, w.receipt.files = w.receipt.graph, strays' = strays \ {s},
               \A x \in builder[s] : ~Alive(x)
        PROVE  GraphsFit'
    <3>1. world'[s].files = world[s].files /\ TargetOf(q) = s /\ w.files = world[s].files
      BY <1>1, <2>3 DEF Rewrites, RefreshTypes, TargetOf
    <3>2. BuilderKnows(q)'
      BY <1>2, <2>3, <3>1 DEF BuilderKnows, TargetOf
    <3>3. \A x \in Passes : pass[x].at = "built" => TargetOf(pass[x]) # s
      BY <2>3 DEF BuildersFit, Builds, Alive
    <3> QED
      BY <1>2, <1>4, <2>1, <2>3, <3>1, <3>2, <3>3
  <2> QED
    BY <1>1, <2>1, <2>2, <2>3
<1>6. CASE BuildGraph(p)
  <2>1. PICK q \in PassRecords :
          /\ pass' = [pass EXCEPT ![p] = q]
          /\ \/ EndsAs(p, q, FALSE) /\ world' = world
             \/ /\ q.at = "built" /\ Alike(q, pass[p])
                /\ \E w : /\ Rewrites(p, w) /\ pass[p].seen <= w.graph /\ w.graph <= w.files
                          /\ w.receipt = world[Target(p)].receipt
    BY <1>6, BuildGraphActs
  <2>4. pass[p].at = "building" /\ strays' = strays
    BY <1>6, BuildGraphActs
  <2>2. CASE EndsAs(p, q, FALSE) /\ world' = world
    BY <1>3, <2>1, <2>2, <2>4, GraphsLeft
  <2>3. ASSUME q.at = "built", Alike(q, pass[p]), NEW w, Rewrites(p, w), pass[p].seen <= w.graph,
               w.graph <= w.files, w.receipt = world[s].receipt
        PROVE  GraphsFit'
    <3>1. world'[s].files = world[s].files /\ world'[s].graph = w.graph /\ TargetOf(q) = s
      BY <1>1, <2>3 DEF Rewrites, RefreshTypes, TargetOf, Alike
    <3>2. q.seen = pass[p].seen /\ q.seen <= world[s].files
      BY <1>1, <1>2, <2>3, <2>4 DEF BuilderKnows, Alike
    <3>3. BuilderKnows(q)'
      BY <2>3, <3>1, <3>2 DEF BuilderKnows, TargetOf
    <3>4. \A x \in Passes : pass[x].at = "built" => TargetOf(pass[x]) # s
      BY <1>1, <2>4 DEF BuildersFit, Builds
    <3> QED
      BY <1>2, <1>4, <2>1, <2>3, <2>4, <3>3, <3>4
  <2> QED
    BY <1>1, <2>1, <2>2, <2>3
<1>7. CASE PublishReceipt(p)
  <2>1. PICK q \in PassRecords : pass' = [pass EXCEPT ![p] = q] /\ \E well \in BOOLEAN : EndsAs(p, q, well)
    BY <1>7, PublishActs
  <2>2. q.at \notin {"building", "built"}
    BY <1>3, <2>1
  <2>5. pass[p].at = "built" /\ strays' = strays
    BY <1>7, PublishActs
  <2>3. CASE world' = world
    BY <2>1, <2>2, <2>3, <2>5, GraphsLeft
  <2>4. ASSUME world[s].graph # 0, world[s].files = pass[p].seen, NEW w, Rewrites(p, w), w.graph = world[s].graph,
               w.receipt = [files |-> world[s].files, graph |-> world[s].graph]
        PROVE  GraphsFit'
    <3>1. pass[p].seen <= world[s].graph \/ s \in strays
      BY <1>1, <1>2, <2>4, <2>5 DEF BuilderKnows
    <3>2. world[s].graph = world[s].files \/ s \in strays
      BY <1>2, <2>4, <3>1
    <3>3. BuilderKnows(q)'
      BY <2>2 DEF BuilderKnows
    <3>4. w.receipt.files = w.receipt.graph \/ s \in strays'
      BY <2>4, <2>5, <3>2
    <3>5. w.graph <= w.files
      BY <1>1, <1>2, <2>4 DEF Rewrites
    <3> QED
      BY <1>4, <2>1, <2>4, <2>5, <3>3, <3>4, <3>5
  <2> QED
    BY <1>1, <1>7, <2>3, <2>4, PublishActs
<1> QED
  BY <1>5, <1>6, <1>7

LEMMA ReconcileFits ==
    ASSUME RefreshTypes, RefreshTypes', GraphsFit, NEW p \in Passes, Reconcile(p)
    PROVE  GraphsFit'
<1>1. PICK q \in PassRecords :
        /\ pass' = [pass EXCEPT ![p] = q]
        /\ ReconcileLeaves(p, q) \/ ReconcileLooks(p, q) \/ ReconcileDone(p, q)
  BY ReconcileActs
<1>2. CASE ReconcileLeaves(p, q) \/ ReconcileLooks(p, q)
  <2>1. UNCHANGED <<world, strays>> /\ q.at \notin {"building", "built"}
    BY <1>2 DEF ReconcileLeaves, ReconcileLooks, LeftWith
  <2> QED
    BY <1>1, <2>1, GraphsLeft
<1>3. CASE ReconcileDone(p, q)
  <2>1. PICK s \in Sources : s = Source(p)
    BY ReconcileActs, AtHand
  <2>2. PICK w \in SourceRecords :
          /\ world' = [world EXCEPT ![s] = w] /\ w.files = world[s].files + 1
          /\ w.graph <= w.files /\ w.receipt.files = w.files /\ w.receipt.graph = w.graph
          /\ (w.graph = w.files /\ strays' = strays \ {s}) \/ strays' = strays \cup {s}
    BY <1>3, <2>1 DEF ReconcileDone
  <2>3. q.at = "saving"
    BY <1>3 DEF ReconcileDone, LeftWith
  <2>4. BuilderKnows(q)'
    BY <2>3 DEF BuilderKnows
  <2>5. GraphsChange
    <3> SUFFICES ASSUME NEW x \in Sources
                 PROVE  /\ world'[x].files >= world[x].files /\ world'[x].graph <= world'[x].files
                        /\ world'[x].receipt.files = world'[x].receipt.graph \/ x \in strays'
                        /\ \/ /\ world'[x].graph \in {0, world[x].graph, world'[x].files}
                              /\ x \in strays => x \in strays'
                           \/ \A y \in Passes : pass[y].at = "built" /\ TargetOf(pass[y]) = x /\ pass'[y] = pass[y]
                                                => pass[y].seen <= world'[x].graph \/ x \in strays'
      BY DEF GraphsChange
    <3>1. CASE x = s
      <4>1. world'[s] = w /\ world[s].files \in Nat /\ w.files >= world[s].files
        BY <2>2, SourceTypes DEF RefreshTypes
      <4>2. CASE strays' = strays \cup {s}
        BY <2>2, <3>1, <4>1, <4>2
      <4>3. CASE w.graph = w.files /\ strays' = strays \ {s}
        <5>1. \A y \in Passes : BuilderKnows(pass[y]) /\ pass[y].seen \in Nat
          BY DEF GraphsFit, RefreshTypes, PassRecords
        <5>2. \A y \in Passes : pass[y].at = "built" /\ TargetOf(pass[y]) = s => pass[y].seen <= w.files
          BY <2>2, <4>1, <5>1 DEF BuilderKnows
        <5> QED
          BY <2>2, <3>1, <4>1, <4>3, <5>2
      <4> QED
        BY <2>2, <4>2, <4>3
    <3>2. CASE x # s
      <4>1. world'[x] = world[x] /\ (x \in strays <=> x \in strays')
        BY <2>2, <3>2 DEF RefreshTypes
      <4> QED
        BY <4>1, SourceTypes DEF GraphsFit
    <3> QED
      BY <3>1, <3>2
  <2> QED
    BY <1>1, <2>4, <2>5, GraphsKept
<1> QED
  BY <1>1, <1>2, <1>3

LEMMA SourceChangesFits ==
    ASSUME RefreshTypes, RefreshTypes', GraphsFit, NEW s \in Sources, SourceChanges(s)
    PROVE  GraphsFit'
<1>1. pass' = pass /\ strays' = strays
  BY SourceChangesActs DEF SourceChanges, tools
<1>2. PICK w \in SourceRecords :
        /\ world' = [world EXCEPT ![s] = w] /\ w.receipt = world[s].receipt
        /\ \/ w.files = world[s].files + 1 /\ w.graph = world[s].graph
           \/ w.files = world[s].files /\ w.graph = world[s].graph
           \/ w.files = world[s].files /\ w.graph = 0
  BY SourceChangesActs
<1>3. GraphsChange
  <2> SUFFICES ASSUME NEW x \in Sources
               PROVE  /\ world'[x].files >= world[x].files /\ world'[x].graph <= world'[x].files
                      /\ world'[x].receipt.files = world'[x].receipt.graph \/ x \in strays'
                      /\ world'[x].graph \in {0, world[x].graph, world'[x].files} /\ (x \in strays => x \in strays')
    BY DEF GraphsChange
  <2>1. CASE x = s
    BY <1>1, <1>2, <2>1, SourceTypes DEF RefreshTypes, GraphsFit
  <2>2. CASE x # s
    BY <1>1, <1>2, <2>2, SourceTypes DEF RefreshTypes, GraphsFit
  <2> QED
    BY <2>1, <2>2
<1>4. \A x \in Passes : BuilderKnows(pass[x])'
  BY <1>1, <1>3, BuilderOn
<1> QED
  BY <1>3, <1>4, BuilderOn DEF GraphsFit

LEMMA OrphanWritesActs ==
    ASSUME RefreshTypes, NEW s \in Sources, OrphanWrites(s)
    PROVE  /\ UNCHANGED <<refreshLock, rescue, refreshState, builder, pass, tried, lost>>
           /\ orphans' \in [Sources -> SUBSET Nat] /\ strays' \in {strays, strays \cup {s}}
           /\ \E w \in SourceRecords :
               /\ world' = [world EXCEPT ![s] = w] /\ w.files = world[s].files /\ w.origin = world[s].origin
               /\ w.receipt = world[s].receipt /\ w.graph <= w.files
               /\ s \in strays' \/ \A p \in Passes : pass[p].at = "built" /\ Target(p) = s => w.graph >= pass[p].seen
<1>1. world[s] \in SourceRecords /\ world[s].files \in Nat /\ orphans[s] \subseteq Nat
  BY DEF RefreshTypes, ToolTypes, SourceRecords
<1>2. PICK v \in orphans[s] : \E g \in v..world[s].files :
        /\ world' = [world EXCEPT ![s].graph = g]
        /\ orphans' \in {orphans, [orphans EXCEPT ![s] = @ \ {v}]}
        /\ strays' = IF \E p \in Passes : pass[p].at = "built" /\ Target(p) = s /\ g < pass[p].seen
                     THEN strays \cup {s} ELSE strays
  BY DEF OrphanWrites
<1>11. PICK g \in v..world[s].files :
        /\ world' = [world EXCEPT ![s].graph = g]
        /\ orphans' \in {orphans, [orphans EXCEPT ![s] = @ \ {v}]}
        /\ strays' = IF \E p \in Passes : pass[p].at = "built" /\ Target(p) = s /\ g < pass[p].seen
                     THEN strays \cup {s} ELSE strays
  BY <1>2
<1>3. v \in Nat /\ g \in Nat /\ g <= world[s].files
  BY <1>1, <1>11
<1> DEFINE w == [world[s] EXCEPT !.graph = g]
<1>4. w \in SourceRecords
  BY ZenonT(60), <1>1, <1>3 DEF SourceRecords
<1>5. w.files = world[s].files /\ w.origin = world[s].origin /\ w.receipt = world[s].receipt /\ w.graph = g
  BY <1>1 DEF SourceRecords
<1>6. world' = [world EXCEPT ![s] = w]
  BY <1>11 DEF RefreshTypes
<1>7. orphans' \in [Sources -> SUBSET Nat]
  BY <1>11 DEF RefreshTypes, ToolTypes
<1>8. s \in strays' \/ \A p \in Passes : pass[p].at = "built" /\ Target(p) = s => g >= pass[p].seen
  <2>1. \A p \in Passes : pass[p].seen \in Nat
    BY DEF RefreshTypes, PassRecords
  <2> QED
    BY <1>11, <1>3, <2>1
<1>9. strays' \in {strays, strays \cup {s}}
  BY <1>11
<1>10. UNCHANGED <<refreshLock, rescue, refreshState, builder, pass, tried, lost>>
  BY DEF OrphanWrites
<1> HIDE DEF w
<1> QED
  BY <1>3, <1>4, <1>5, <1>6, <1>7, <1>8, <1>9, <1>10

LEMMA OrphanWritesFits ==
    ASSUME RefreshTypes, RefreshTypes', GraphsFit, NEW s \in Sources, OrphanWrites(s)
    PROVE  GraphsFit'
<1>1. pass' = pass /\ strays \subseteq strays'
  BY OrphanWritesActs
<1>2. PICK w \in SourceRecords :
        /\ world' = [world EXCEPT ![s] = w] /\ w.files = world[s].files
        /\ w.receipt = world[s].receipt /\ w.graph <= w.files
        /\ s \in strays' \/ \A p \in Passes : pass[p].at = "built" /\ Target(p) = s => w.graph >= pass[p].seen
  BY OrphanWritesActs
<1>3. GraphsChange
  <2> SUFFICES ASSUME NEW x \in Sources
               PROVE  /\ world'[x].files >= world[x].files /\ world'[x].graph <= world'[x].files
                      /\ world'[x].receipt.files = world'[x].receipt.graph \/ x \in strays'
                      /\ \/ /\ world'[x].graph \in {0, world[x].graph, world'[x].files}
                            /\ x \in strays => x \in strays'
                         \/ \A y \in Passes : pass[y].at = "built" /\ TargetOf(pass[y]) = x /\ pass'[y] = pass[y]
                                              => pass[y].seen <= world'[x].graph \/ x \in strays'
    BY DEF GraphsChange
  <2>1. CASE x = s
    <3>1. world'[s] = w /\ world[s].files \in Nat /\ w.graph \in Nat
      BY <1>2, SourceTypes DEF RefreshTypes, SourceRecords
    <3>2. world[s].receipt.files = world[s].receipt.graph \/ s \in strays
      BY DEF GraphsFit
    <3>3. \A y \in Passes : Target(y) = TargetOf(pass[y]) /\ pass[y].seen \in Nat
      BY TargetFacts DEF RefreshTypes, PassRecords
    <3>4. \A y \in Passes : pass[y].at = "built" /\ TargetOf(pass[y]) = s => pass[y].seen <= w.graph \/ s \in strays'
      BY <1>2, <3>1, <3>3
    <3> QED
      BY <1>1, <1>2, <2>1, <3>1, <3>2, <3>4
  <2>2. CASE x # s
    <3>1. world'[x] = world[x]
      BY <1>2, <2>2 DEF RefreshTypes
    <3> QED
      BY <1>1, <3>1, SourceTypes DEF GraphsFit
  <2> QED
    BY <2>1, <2>2
<1>4. \A x \in Passes : BuilderKnows(pass[x])'
  BY <1>1, <1>3, BuilderOn
<1> QED
  BY <1>3, <1>4, BuilderOn DEF GraphsFit

LEMMA OrphanWritesTells ==
    ASSUME RefreshTypes, RefreshTypes', LocksFit, TriesCount, NEW s \in Sources, OrphanWrites(s)
    PROVE  TriesCount'
<1>1. UNCHANGED <<refreshState, pass, tried, lost>>
  BY OrphanWritesActs
<1>2. \A x \in Sources : world'[x].files = world[x].files /\ world'[x].origin = world[x].origin
  <2>1. PICK w \in SourceRecords :
          world' = [world EXCEPT ![s] = w] /\ w.files = world[s].files /\ w.origin = world[s].origin
    BY OrphanWritesActs
  <2> QED
    BY <2>1 DEF RefreshTypes
<1>3. (\A x \in Sources : tried[x].files <= world[x].files)' /\ AttemptsBounded'
  BY <1>1, <1>2 DEF TriesCount, AttemptsBounded
<1>5. \A x \in Sources : Tells(refreshState[x], x, IF Unsaved(x) THEN 1 ELSE 0)'
  <2> TAKE x \in Sources
  <2>1. Unsaved(x)' <=> Unsaved(x)
    BY <1>1 DEF Unsaved, AtWork
  <2>2. Tells(refreshState[x], x, IF Unsaved(x) THEN 1 ELSE 0)
    BY DEF TriesCount
  <2> QED
    BY <1>1, <1>2, <2>1, <2>2 DEF Tells, Counted
<1>6. \A p \in Passes : PassTells(pass[p])'
  <2> TAKE p \in Passes
  <2>1. PassTells(pass[p]) /\ PlaceFits(pass[p]) /\ pass[p].todo \in Seq(Sources)
    BY DEF TriesCount, LocksFit, RefreshTypes, PassRecords
  <2>2. PlanTells(pass[p])'
    <3> SUFFICES ASSUME AtWork(pass[p])', NEW x \in Sources, ~(pass'[p].at \in Rebuilding /\ x = Head(pass'[p].todo))
                 PROVE  Tells(pass[p].plan[x], x, 0)'
      BY DEF PlanTells
    <3>1. Tells(pass[p].plan[x], x, 0)
      BY <1>1, <2>1 DEF PassTells, PlanTells, AtWork
    <3> QED
      BY <1>1, <1>2, <3>1 DEF Tells, Counted
  <2>3. (pass[p].at = "looked" \/ (pass[p].mine # 0 /\ pass[p].at \in Rebuilding)) => Head(pass[p].todo) \in Sources
    BY <2>1, TodoFacts DEF PlaceFits, Rebuilding
  <2>4. LookedTells(pass[p])'
    BY ZenonT(60), <1>1, <1>2, <2>1, <2>3 DEF PassTells, LookedTells, AttemptsAt
  <2>5. RebuildTells(pass[p])'
    BY ZenonT(60), <1>1, <1>2, <2>1, <2>3 DEF PassTells, RebuildTells
  <2> QED
    BY <2>2, <2>4, <2>5 DEF PassTells
<1> QED
  BY <1>3, <1>5, <1>6 DEF TriesCount

-----------------------------------------------------------------------------
\* Every step keeps all of it.

LockAction(p) ==
    \/ CreateLock(p) \/ LookAtLock(p) \/ AskOwner(p) \/ TakeGuard(p) \/ CompareLock(p) \/ MoveLock(p)
    \/ FillLock(p) \/ Unguard(p) \/ ReleaseLock(p)

WorkAction(p) == LoadState(p) \/ Reconcile(p) \/ Fingerprint(p) \/ Refresh(p) \/ SaveState(p)

GivesUp(p) == WriteFails(p) \/ PassDies(p)

RebuildAction(p) == BeginSync(p) \/ BuildGraph(p) \/ PublishReceipt(p)

LEMMA RefreshSteps ==
    ASSUME [RefreshNext]_refreshVars
    PROVE  \/ UNCHANGED refreshVars
           \/ \E p \in Passes : LockAction(p) \/ WorkAction(p) \/ GivesUp(p) \/ RebuildAction(p)
           \/ \E s \in Sources : SourceChanges(s) \/ OrphanWrites(s)
BY DEF RefreshNext, LockAction, WorkAction, GivesUp, RebuildAction

\* The steps that are no rebuilding leave its locks alone, and but for a
\* reconciliation and a death the tools.
LEMMA ToolsLeft ==
    ASSUME NEW p \in Passes, LockAction(p) \/ WorkAction(p) \/ GivesUp(p)
    PROVE  /\ builder' = builder /\ (~PassDies(p) => orphans' = orphans)
           /\ ~Reconcile(p) => strays' = strays
<1>1. CASE LockAction(p)
  BY <1>1 DEF LockAction, CreateLock, LookAtLock, AskOwner, TakeGuard, CompareLock, MoveLock, FillLock, Unguard,
     ReleaseLock, tools
<1>2. CASE WorkAction(p)
  BY <1>2 DEF WorkAction, LoadState, Reconcile, Fingerprint, Refresh, SaveState, tools
<1>3. CASE GivesUp(p)
  BY <1>3 DEF GivesUp, WriteFails, PassDies, tools
<1> QED
  BY <1>1, <1>2, <1>3

LEMMA OutlivesTypes ==
    ASSUME RefreshTypes, NEW p \in Passes, Outlives(p)
    PROVE  orphans' \in [Sources -> SUBSET Nat]
<1>1. Target(p) \in Sources /\ pass[p].seen \in Nat /\ orphans \in [Sources -> SUBSET Nat]
  BY TargetFacts DEF RefreshTypes, ToolTypes, PassRecords
<1> QED
  BY <1>1 DEF Outlives

LEMMA ToolTypesKept ==
    ASSUME RefreshTypes, NEW p \in Passes, LockAction(p) \/ WorkAction(p) \/ GivesUp(p) \/ RebuildAction(p)
    PROVE  ToolTypes'
<1>1. /\ builder \in [Sources -> SUBSET Passes] /\ orphans \in [Sources -> SUBSET Nat] /\ strays \subseteq Sources
      /\ Target(p) \in Sources
  BY TargetFacts DEF RefreshTypes, ToolTypes
<1>2. CASE LockAction(p) \/ WorkAction(p) \/ GivesUp(p)
  <2>1. builder' = builder
    BY <1>2, ToolsLeft
  <2>2. orphans' \in [Sources -> SUBSET Nat]
    <3>1. CASE PassDies(p)
      BY <1>1, <3>1, OutlivesTypes DEF PassDies
    <3>2. CASE ~PassDies(p)
      BY <1>1, <1>2, <3>2, ToolsLeft
    <3> QED
      BY <3>1, <3>2
  <2>3. strays' \subseteq Sources
    <3>1. CASE Reconcile(p)
      <4>1. Source(p) \in Sources
        BY <3>1, ReconcileActs, AtHand
      <4>2. \E q : ReconcileLeaves(p, q) \/ ReconcileLooks(p, q) \/ ReconcileDone(p, q)
        BY <3>1, ReconcileActs
      <4>3. strays' \in {strays, strays \ {Source(p)}, strays \cup {Source(p)}}
        BY <4>2 DEF ReconcileLeaves, ReconcileLooks, ReconcileDone
      <4> QED
        BY <1>1, <4>1, <4>3
    <3>2. CASE ~Reconcile(p)
      BY <1>1, <1>2, <3>2, ToolsLeft
    <3> QED
      BY <3>1, <3>2
  <2> QED
    BY <1>1, <2>1, <2>2, <2>3 DEF ToolTypes
<1>3. CASE BeginSync(p)
  <2>1. orphans' = orphans
    BY <1>3 DEF BeginSync
  <2>2. strays' \in {strays, strays \ {Target(p)}} /\ builder' \in {builder, [builder EXCEPT ![Target(p)] = {p}]}
    BY <1>3, BeginSyncActs
  <2> QED
    BY <1>1, <2>1, <2>2 DEF ToolTypes
<1>4. CASE BuildGraph(p)
  <2>1. strays' = strays
    BY <1>4, BuildGraphActs
  <2>2. builder' \in {builder, [builder EXCEPT ![Target(p)] = {}]}
    BY <1>4, BuildGraphActs
  <2>3. orphans' = orphans \/ Outlives(p)
    BY <1>4 DEF BuildGraph
  <2> QED
    BY <1>1, <2>1, <2>2, <2>3, OutlivesTypes DEF ToolTypes
<1>5. CASE PublishReceipt(p)
  <2>1. UNCHANGED <<orphans, strays>> /\ builder' = [builder EXCEPT ![Target(p)] = {}]
    BY <1>5 DEF PublishReceipt, tools
  <2> QED
    BY <1>1, <2>1 DEF ToolTypes
<1> QED
  BY <1>2, <1>3, <1>4, <1>5 DEF RebuildAction

\* A step of p that is no rebuilding, or ends one, leaves the others'.
LEMMA BuildersKept ==
    ASSUME RefreshTypes, BuildersFit, NEW p \in Passes, NEW q \in PassRecords,
           pass' = [pass EXCEPT ![p] = q], ~Builds(q),
           \/ builder' = builder
           \/ Builds(pass[p]) /\ builder' = [builder EXCEPT ![Target(p)] = {}]
    PROVE  BuildersFit'
<1> SUFFICES ASSUME NEW x \in Passes, Builds(pass'[x])  PROVE builder'[TargetOf(pass'[x])] = {x}
  BY DEF BuildersFit, Builds, TargetOf
<1>1. x # p /\ pass'[x] = pass[x] /\ builder[TargetOf(pass[x])] = {x}
  BY DEF RefreshTypes, BuildersFit
<1>2. CASE Builds(pass[p]) /\ builder' = [builder EXCEPT ![Target(p)] = {}]
  <2>1. builder[Target(p)] = {p} /\ TargetOf(pass[x]) # Target(p)
    BY <1>1, <1>2, TargetFacts DEF BuildersFit
  <2> QED
    BY <1>1, <1>2, <2>1 DEF RefreshTypes, ToolTypes
<1> QED
  BY <1>1, <1>2

LEMMA RebuildersFit ==
    ASSUME RefreshTypes, BuildersFit, NEW p \in Passes, RebuildAction(p)
    PROVE  BuildersFit'
<1>1. /\ Target(p) = TargetOf(pass[p]) /\ Target(p) \in Sources /\ builder \in [Sources -> SUBSET Passes]
      /\ \A x \in Passes : TargetOf(pass[x]) \in Sources
  BY TargetFacts DEF RefreshTypes, ToolTypes
<1>2. ASSUME NEW q \in PassRecords, NEW well \in BOOLEAN, EndsAs(p, q, well)  PROVE ~Builds(q)
  BY <1>2 DEF EndsAs, LeftWith, Builds
<1>3. CASE BeginSync(p)
  <2>1. PICK q \in PassRecords :
          /\ pass' = [pass EXCEPT ![p] = q]
          /\ \/ EndsAs(p, q, FALSE) /\ UNCHANGED <<world, builder, strays>>
             \/ /\ q.todo = pass[p].todo /\ builder' = [builder EXCEPT ![Target(p)] = {p}]
                /\ \A x \in builder[Target(p)] : ~Alive(x)
    BY ZenonT(60), <1>3, BeginSyncActs
  <2>2. CASE EndsAs(p, q, FALSE) /\ UNCHANGED <<world, builder, strays>>
    BY <1>2, <2>1, <2>2, BuildersKept
  <2>3. CASE /\ q.todo = pass[p].todo /\ builder' = [builder EXCEPT ![Target(p)] = {p}]
             /\ \A x \in builder[Target(p)] : ~Alive(x)
    <3> SUFFICES ASSUME NEW x \in Passes, Builds(pass'[x])  PROVE builder'[TargetOf(pass'[x])] = {x}
      BY DEF BuildersFit, Builds, TargetOf
    <3>1. CASE x = p
      <4>1. pass'[x] = q /\ TargetOf(q) = Target(p)
        BY <1>1, <2>1, <2>3, <3>1 DEF RefreshTypes, TargetOf
      <4> QED
        BY <1>1, <2>3, <3>1, <4>1
    <3>2. CASE x # p
      <4>1. pass'[x] = pass[x] /\ builder[TargetOf(pass[x])] = {x} /\ Alive(x)
        BY <2>1, <3>2 DEF RefreshTypes, BuildersFit, Builds, Alive
      <4>2. TargetOf(pass[x]) # Target(p)
        BY <2>3, <4>1
      <4> QED
        BY <1>1, <2>3, <4>1, <4>2
    <3> QED
      BY <3>1, <3>2
  <2> QED
    BY <2>1, <2>2, <2>3
<1>4. CASE BuildGraph(p)
  <2>1. PICK q \in PassRecords :
          /\ pass' = [pass EXCEPT ![p] = q]
          /\ \/ EndsAs(p, q, FALSE) /\ builder' = [builder EXCEPT ![Target(p)] = {}]
             \/ Alike(q, pass[p]) /\ builder' = builder
    BY <1>4, BuildGraphActs
  <2>2. Builds(pass[p])
    BY <1>4, BuildGraphActs DEF Builds
  <2>3. CASE EndsAs(p, q, FALSE) /\ builder' = [builder EXCEPT ![Target(p)] = {}]
    BY <1>2, <2>1, <2>2, <2>3, BuildersKept
  <2>4. CASE Alike(q, pass[p]) /\ builder' = builder
    <3> SUFFICES ASSUME NEW x \in Passes, Builds(pass'[x])  PROVE builder'[TargetOf(pass'[x])] = {x}
      BY DEF BuildersFit, Builds, TargetOf
    <3>1. TargetOf(pass'[x]) = TargetOf(pass[x]) /\ Builds(pass[x])
      <4>1. CASE x = p
        BY <2>1, <2>2, <2>4, <4>1 DEF RefreshTypes, TargetOf, Alike
      <4>2. CASE x # p
        BY <2>1, <4>2 DEF RefreshTypes
      <4> QED
        BY <4>1, <4>2
    <3> QED
      BY <2>4, <3>1 DEF BuildersFit
  <2> QED
    BY <2>1, <2>3, <2>4
<1>5. CASE PublishReceipt(p)
  <2>1. PICK q \in PassRecords : pass' = [pass EXCEPT ![p] = q] /\ \E well \in BOOLEAN : EndsAs(p, q, well)
    BY <1>5, PublishActs
  <2>2. Builds(pass[p]) /\ builder' = [builder EXCEPT ![Target(p)] = {}]
    BY <1>5, PublishActs DEF Builds
  <2> QED
    BY <1>2, <2>1, <2>2, BuildersKept
<1> QED
  BY <1>3, <1>4, <1>5 DEF RebuildAction

\* A step with the lock moves p only.
LEMMA LockActionActs ==
    ASSUME RefreshTypes, LocksFit, NEW p \in Passes, LockAction(p)
    PROVE  /\ UNCHANGED <<refreshState, world, tried, lost>> /\ ~AtWork(pass[p])
           /\ refreshLock' \in [inode : Nat, owner : SUBSET Passes, made : Nat] /\ rescue' \in BOOLEAN
           /\ \E q \in PassRecords :
                pass' = [pass EXCEPT ![p] = q] /\ ~AtWork(q) /\ q.at \notin {"looked", "building", "built"}
<1> DEFINE Leaves == UNCHANGED <<refreshState, world, tried, lost>>
           Typed == refreshLock' \in [inode : Nat, owner : SUBSET Passes, made : Nat] /\ rescue' \in BOOLEAN
           Away(i) == i.at \notin {"source", "looked", "saving"} \cup Rebuilding
           Moved == \E q \in PassRecords : pass' = [pass EXCEPT ![p] = q] /\ Away(q)
<1>1. \A i : Away(i) => ~AtWork(i) /\ i.at \notin {"looked", "building", "built"}
  BY DEF AtWork, Rebuilding
<1>2. refreshLock \in [inode : Nat, owner : SUBSET Passes, made : Nat] /\ rescue \in BOOLEAN /\ PlaceFits(pass[p])
  BY DEF RefreshTypes, LocksFit
<1> SUFFICES Leaves /\ Typed /\ Away(pass[p]) /\ Moved
  BY <1>1
<1>3. CASE CreateLock(p)
  BY <1>2, <1>3, CreateLockActs DEF CreateLock, Rebuilding
<1>4. CASE LookAtLock(p)
  BY <1>2, <1>4, LookAtLockActs DEF LookAtLock, Rebuilding
<1>5. CASE AskOwner(p)
  BY <1>2, <1>5, AskOwnerActs DEF AskOwner, Rebuilding
<1>6. CASE TakeGuard(p)
  BY <1>2, <1>6, TakeGuardActs DEF TakeGuard, Rebuilding
<1>7. CASE CompareLock(p)
  BY <1>2, <1>7, CompareLockActs DEF CompareLock, Rebuilding
<1>8. CASE MoveLock(p)
  BY <1>2, <1>8, MoveLockActs DEF MoveLock, Rebuilding
<1>9. CASE FillLock(p)
  BY <1>2, <1>9, FillLockActs DEF FillLock, Rebuilding
<1>10. CASE Unguard(p)
  BY <1>2, <1>10, UnguardActs DEF Unguard, Rebuilding
<1>11. CASE ReleaseLock(p)
  BY <1>2, <1>11, ReleaseLockActs DEF ReleaseLock, Rebuilding
<1> QED
  BY <1>3, <1>4, <1>5, <1>6, <1>7, <1>8, <1>9, <1>10, <1>11 DEF LockAction

LEMMA LockActionKeeps ==
    ASSUME RefreshInv, NEW p \in Passes, LockAction(p)
    PROVE  RefreshInv'
<1>1. RefreshTypes /\ LocksFit /\ TriesCount /\ GraphsFit /\ BuildersFit
  BY DEF RefreshInv
<1>2. PICK q \in PassRecords :
        pass' = [pass EXCEPT ![p] = q] /\ ~AtWork(q) /\ q.at \notin {"looked", "building", "built"}
  BY <1>1, LockActionActs
<1>3. /\ UNCHANGED <<refreshState, world, tried, lost>> /\ ~AtWork(pass[p])
      /\ refreshLock' \in [inode : Nat, owner : SUBSET Passes, made : Nat] /\ rescue' \in BOOLEAN
  BY <1>1, LockActionActs
<1>8. builder' = builder /\ strays' = strays
  <2>1. ~Reconcile(p)
    BY <1>1, LockActionActs DEF Reconcile, AtWork, LocksFit, PlaceFits
  <2> QED
    BY <2>1, ToolsLeft
<1>4. RefreshTypes'
  BY <1>1, <1>2, <1>3, ToolTypesKept DEF RefreshTypes
<1>5. LocksFit'
  BY <1>1, CreateLockKeeps, MoveLockKeeps, FillLockKeeps, GuardStepsKeep DEF LockAction
<1>6. TriesCount'
  BY <1>1, <1>2, <1>3, <1>4, LockStepsTell
<1>7. GraphsFit'
  BY <1>1, <1>2, <1>3, <1>4, <1>8, GraphsLeft
<1>9. BuildersFit'
  BY <1>1, <1>2, <1>8, BuildersKept DEF Builds
<1> QED
  BY <1>4, <1>5, <1>6, <1>7, <1>9 DEF RefreshInv

LEMMA WorkActionTypes ==
    ASSUME RefreshTypes, LocksFit, NEW p \in Passes, WorkAction(p)
    PROVE  /\ RefreshTypes' /\ UNCHANGED <<refreshLock, rescue>>
           /\ \E q \in PassRecords :
                pass' = [pass EXCEPT ![p] = q] /\ KeepsLock(q, p) /\ q.at \notin {"building", "built"}
<1>1. PlaceFits(pass[p]) /\ pass[p] \in PassRecords /\ pass[p].plan \in [Sources -> Marks] /\ pass[p].files \in Nat
  BY DEF LocksFit, RefreshTypes, PassRecords
<1>8. ToolTypes'
  BY ToolTypesKept
<1>2. ASSUME NEW q \in PassRecords, pass' = [pass EXCEPT ![p] = q]  PROVE KeepsLock(q, p)
  BY <1>1, <1>2, PassWorksOn DEF WorkAction
<1>3. CASE LoadState(p)
  <2>1. PICK q \in PassRecords : pass' = [pass EXCEPT ![p] = q] /\ q.at = "source"
    BY <1>3, LoadStateActs
  <2>2. UNCHANGED <<refreshLock, rescue, refreshState, world, tried, lost>>
    BY <1>3, LoadStateActs
  <2> QED
    BY <1>2, <1>8, <2>1, <2>2 DEF RefreshTypes
<1>4. CASE Reconcile(p)
  <2>1. PICK q \in PassRecords :
          /\ pass' = [pass EXCEPT ![p] = q]
          /\ ReconcileLeaves(p, q) \/ ReconcileLooks(p, q) \/ ReconcileDone(p, q)
    BY <1>4, ReconcileActs
  <2>2. UNCHANGED <<refreshLock, rescue, refreshState, lost>> /\ Source(p) \in Sources
    BY <1>4, ReconcileActs, AtHand
  <2>3. q.at \in {"source", "looked", "saving"}
    BY <2>1 DEF ReconcileLeaves, ReconcileLooks, ReconcileDone, LeftWith
  <2>4. world' \in [Sources -> SourceRecords]
    BY <2>1 DEF ReconcileLeaves, ReconcileLooks, ReconcileDone, RefreshTypes
  <2>5. tried' \in [Sources -> [files : Nat, times : Nat]]
    <3>1. tried' = tried \/ tried' = [tried EXCEPT ![Source(p)].times = 0]
      BY <2>1 DEF ReconcileLeaves, ReconcileLooks, ReconcileDone
    <3> QED
      BY <2>2, <3>1 DEF RefreshTypes
  <2> QED
    BY <1>2, <1>8, <2>1, <2>2, <2>3, <2>4, <2>5 DEF RefreshTypes
<1>5. CASE Fingerprint(p)
  <2>1. PICK q \in PassRecords : pass' = [pass EXCEPT ![p] = q] /\ q.at = "looked"
    BY <1>5, FingerprintActs
  <2>2. UNCHANGED <<refreshLock, rescue, refreshState, world, tried, lost>>
    BY <1>5, FingerprintActs
  <2> QED
    BY <1>2, <1>8, <2>1, <2>2 DEF RefreshTypes
<1>6. CASE Refresh(p)
  <2>1. pass[p].todo # <<>>
    BY <1>1, <1>6 DEF Refresh, PlaceFits
  <2>2. PICK q \in PassRecords : pass' = [pass EXCEPT ![p] = q] /\ (RefreshLeaves(p, q) \/ RefreshTries(p, q))
    BY <1>6, <2>1, RefreshActs
  <2>3. UNCHANGED <<refreshLock, rescue, refreshState, lost, world>> /\ Source(p) \in Sources
    BY <1>6, <2>1, RefreshActs, AtHand
  <2>4. q.at \in {"source", "sync"}
    BY <2>2 DEF RefreshLeaves, RefreshTries, LeftWith
  <2>5. tried' \in [Sources -> [files : Nat, times : Nat]]
    <3>1. \/ tried' = tried \/ tried' = [tried EXCEPT ![Source(p)].times = 0]
          \/ tried' = [tried EXCEPT ![Source(p)] =
               [files |-> pass[p].files, times |-> IF @.files = pass[p].files THEN @.times + 1 ELSE 1]]
      BY <2>2 DEF RefreshLeaves, RefreshTries
    <3>2. tried[Source(p)] \in [files : Nat, times : Nat]
      BY <2>3 DEF RefreshTypes
    <3> QED
      BY <1>1, <2>3, <3>1, <3>2 DEF RefreshTypes
  <2> QED
    BY <1>2, <1>8, <2>2, <2>3, <2>4, <2>5 DEF RefreshTypes
<1>7. CASE SaveState(p)
  <2>1. PICK q \in PassRecords : pass' = [pass EXCEPT ![p] = q] /\ q.at \in {"source", "releasing"}
    BY <1>7, SaveStateActs
  <2>2. UNCHANGED <<refreshLock, rescue, world, tried, lost>> /\ refreshState' = pass[p].plan
    BY <1>7, SaveStateActs
  <2> QED
    BY <1>1, <1>2, <1>8, <2>1, <2>2 DEF RefreshTypes
<1> QED
  BY <1>3, <1>4, <1>5, <1>6, <1>7 DEF WorkAction

LEMMA WorkActionKeeps ==
    ASSUME RefreshInv, NEW p \in Passes, WorkAction(p)
    PROVE  RefreshInv'
<1>1. RefreshTypes /\ LocksFit /\ TriesCount /\ GraphsFit /\ BuildersFit
  BY DEF RefreshInv
<1>2. RefreshTypes' /\ UNCHANGED <<refreshLock, rescue>>
  BY <1>1, WorkActionTypes
<1>3. PICK q \in PassRecords : pass' = [pass EXCEPT ![p] = q] /\ KeepsLock(q, p) /\ q.at \notin {"building", "built"}
  BY <1>1, WorkActionTypes
<1>4. LocksFit'
  BY <1>1, <1>2, <1>3, WorkKeepsLocks
<1>5. TriesCount'
  BY <1>1, <1>2, LoadStateTells, ReconcileTells, FingerprintTells, RefreshTells, SaveStateTells DEF WorkAction
<1>6. GraphsFit'
  <2>1. CASE Reconcile(p)
    BY <1>1, <1>2, <2>1, ReconcileFits
  <2>2. CASE ~Reconcile(p)
    <3>1. UNCHANGED <<world, strays>>
      BY <2>2, ToolsLeft DEF WorkAction, LoadState, Fingerprint, Refresh, SaveState
    <3> QED
      BY <1>1, <1>2, <1>3, <3>1, GraphsLeft
  <2> QED
    BY <2>1, <2>2
<1>7. BuildersFit'
  BY <1>1, <1>3, ToolsLeft, BuildersKept DEF Builds
<1> QED
  BY <1>2, <1>4, <1>5, <1>6, <1>7 DEF RefreshInv

LEMMA GivesUpKeeps ==
    ASSUME RefreshInv, NEW p \in Passes, GivesUp(p)
    PROVE  RefreshInv'
<1>1. RefreshTypes /\ LocksFit /\ TriesCount /\ GraphsFit /\ BuildersFit /\ PlaceFits(pass[p])
  BY DEF RefreshInv, LocksFit
<1>2. UNCHANGED <<refreshLock, rescue, refreshState, world, tried>> /\ Forgotten(p)
  BY <1>1, GivesUpActs DEF GivesUp
<1>3. PICK q \in PassRecords :
        /\ pass' = [pass EXCEPT ![p] = q]
        /\ \/ pass[p].at \in {"source", "saving"} /\ q.at = "releasing" /\ Alike(q, pass[p])
           \/ q.at = "dead" /\ Cleared(q)
  BY <1>1, GivesUpActs DEF GivesUp
<1>8. builder' = builder /\ strays' = strays
  BY DEF GivesUp, WriteFails, PassDies, tools
<1>4. RefreshTypes'
  BY <1>1, <1>2, <1>3, ForgottenFacts, ToolTypesKept DEF RefreshTypes
<1>5. LocksFit'
  BY <1>1, <1>2, <1>3, PassWorksOn, WorkKeepsLocks DEF GivesUp
<1>6. TriesCount'
  BY <1>1, <1>4, GivesUpTells DEF GivesUp
<1>7. GraphsFit'
  BY <1>1, <1>2, <1>3, <1>4, <1>8, GraphsLeft
<1>9. BuildersFit'
  BY <1>1, <1>3, <1>8, BuildersKept DEF Builds
<1> QED
  BY <1>4, <1>5, <1>6, <1>7, <1>9 DEF RefreshInv

LEMMA RebuildActionTypes ==
    ASSUME RefreshTypes, LocksFit, NEW p \in Passes, RebuildAction(p)
    PROVE  /\ RefreshTypes' /\ UNCHANGED <<refreshLock, rescue>>
           /\ \E q \in PassRecords : pass' = [pass EXCEPT ![p] = q] /\ KeepsLock(q, p)
<1>1. PlaceFits(pass[p]) /\ Target(p) \in Sources
  BY TargetFacts DEF LocksFit
<1>2. UNCHANGED <<refreshLock, rescue, refreshState, lost>>
  BY BeginSyncActs, BuildGraphActs, PublishActs DEF RebuildAction
<1>3. world' = world \/ \E w : Rewrites(p, w)
  <2>1. CASE BeginSync(p)
    BY <2>1, BeginSyncActs
  <2>2. CASE BuildGraph(p)
    BY <2>2, BuildGraphActs
  <2>3. CASE PublishReceipt(p)
    BY <2>3, PublishActs
  <2> QED
    BY <2>1, <2>2, <2>3 DEF RebuildAction
<1>4. PICK q \in PassRecords :
        pass' = [pass EXCEPT ![p] = q] /\ (tried' = tried \/ \E well \in BOOLEAN : EndsAs(p, q, well))
  <2>1. CASE BeginSync(p)
    BY <2>1, BeginSyncActs
  <2>2. CASE BuildGraph(p)
    BY <2>2, BuildGraphActs
  <2>3. CASE PublishReceipt(p)
    BY <2>3, PublishActs
  <2> QED
    BY <2>1, <2>2, <2>3 DEF RebuildAction
<1>5. tried' \in [Sources -> [files : Nat, times : Nat]]
  <2>1. tried' = tried \/ (pass[p].todo # <<>> /\ tried' = [tried EXCEPT ![Source(p)].times = 0])
    BY <1>4 DEF EndsAs
  <2>2. pass[p].todo # <<>> => Source(p) \in Sources
    BY AtHand
  <2>3. CASE pass[p].todo # <<>> /\ tried' = [tried EXCEPT ![Source(p)].times = 0]
    BY <2>2, <2>3 DEF RefreshTypes
  <2> QED
    BY <2>1, <2>3 DEF RefreshTypes
<1>6. world' \in [Sources -> SourceRecords]
  BY <1>1, <1>3 DEF Rewrites, RefreshTypes
<1>7. KeepsLock(q, p)
  BY <1>1, <1>4, RebuildWorksOn DEF RebuildAction
<1> QED
  BY <1>2, <1>4, <1>5, <1>6, <1>7, ToolTypesKept DEF RefreshTypes

LEMMA RebuildActionKeeps ==
    ASSUME RefreshInv, NEW p \in Passes, RebuildAction(p)
    PROVE  RefreshInv'
<1>1. RefreshTypes /\ LocksFit /\ TriesCount /\ GraphsFit /\ BuildersFit
  BY DEF RefreshInv
<1>2. RefreshTypes' /\ UNCHANGED <<refreshLock, rescue>>
  BY <1>1, RebuildActionTypes
<1>3. PICK q \in PassRecords : pass' = [pass EXCEPT ![p] = q] /\ KeepsLock(q, p)
  BY <1>1, RebuildActionTypes
<1>4. LocksFit'
  BY <1>1, <1>2, <1>3, WorkKeepsLocks
<1>5. TriesCount' /\ GraphsFit' /\ BuildersFit'
  BY <1>1, <1>2, RebuildStepsTell, RebuildStepsFit, RebuildersFit DEF RebuildAction
<1> QED
  BY <1>2, <1>4, <1>5 DEF RefreshInv

LEMMA SourceChangesKeeps ==
    ASSUME RefreshInv, NEW s \in Sources, SourceChanges(s)
    PROVE  RefreshInv'
<1>1. RefreshTypes /\ LocksFit /\ TriesCount /\ GraphsFit /\ BuildersFit
  BY DEF RefreshInv
<1>2. UNCHANGED <<refreshLock, rescue, refreshState, pass, lost>>
  BY <1>1, SourceChangesActs
<1>3. PICK w \in SourceRecords :
        world' = [world EXCEPT ![s] = w] /\ (tried' = tried \/ tried' = [tried EXCEPT ![s].times = 0])
  BY <1>1, SourceChangesActs
<1>7. UNCHANGED <<builder, orphans, strays>>
  BY DEF SourceChanges, tools
<1>4. RefreshTypes'
  <2>1. tried' \in [Sources -> [files : Nat, times : Nat]]
    BY <1>1, <1>3 DEF RefreshTypes
  <2> QED
    BY <1>1, <1>2, <1>3, <1>7, <2>1 DEF RefreshTypes, ToolTypes
<1>5. LocksFit'
  BY ZenonT(60), <1>1, <1>2 DEF LocksFit, GuardFits, PlaceFits, LockIsHis, TakesOverDead, Abandoned, Alive
<1>6. TriesCount' /\ GraphsFit'
  BY <1>1, <1>4, SourceChangesTells, SourceChangesFits
<1>8. BuildersFit'
  BY <1>1, <1>2, <1>7 DEF BuildersFit, Builds, TargetOf
<1> QED
  BY <1>4, <1>5, <1>6, <1>8 DEF RefreshInv

LEMMA OrphanWritesKeeps ==
    ASSUME RefreshInv, NEW s \in Sources, OrphanWrites(s)
    PROVE  RefreshInv'
<1>1. RefreshTypes /\ LocksFit /\ TriesCount /\ GraphsFit /\ BuildersFit
  BY DEF RefreshInv
<1>2. /\ UNCHANGED <<refreshLock, rescue, refreshState, builder, pass, tried, lost>>
      /\ orphans' \in [Sources -> SUBSET Nat] /\ strays' \in {strays, strays \cup {s}}
  BY <1>1, OrphanWritesActs
<1>3. world' \in [Sources -> SourceRecords]
  BY <1>1, OrphanWritesActs DEF RefreshTypes
<1>4. RefreshTypes'
  BY <1>1, <1>2, <1>3 DEF RefreshTypes, ToolTypes
<1>5. LocksFit'
  BY ZenonT(60), <1>1, <1>2 DEF LocksFit, GuardFits, PlaceFits, LockIsHis, TakesOverDead, Abandoned, Alive
<1>6. TriesCount' /\ GraphsFit'
  BY <1>1, <1>4, OrphanWritesTells, OrphanWritesFits
<1>7. BuildersFit'
  BY <1>1, <1>2 DEF BuildersFit, Builds, TargetOf
<1> QED
  BY <1>4, <1>5, <1>6, <1>7 DEF RefreshInv

LEMMA RefreshInitInv == RefreshInit => RefreshInv
<1> SUFFICES ASSUME RefreshInit  PROVE RefreshInv
  OBVIOUS
<1>1. \A s \in Sources : /\ world[s].files = 1 /\ world[s].origin = 1 /\ world[s].graph = 0
                         /\ world[s].receipt = Unvouched /\ tried[s].files = 0 /\ tried[s].times = 0 /\ lost[s] = 0
                         /\ refreshState[s] = Untried
  BY DEF RefreshInit
<1>2. \A p \in Passes : pass[p] = NoPass
  BY DEF RefreshInit
<1>3. NoPass \in PassRecords /\ NoPass.at = "idle" /\ Cleared(NoPass)
  BY NoPassFacts
<1>4. RefreshTypes
  <2>1. [files |-> 1, origin |-> 1, stands |-> 1, graph |-> 0, receipt |-> Unvouched] \in SourceRecords
    BY DEF SourceRecords, Unvouched
  <2>2. /\ refreshLock \in [inode : Nat, owner : SUBSET Passes, made : Nat] /\ rescue \in BOOLEAN
        /\ tried \in [Sources -> [files : Nat, times : Nat]] /\ lost \in [Sources -> Nat]
    BY DEF RefreshInit
  <2>3. refreshState \in [Sources -> Marks] /\ world \in [Sources -> SourceRecords] /\ pass \in [Passes -> PassRecords]
    BY <1>3, <2>1, UntriedFacts DEF RefreshInit
  <2>4. ToolTypes
    BY DEF RefreshInit, ToolTypes
  <2> QED
    BY <2>2, <2>3, <2>4 DEF RefreshTypes
<1>5. LocksFit
  <2>1. refreshLock.inode = 0 /\ refreshLock.owner = {} /\ refreshLock.made = 0
    BY DEF RefreshInit
  <2>2. PlaceFits(NoPass) /\ TakesOverDead(NoPass) /\ \A p : LockIsHis(NoPass, p)
    BY <1>3 DEF PlaceFits, TakesOverDead, LockIsHis, Cleared
  <2> QED
    BY <1>2, <1>3, <2>1, <2>2 DEF LocksFit, GuardFits, Cleared
<1>6. TriesCount
  <2>1. \A p \in Passes : ~AtWork(pass[p]) /\ PassTells(pass[p])
    BY <1>2, <1>3 DEF AtWork, Rebuilding, PassTells, PlanTells, LookedTells, RebuildTells
  <2>2. \A s \in Sources : tried[s].files <= world[s].files /\ Tells(refreshState[s], s, IF Unsaved(s) THEN 1 ELSE 0)
    BY <1>1 DEF Tells
  <2>3. AttemptsBounded
    BY <1>1, RefreshAssumption DEF AttemptsBounded
  <2> QED
    BY <2>1, <2>2, <2>3 DEF TriesCount
<1>7. GraphsFit
  BY <1>1, <1>2, <1>3 DEF GraphsFit, BuilderKnows, Unvouched
<1>8. BuildersFit
  BY <1>2, <1>3 DEF BuildersFit, Builds
<1> QED
  BY <1>4, <1>5, <1>6, <1>7, <1>8 DEF RefreshInv

LEMMA RefreshInvKept == RefreshInv /\ [RefreshNext]_refreshVars => RefreshInv'
<1> SUFFICES ASSUME RefreshInv, [RefreshNext]_refreshVars  PROVE RefreshInv'
  OBVIOUS
<1>1. CASE UNCHANGED refreshVars
  <2>1. /\ UNCHANGED <<refreshLock, rescue, refreshState, world, orphans, strays, builder, pass, tried, lost>>
        /\ RefreshTypes /\ LocksFit /\ TriesCount /\ GraphsFit /\ BuildersFit
    BY <1>1 DEF refreshVars, tools, RefreshInv
  <2>2. RefreshTypes'
    BY <2>1 DEF RefreshTypes, ToolTypes
  <2>3. LocksFit'
    BY ZenonT(60), <2>1 DEF LocksFit, GuardFits, PlaceFits, LockIsHis, TakesOverDead, Abandoned, Alive
  <2>4. TriesCount'
    <3>1. (\A s \in Sources : tried[s].files <= world[s].files)' /\ AttemptsBounded'
      BY <2>1 DEF TriesCount, AttemptsBounded
    <3>2. \A s \in Sources : Tells(refreshState[s], s, IF Unsaved(s) THEN 1 ELSE 0)'
      BY ZenonT(60), <2>1 DEF TriesCount, Tells, Counted, Unsaved, AtWork
    <3>3. \A p \in Passes : PassTells(pass[p])'
      <4> TAKE p \in Passes
      <4>1. PassTells(pass[p])
        BY <2>1 DEF TriesCount
      <4>2. PlanTells(pass[p])'
        BY ZenonT(60), <2>1, <4>1 DEF PassTells, PlanTells, AtWork, Tells, Counted
      <4>3. LookedTells(pass[p])' /\ RebuildTells(pass[p])'
        BY ZenonT(60), <2>1, <4>1 DEF PassTells, LookedTells, RebuildTells, AttemptsAt
      <4> QED
        BY <4>2, <4>3 DEF PassTells
    <3> QED
      BY <3>1, <3>2, <3>3 DEF TriesCount
  <2>5. GraphsFit'
    BY <2>1 DEF GraphsFit, BuilderKnows, TargetOf
  <2>6. BuildersFit'
    BY <2>1 DEF BuildersFit, Builds, TargetOf
  <2> QED
    BY <2>2, <2>3, <2>4, <2>5, <2>6 DEF RefreshInv
<1>2. CASE \E p \in Passes : LockAction(p) \/ WorkAction(p) \/ GivesUp(p) \/ RebuildAction(p)
  BY <1>2, LockActionKeeps, WorkActionKeeps, GivesUpKeeps, RebuildActionKeeps
<1>3. CASE \E s \in Sources : SourceChanges(s) \/ OrphanWrites(s)
  BY <1>3, SourceChangesKeeps, OrphanWritesKeeps
<1> QED
  BY <1>1, <1>2, <1>3, RefreshSteps

LEMMA RefreshInvTells == RefreshInv => RefreshHolds
<1> SUFFICES ASSUME RefreshInv  PROVE AttemptsBounded /\ FreshIsTrue
  BY DEF RefreshHolds
<1>1. AttemptsBounded
  BY DEF RefreshInv, TriesCount
<1>2. ASSUME NEW s \in Sources, Fresh(s)  PROVE world[s].graph = world[s].files \/ s \in strays
  BY <1>2 DEF RefreshInv, GraphsFit, Fresh
<1> QED
  BY <1>1, <1>2 DEF FreshIsTrue

\* RefreshHolds (runRefresh of src/src/atelier-refresh.js, atelier-sync.js): for
\* any passes that overlap, die and take over each other's lock, any changes of
\* the sources, graphs rebuilt by hand and tools that go on after whoever started
\* them, the files of a source that never gets fresh are tried at most MaxAttempts
\* times, but for the tries a pass could not save, and a graph that is found fresh
\* is that of the files, unless a tool nobody waits for has put an older one in
\* its place before the receipt was written.
THEOREM RefreshAlwaysHolds == RefreshSpec => []RefreshHolds
<1>1. RefreshInit => RefreshInv
  BY RefreshInitInv
<1>2. RefreshInv /\ [RefreshNext]_refreshVars => RefreshInv'
  BY RefreshInvKept
<1>3. RefreshInv => RefreshHolds
  BY RefreshInvTells
<1> QED
  BY <1>1, <1>2, <1>3, PTL DEF RefreshSpec
=============================================================================

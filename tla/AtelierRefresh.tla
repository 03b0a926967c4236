--------------------------- MODULE AtelierRefresh ---------------------------
(***************************************************************************)
(* The scheduled refresh of the Atelier graphs: passes over the enrolled   *)
(* sources under a lock (runRefresh of src/src/atelier-refresh.js), the    *)
(* rebuilding of one graph with the receipt that vouches for it            *)
(* (atelier-sync.js) and what counts as fresh (atelier-source.js).         *)
(*                                                                         *)
(* Passes overlap, die at any step and leave their lock; sources change;   *)
(* graphs are also rebuilt by hand.  The tool that builds a graph is a     *)
(* process of its own, which may outlive the pass that started it.  How    *)
(* long a source waits before it is tried again is left out: a wait may be *)
(* over whenever a pass looks.  A reconciliation (AtelierReconcile) is one *)
(* step.                                                                   *)
(***************************************************************************)
EXTENDS Naturals, Sequences, SequencesExt

CONSTANTS
    Passes,       \* processes: a pass of the scheduled job, or a command that
                  \* rebuilds one graph
    Enrolled,     \* the sources, in order
    Reconciling,  \* those with a policy to reconcile them
    MaxAttempts,  \* retry.maxAttempts
    MaxRefreshes, \* maxRefreshes, per pass
    MaxUpsets     \* changes of sources, deaths, failed writes and builds cut off

ASSUME RefreshAssumption ==
    /\ MaxAttempts \in Nat \ {0} /\ MaxRefreshes \in Nat \ {0} /\ MaxUpsets \in Nat
    /\ Enrolled \in Seq(ToSet(Enrolled)) /\ Enrolled # <<>>

VARIABLES
    refreshLock,  \* the lock file: its inode (0: none), its owner ({}: not yet
                  \* written), and how many there have been
    rescue,       \* whether the guard of a takeover exists
    refreshState, \* the state file: per source, what the last saved pass left
    world,        \* per source: its files, its origin, the origin its files stand
                  \* for, the files its graph was built from (0: none), and the
                  \* files and the graph its receipt names
    orphans,      \* per source: tools that nobody waits for any more, as the files
                  \* there were when they were started
    strays,       \* sources whose graph such a tool has replaced by an older one while
                  \* a rebuilding was about to vouch for it
    builder,      \* per source: who holds the lock of its rebuilding, or nobody
    pass,         \* per process: its step and what it knows
    tried,        \* per source: how often the files last tried were, since last fresh
    lost,         \* per source: the passes that could not save what came of it
    upsets        \* of all kinds, so far

tools == <<orphans, strays>>
refreshVars == <<refreshLock, rescue, refreshState, world, tools, builder, pass, tried, lost, upsets>>

Sources == ToSet(Enrolled)
Untried == [attempts |-> 0, files |-> 0, waits |-> FALSE, unreconciled |-> FALSE, origin |-> 0]

Unvouched == [files |-> 0, graph |-> 0]

NoPass == [at |-> "idle", mine |-> 0, seen |-> 0, guards |-> FALSE, todo |-> <<>>,
           plan |-> [s \in Sources |-> Untried], files |-> 0, used |-> 0, begun |-> {}]

RefreshInit ==
    /\ refreshLock = [inode |-> 0, owner |-> {}, made |-> 0] /\ rescue = FALSE
    /\ refreshState = [s \in Sources |-> Untried]
    /\ world = [s \in Sources |-> [files |-> 1, origin |-> 1, stands |-> 1, graph |-> 0, receipt |-> Unvouched]]
    /\ orphans = [s \in Sources |-> {}] /\ strays = {}
    /\ builder = [s \in Sources |-> {}]
    /\ pass = [p \in Passes |-> NoPass]
    /\ tried = [s \in Sources |-> [files |-> 0, times |-> 0]] /\ lost = [s \in Sources |-> 0] /\ upsets = 0

Upset == upsets < MaxUpsets /\ upsets' = upsets + 1

Moves(p, place) ==
    pass' = IF place \in {"over", "dead"} THEN [pass EXCEPT ![p] = [NoPass EXCEPT !.at = place]]
            ELSE [pass EXCEPT ![p].at = place]
Alive(p) == pass[p].at # "dead"

\* readAtelierSource: the receipt vouches for the files and the graph there are.
Fresh(s) == world[s].graph # 0 /\ world[s].receipt = [files |-> world[s].files, graph |-> world[s].graph]

----------------------------------------------------------------------------
(* The lock of a pass *)

CreateLock(p) ==
    /\ pass[p].at \in {"idle", "again"}
    /\ IF refreshLock.inode = 0
       THEN /\ refreshLock' = [inode |-> refreshLock.made + 1, owner |-> {}, made |-> refreshLock.made + 1]
            /\ pass' = [pass EXCEPT ![p].at = "filling", ![p].mine = refreshLock.made + 1]
       ELSE Moves(p, IF pass[p].guards THEN "unguard" ELSE "looking") /\ UNCHANGED refreshLock
    /\ UNCHANGED <<rescue, refreshState, world, tools, builder, tried, lost, upsets>>

\* What is known of the lock found: its inode, and then its owner.
LookAtLock(p) ==
    /\ pass[p].at = "looking"
    /\ IF refreshLock.inode = 0 THEN Moves(p, "over")
       ELSE pass' = [pass EXCEPT ![p].at = "asking", ![p].seen = refreshLock.inode]
    /\ UNCHANGED <<refreshLock, rescue, refreshState, world, tools, builder, tried, lost, upsets>>

\* Only the lock of a dead process may be taken over.
Abandoned == \E p \in refreshLock.owner : ~Alive(p)

AskOwner(p) ==
    /\ pass[p].at = "asking" /\ Moves(p, IF refreshLock.inode # 0 /\ Abandoned THEN "guarding" ELSE "over")
    /\ UNCHANGED <<refreshLock, rescue, refreshState, world, tools, builder, tried, lost, upsets>>

TakeGuard(p) ==
    /\ pass[p].at = "guarding"
    /\ IF rescue THEN Moves(p, "over") /\ UNCHANGED rescue
       ELSE rescue' = TRUE /\ pass' = [pass EXCEPT ![p].at = "comparing", ![p].guards = TRUE]
    /\ UNCHANGED <<refreshLock, refreshState, world, tools, builder, tried, lost, upsets>>

\* The lock is moved away if it still is the one looked at.
CompareLock(p) ==
    /\ pass[p].at = "comparing"
    /\ Moves(p, IF refreshLock.inode = pass[p].seen THEN "moving" ELSE "unguard")
    /\ UNCHANGED <<refreshLock, rescue, refreshState, world, tools, builder, tried, lost, upsets>>

MoveLock(p) ==
    /\ pass[p].at = "moving" /\ Moves(p, "again") /\ refreshLock' = [refreshLock EXCEPT !.inode = 0, !.owner = {}]
    /\ UNCHANGED <<rescue, refreshState, world, tools, builder, tried, lost, upsets>>

FillLock(p) ==
    /\ pass[p].at = "filling"
    /\ refreshLock' = IF refreshLock.inode = pass[p].mine THEN [refreshLock EXCEPT !.owner = {p}] ELSE refreshLock
    /\ Moves(p, IF pass[p].guards THEN "unguard" ELSE "loading")
    /\ UNCHANGED <<rescue, refreshState, world, tools, builder, tried, lost, upsets>>

Unguard(p) ==
    /\ pass[p].at = "unguard" /\ rescue' = FALSE
    /\ IF pass[p].mine = 0 THEN Moves(p, "over")
       ELSE pass' = [pass EXCEPT ![p].at = "loading", ![p].guards = FALSE]
    /\ UNCHANGED <<refreshLock, refreshState, world, tools, builder, tried, lost, upsets>>

\* Only one's own lock is removed.
ReleaseLock(p) ==
    /\ pass[p].at = "releasing" /\ Moves(p, "over")
    /\ refreshLock' = IF refreshLock.inode = pass[p].mine THEN [refreshLock EXCEPT !.inode = 0, !.owner = {}] ELSE refreshLock
    /\ UNCHANGED <<rescue, refreshState, world, tools, builder, tried, lost, upsets>>

----------------------------------------------------------------------------
(* A pass *)

Source(p) == Head(pass[p].todo)
ByHand(p) == pass[p].todo = <<>>
Target(p) == IF ByHand(p) THEN Head(Enrolled) ELSE Source(p)
Prior(p) == pass[p].plan[Source(p)]

LoadState(p) ==
    /\ pass[p].at = "loading"
    /\ pass' = [pass EXCEPT ![p].at = "source", ![p].todo = Enrolled, ![p].plan = refreshState]
    /\ UNCHANGED <<refreshLock, rescue, refreshState, world, tools, builder, tried, lost, upsets>>

\* The next source, with r as what the state says of this one.
Leave(p, r, place) ==
    pass' = [pass EXCEPT ![p].at = place, ![p].plan[Source(p)] = r, ![p].todo = Tail(@),
                         ![p].files = 0, ![p].seen = 0]

\* A source whose origin has moved on since its reconciliation failed starts anew.
Renewed(r, s) == IF r.unreconciled /\ r.origin # world[s].origin THEN Untried ELSE r

\* Not now: its wait is not over, its attempts or this pass's budget are spent.
Exhausted(r) == r.unreconciled /\ r.attempts >= MaxAttempts

HeldBack(p, r, s) ==
    \/ Exhausted(r) \/ (r.unreconciled /\ r.waits)
    \/ world[s].stands # world[s].origin /\ pass[p].used >= MaxRefreshes

\* The graphs that tools nobody waits for may write when the files are n: one of
\* files they have read since they were started.
Writable(s, n) == UNION {v..n : v \in orphans[s]}

\* The reconciliation of a source with a policy: planned first, and carried
\* out if something is to be done.
Reconcile(p) ==
    LET s == Source(p)
        r == Renewed(Prior(p), s)
        once == [pass EXCEPT ![p].used = @ + 1, ![p].todo = Tail(@)]
    IN
    /\ pass[p].at = "source" /\ pass[p].todo # <<>> /\ s \in Reconciling
    /\ \/ HeldBack(p, r, s) /\ Leave(p, Prior(p), "source") /\ UNCHANGED <<world, strays>>
       \/ \* no plan can be made
          /\ ~Exhausted(r)
          /\ Leave(p, [Untried EXCEPT !.attempts = r.attempts, !.origin = world[s].origin], "source")
          /\ UNCHANGED <<world, strays>>
       \/ /\ ~Exhausted(r) /\ world[s].stands # world[s].origin
          /\ pass[p].used < MaxRefreshes
          /\ \/ \* it fails, to be retried or not
                /\ \E again \in BOOLEAN :
                     pass' = [once EXCEPT ![p].plan[s] =
                       [attempts |-> r.attempts + (IF again THEN 1 ELSE 0), files |-> 0, waits |-> again,
                        unreconciled |-> again, origin |-> world[s].origin]]
                /\ UNCHANGED <<world, strays>>
             \/ /\ \A q \in builder[s] : ~Alive(q)
                /\ LET n == world[s].files + 1 IN
                   \E g \in {n} \cup Writable(s, n) :
                      /\ world' = [world EXCEPT ![s] = [files |-> n, origin |-> @.origin, stands |-> @.origin,
                                                        graph |-> g, receipt |-> [files |-> n, graph |-> g]]]
                      /\ strays' = IF g = n THEN strays \ {s} ELSE strays \cup {s}
                /\ pass' = [once EXCEPT ![p].plan[s] = [Untried EXCEPT !.files = world'[s].files], ![p].at = "saving"]
       \/ /\ ~Exhausted(r) /\ world[s].stands = world[s].origin
          /\ pass' = [pass EXCEPT ![p].at = "looked", ![p].plan[s] = r, ![p].files = world[s].files]
          /\ UNCHANGED <<world, strays>>
    /\ tried' = IF world' # world THEN [tried EXCEPT ![s].times = 0] ELSE tried
    /\ UNCHANGED <<refreshLock, rescue, refreshState, orphans, builder, lost, upsets>>

\* The files of any other source are fingerprinted.
Fingerprint(p) ==
    /\ pass[p].at = "source" /\ pass[p].todo # <<>> /\ Source(p) \notin Reconciling
    /\ pass' = [pass EXCEPT ![p].at = "looked", ![p].files = world[Source(p)].files]
    /\ UNCHANGED <<refreshLock, rescue, refreshState, world, tools, builder, tried, lost, upsets>>

\* The attempts of a source that has changed do not count.
Attempts(p) ==
    IF Prior(p).files # 0 /\ Prior(p).files # pass[p].files THEN 0 ELSE Prior(p).attempts

Noted(p) == [Untried EXCEPT !.attempts = Attempts(p), !.files = pass[p].files]

\* A source that is fresh, waits, or may not be refreshed is passed over; any
\* other is rebuilt, unless the budget is spent.
Refresh(p) ==
    LET s == Source(p) IN
    /\ pass[p].at = "looked"
    /\ \/ Prior(p).waits /\ ~(Prior(p).files # 0 /\ Prior(p).files # pass[p].files)
          /\ Leave(p, Prior(p), "source") /\ UNCHANGED tried
       \/ Fresh(s) /\ Leave(p, [Untried EXCEPT !.files = pass[p].files], "source") /\ tried' = [tried EXCEPT ![s].times = 0]
       \/ Leave(p, Noted(p), "source") /\ UNCHANGED tried
       \/ /\ ~Fresh(s) /\ Attempts(p) < MaxAttempts /\ pass[p].used < MaxRefreshes
          /\ pass' = [pass EXCEPT ![p].at = "sync", ![p].plan[s] = Noted(p),
                                  ![p].used = @ + 1, ![p].begun = @ \cup {s}]
          /\ tried' = [tried EXCEPT ![s] = [files |-> pass[p].files,
                                           times |-> IF @.files = pass[p].files THEN @.times + 1 ELSE 1]]
    /\ UNCHANGED <<refreshLock, rescue, refreshState, world, tools, builder, lost, upsets>>

\* What came of it is noted and saved before the next source.
SyncFails(p) ==
    LET s == Source(p) IN
    Leave(p, [Prior(p) EXCEPT !.attempts = @ + 1, !.waits = TRUE], "saving")

SaveState(p) ==
    /\ pass[p].at = "saving" \/ (pass[p].at = "source" /\ pass[p].todo = <<>>)
    /\ refreshState' = pass[p].plan
    /\ pass' = [pass EXCEPT ![p].at = IF @ = "saving" THEN "source" ELSE "releasing", ![p].begun = {}]
    /\ UNCHANGED <<refreshLock, rescue, world, tools, builder, tried, lost, upsets>>

Forgotten(p) == lost' = [s \in Sources |-> lost[s] + IF s \in pass[p].begun THEN 1 ELSE 0]

\* A diagnostic or the state cannot be written: the pass ends, and what it
\* has not saved is forgotten.
WriteFails(p) ==
    /\ pass[p].at \in {"source", "saving"} /\ Upset /\ Moves(p, "releasing") /\ Forgotten(p)
    /\ UNCHANGED <<refreshLock, rescue, refreshState, world, tools, builder, tried>>

\* Nobody waits any more for the tool that p has started.
Outlives(p) == orphans' = [orphans EXCEPT ![Target(p)] = @ \cup {pass[p].seen}]

PassDies(p) ==
    /\ pass[p].at \notin {"idle", "over", "dead"} /\ Upset /\ Moves(p, "dead") /\ Forgotten(p)
    /\ IF pass[p].at = "building" THEN Outlives(p) ELSE UNCHANGED orphans
    /\ UNCHANGED <<refreshLock, rescue, refreshState, world, strays, builder, tried>>

----------------------------------------------------------------------------
(* The rebuilding of a graph, by a pass or by hand *)

\* It ends; for a pass, well or not.
Ends(p, well) ==
    IF ByHand(p) THEN Moves(p, "over") /\ UNCHANGED tried
    ELSE IF well THEN /\ Leave(p, [Untried EXCEPT !.files = pass[p].files], "saving")
                      /\ tried' = [tried EXCEPT ![Source(p)].times = 0]
    ELSE SyncFails(p) /\ UNCHANGED tried

\* The lock is taken, over a dead process's if need be, the files are
\* fingerprinted and the old receipt is put away.
BeginSync(p) ==
    LET s == Target(p) IN
    /\ pass[p].at = "sync" \/ pass[p].at = "idle"
    /\ IF \E q \in builder[s] : Alive(q)
       THEN Ends(p, FALSE) /\ UNCHANGED <<builder, world, strays>>
       ELSE /\ builder' = [builder EXCEPT ![s] = {p}]
            /\ world' = [world EXCEPT ![s].receipt = Unvouched] /\ strays' = strays \ {s}
            /\ pass' = [pass EXCEPT ![p].at = "building", ![p].seen = world[s].files] /\ UNCHANGED tried
    /\ UNCHANGED <<refreshLock, rescue, refreshState, orphans, lost, upsets>>

\* The external tool reads the files, at some time since it was started, and
\* writes the graph; or it fails; or its time is over, which ends the process
\* that was started but not always the tool.
BuildGraph(p) ==
    LET s == Target(p) IN
    /\ pass[p].at = "building"
    /\ \/ /\ Moves(p, "built") /\ \E g \in pass[p].seen..world[s].files : world' = [world EXCEPT ![s].graph = g]
          /\ UNCHANGED <<orphans, builder, tried, upsets>>
       \/ /\ Ends(p, FALSE) /\ builder' = [builder EXCEPT ![s] = {}]
          /\ UNCHANGED <<orphans, upsets>> \/ (Upset /\ Outlives(p))
          /\ UNCHANGED world
    /\ UNCHANGED <<refreshLock, rescue, refreshState, strays, lost>>

\* A tool that nobody waits for writes its graph after all, whoever holds the
\* lock of the rebuilding by then.  Others started on the same files may follow.
OrphanWrites(s) ==
    /\ \E v \in orphans[s] : \E g \in v..world[s].files :
          /\ world' = [world EXCEPT ![s].graph = g]
          /\ orphans' \in {orphans, [orphans EXCEPT ![s] = @ \ {v}]}
          /\ strays' = IF \E p \in Passes : pass[p].at = "built" /\ Target(p) = s /\ g < pass[p].seen
                       THEN strays \cup {s} ELSE strays
    /\ UNCHANGED <<refreshLock, rescue, refreshState, builder, pass, tried, lost, upsets>>

\* Changed form of Vouched: the files are not compared with those before.
Vouched_Anyway(p) == world[Target(p)].graph # 0

\* Nothing has changed during the build.
Vouched(p) == world[Target(p)].graph # 0 /\ world[Target(p)].files = pass[p].seen

\* The receipt is written for the files there were before and after.
PublishReceipt(p) ==
    LET s == Target(p) IN
    /\ pass[p].at = "built" /\ builder' = [builder EXCEPT ![s] = {}]
    /\ IF Vouched(p)
       THEN /\ world' = [world EXCEPT ![s].receipt = [files |-> world[s].files, graph |-> world[s].graph]]
            /\ \E well \in BOOLEAN : Ends(p, well)
       ELSE Ends(p, FALSE) /\ UNCHANGED world
    /\ UNCHANGED <<refreshLock, rescue, refreshState, tools, lost, upsets>>

\* The files or the origin change, or the graph is lost.
SourceChanges(s) ==
    /\ Upset
    /\ \/ world' = [world EXCEPT ![s].files = @ + 1] /\ UNCHANGED tried
       \/ s \in Reconciling /\ world' = [world EXCEPT ![s].origin = @ + 1] /\ tried' = [tried EXCEPT ![s].times = 0]
       \/ world[s].graph # 0 /\ world' = [world EXCEPT ![s].graph = 0] /\ UNCHANGED tried
    /\ UNCHANGED <<refreshLock, rescue, refreshState, tools, builder, pass, lost>>

RefreshNext ==
    \/ \E p \in Passes :
         \/ CreateLock(p) \/ LookAtLock(p) \/ AskOwner(p) \/ TakeGuard(p) \/ CompareLock(p) \/ MoveLock(p)
         \/ FillLock(p) \/ Unguard(p) \/ ReleaseLock(p)
         \/ LoadState(p) \/ Reconcile(p) \/ Fingerprint(p) \/ Refresh(p) \/ SaveState(p) \/ WriteFails(p) \/ PassDies(p)
         \/ BeginSync(p) \/ BuildGraph(p) \/ PublishReceipt(p)
    \/ \E s \in Sources : SourceChanges(s) \/ OrphanWrites(s)

RefreshSpec == RefreshInit /\ [][RefreshNext]_refreshVars

\* A source that nobody changes and that never gets fresh is rebuilt at most
\* MaxAttempts times, over all passes, overlapping ones and takeovers of a
\* dead pass's lock included; only what a pass could not save may come on top.
AttemptsBounded == \A s \in Sources : tried[s].times <= MaxAttempts + lost[s]

\* A source that is found fresh has the graph of the very files it has, whoever
\* rebuilt it and whatever changed, died or outlived its caller meanwhile, unless
\* a tool nobody waits for has put an older graph in the place of the new one
\* between its build and its receipt.
FreshIsTrue == \A s \in Sources : Fresh(s) => world[s].graph = world[s].files \/ s \in strays

\* The scheduled job neither gives a graph out for what it is not nor rebuilds
\* one for ever.
RefreshHolds == AttemptsBounded /\ FreshIsTrue
=============================================================================

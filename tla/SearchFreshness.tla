-------------------------- MODULE SearchFreshness --------------------------
(***************************************************************************)
(* The freshness service of the local search: the watcher of               *)
(* src/packages/local-search/maintenance.js, which runs one maintenance    *)
(* pass at a time for events, a timer and explicit requests, and the       *)
(* runner of service-runner.js, which publishes its state and stops it.    *)
(* The host's resources (resources.js) pause passes.                       *)
(*                                                                         *)
(* One process; an action is the code between two awaits.  What a pass     *)
(* indexes is left out but for whether it ran to its end after an event.   *)
(***************************************************************************)
EXTENDS Naturals

CONSTANTS
    MaxFaults,  \* passes that fail and statuses that cannot be written
    MaxChanges  \* how often the host's resources change

ASSUME FreshnessAssumption == MaxFaults \in Nat /\ MaxChanges \in Nat

VARIABLES
    host,       \* what evaluateBackground finds: "ready", "dwell" (a soft
                \* pause), "power" (a hard one), "unpublished" (no status file)
    watcher,    \* the closure of watch
    unindexed,  \* the first change no finished pass covers: "none", "old" when
                \* the pass under way began after it, "new" otherwise
    runner,     \* the closure of runService
    status,     \* the phase last published, "none" before
    left        \* faults and changes still to come

freshnessVars == <<host, watcher, unindexed, runner, status, left>>

FreshnessInit ==
    /\ host \in {"ready", "power"} /\ unindexed = "none" /\ status = "none"
    /\ watcher = [running |-> FALSE, pass |-> "none", ready |-> FALSE, queued |-> FALSE, microtask |-> FALSE,
                  paused |-> "ready", stopped |-> FALSE, aborted |-> FALSE, timer |-> FALSE, events |-> FALSE,
                  sick |-> FALSE, last |-> "none"]
    /\ runner = [at |-> "start", stop |-> FALSE, mute |-> FALSE, phase |-> "starting", tick |-> "none"]
    /\ left = [faults |-> MaxFaults, changes |-> MaxChanges]

----------------------------------------------------------------------------
(* The watcher: what each of its functions makes of the closure w.         *)

Passing(w) == w.pass # "none"

\* checkResources: a pause is noted, and a hard one aborts the pass.
Checked(w) ==
    [w EXCEPT !.paused = host, !.queued = @ \/ host # "ready",
              !.aborted = @ \/ (Passing(w) /\ host \in {"power", "unpublished"})]

\* run: refused once stopped, put off under a hard pause or behind another
\* pass, and begun otherwise; the queue is then empty.
Run(w, reason) ==
    IF w.stopped THEN w
    ELSE IF w.running \/ (w.paused = "power" /\ reason \notin {"periodic", "startup"})
    THEN [w EXCEPT !.queued = TRUE]
    ELSE [Checked([w EXCEPT !.running = TRUE]) EXCEPT
            !.queued = FALSE, !.pass = "metadata", !.ready = host = "ready", !.aborted = FALSE]

\* The finally block: one more pass when one was asked for meanwhile.
Finished(w) ==
    LET v == [w EXCEPT !.running = FALSE, !.pass = "none"]
    IN IF v.queued /\ v.paused = "ready" /\ ~v.stopped THEN [v EXCEPT !.queued = FALSE, !.microtask = TRUE] ELSE v

\* stop: nothing starts from here on; a pass under way is aborted.
Halted(w) ==
    IF w.stopped THEN w
    ELSE [w EXCEPT !.stopped = TRUE, !.queued = FALSE, !.timer = FALSE, !.events = FALSE,
                   !.aborted = @ \/ Passing(w)]

\* stop resolves once no pass is under way.
Drained == watcher.stopped /\ ~watcher.running

----------------------------------------------------------------------------
(* The runner: heartbeats and stop. *)

\* projectWatcherState: errors stay until the service is started again.
Projected(w) ==
    IF w.stopped \/ w.sick THEN "degraded"
    ELSE IF w.paused # "ready" THEN "paused"
    ELSE IF w.last = "ok" THEN "watching" ELSE "degraded"

\* heartbeat, and with it requestStop when the status cannot be written: the
\* state after publishing phase from closures r and w.
Published(r, w) ==
    \/ r.mute /\ runner' = r /\ watcher' = w /\ UNCHANGED <<status, left>>
    \/ ~r.mute /\ runner' = r /\ watcher' = w /\ status' = r.phase /\ UNCHANGED left
    \/ /\ ~r.mute /\ left.faults > 0 /\ left' = [left EXCEPT !.faults = @ - 1]
       /\ runner' = [r EXCEPT !.mute = TRUE, !.phase = "degraded", !.stop = TRUE]
       /\ watcher' = (IF r.at = "start" THEN w ELSE Halted(w)) /\ UNCHANGED status

\* callbackHeartbeat, from a callback of the watcher.
CalledBack(r, w) ==
    IF runner.stop THEN runner' = r /\ watcher' = w /\ UNCHANGED <<status, left>> ELSE Published(r, w)

\* The receipt is checked, a first status published and the launch
\* acknowledged; then watch sets its timer and makes the first pass.
StartService ==
    /\ runner.at = "start"
    /\ \/ Published([runner EXCEPT !.at = "over", !.phase = "degraded", !.stop = TRUE], watcher)
       \/ /\ Published(runner, watcher) /\ runner'.mute
          /\ UNCHANGED <<unindexed, host>>
       \/ /\ ~runner.stop /\ status' = "starting" /\ UNCHANGED left
          /\ runner' = [runner EXCEPT !.at = "watch"]
          /\ watcher' = Run([watcher EXCEPT !.timer = TRUE], "startup")
    /\ UNCHANGED <<host, unindexed>>

\* A failed first status ends the runner before anything was started.
GiveUpStart ==
    /\ runner.at = "start" /\ runner.mute /\ runner' = [runner EXCEPT !.at = "over"]
    /\ UNCHANGED <<host, watcher, unindexed, status, left>>

\* watch returns when its first pass is over: events are watched from now on.
WatchReturns ==
    /\ runner.at = "watch" /\ ~watcher.running
    /\ IF runner.stop
       THEN runner' = [runner EXCEPT !.at = "draining"] /\ UNCHANGED <<watcher, status, left>>
       ELSE Published([runner EXCEPT !.at = "up", !.phase = Projected(watcher)], [watcher EXCEPT !.events = TRUE])
    /\ UNCHANGED <<host, unindexed>>

\* A signal to the process: requestStop aborts the watcher's signal.
Signal ==
    /\ runner.at # "over" /\ ~runner.stop
    /\ runner' = [runner EXCEPT !.stop = TRUE]
    /\ watcher' = IF runner.at = "start" THEN watcher ELSE Halted(watcher)
    /\ UNCHANGED <<host, unindexed, status, left>>

\* The runner's interval: after a gap of the clock it asks for a pass and
\* awaits it, otherwise it publishes what it sees.
BeginTick ==
    /\ runner.at = "up" /\ ~runner.stop /\ runner.tick = "none"
    /\ \/ Published([runner EXCEPT !.phase = Projected(watcher)], watcher)
       \/ /\ status' = "recovering" /\ UNCHANGED left
          /\ watcher' = Run(watcher, "explicitSignal")
          /\ runner' = [runner EXCEPT !.phase = "recovering", !.tick = "waits"]
    /\ UNCHANGED <<host, unindexed>>

EndTick ==
    /\ runner.tick = "waits" /\ ~watcher.running
    /\ IF runner.stop
       THEN runner' = [runner EXCEPT !.tick = "none"] /\ UNCHANGED <<watcher, status, left>>
       ELSE \E phase \in {Projected(watcher), "degraded"} :
              Published([runner EXCEPT !.tick = "none", !.phase = phase], watcher)
    /\ UNCHANGED <<host, unindexed>>

\* A request to stop is waited for, then the tick, then the watcher.
Drain ==
    /\ runner.at = "up" /\ runner.stop /\ runner' = [runner EXCEPT !.at = "draining"]
    /\ UNCHANGED <<host, watcher, unindexed, status, left>>

\* Changed form of FinishService: the last status does not wait for tick and watcher.
FinishService_AtOnce ==
    /\ runner.at = "draining"
    /\ Published([runner EXCEPT !.at = "over", !.phase = "stopped"], watcher)
    /\ UNCHANGED <<host, unindexed>>

FinishService ==
    /\ runner.at = "draining" /\ runner.tick = "none" /\ Drained
    /\ Published([runner EXCEPT !.at = "over", !.phase = "stopped"], watcher)
    /\ UNCHANGED <<host, unindexed>>

----------------------------------------------------------------------------
(* Passes, events and the host. *)

\* A file of a watched root changes; before events are watched the first
\* pass or the timer finds it.
Change ==
    /\ runner.at \in {"watch", "up"}
    /\ unindexed' = IF unindexed = "none" THEN "new" ELSE unindexed
    /\ watcher' = IF watcher.events THEN Run(watcher, "event") ELSE watcher
    /\ UNCHANGED <<host, runner, status, left>>

\* The timer of the watcher.
Periodic ==
    /\ watcher.timer
    /\ watcher' = IF watcher.running THEN Checked(watcher) ELSE Run(Checked(watcher), "periodic")
    /\ UNCHANGED <<host, unindexed, runner, status, left>>

RunQueued ==
    /\ watcher.microtask
    /\ watcher' = Run([watcher EXCEPT !.microtask = FALSE], "queued")
    /\ UNCHANGED <<host, unindexed, runner, status, left>>

\* The metadata part of a pass; the rest only when the host was ready.
Metadata ==
    /\ watcher.pass = "metadata"
    /\ IF watcher.ready
       THEN /\ watcher' = [watcher EXCEPT !.pass = "index"]
            /\ unindexed' = IF unindexed = "new" THEN "old" ELSE unindexed
       ELSE watcher' = Finished(watcher) /\ UNCHANGED unindexed
    /\ UNCHANGED <<host, runner, status, left>>

\* A pass ends and is reported.
Indexed ==
    /\ watcher.pass = "index" /\ ~watcher.aborted
    /\ CalledBack([runner EXCEPT !.phase = "watching"], Finished([watcher EXCEPT !.last = "ok"]))
    /\ unindexed' = IF unindexed = "old" THEN "none" ELSE unindexed
    /\ UNCHANGED host

\* Changed form of PassFails: the error path leaves the pass marked as running.
PassFails_KeepsRunning ==
    /\ watcher.pass = "index"
    /\ \/ watcher.aborted /\ CalledBack([runner EXCEPT !.phase = "degraded"],
                                       [watcher EXCEPT !.last = "failed", !.sick = TRUE, !.pass = "none"])
       \/ /\ ~watcher.aborted /\ left.faults > 0 /\ left' = [left EXCEPT !.faults = @ - 1]
          /\ runner' = [runner EXCEPT !.phase = "degraded"]
          /\ watcher' = [watcher EXCEPT !.last = "failed", !.sick = TRUE, !.pass = "none"]
          /\ status' = IF runner.stop \/ runner.mute THEN status ELSE "degraded"
    /\ unindexed' = IF unindexed = "old" THEN "new" ELSE unindexed
    /\ UNCHANGED host

\* A pass fails, of itself or because it was aborted.
PassFails ==
    /\ watcher.pass = "index"
    /\ \/ watcher.aborted /\ CalledBack([runner EXCEPT !.phase = "degraded"],
                                       Finished([watcher EXCEPT !.last = "failed", !.sick = TRUE]))
       \/ /\ ~watcher.aborted /\ left.faults > 0 /\ left' = [left EXCEPT !.faults = @ - 1]
          /\ runner' = [runner EXCEPT !.phase = "degraded"]
          /\ watcher' = Finished([watcher EXCEPT !.last = "failed", !.sick = TRUE])
          /\ status' = IF runner.stop \/ runner.mute THEN status ELSE "degraded"
    /\ unindexed' = IF unindexed = "old" THEN "new" ELSE unindexed
    /\ UNCHANGED host

HostChanges ==
    /\ left.changes > 0 /\ left' = [left EXCEPT !.changes = @ - 1]
    /\ host' \in {"ready", "dwell", "power", "unpublished"} \ {host}
    /\ UNCHANGED <<watcher, unindexed, runner, status>>

----------------------------------------------------------------------------

FreshnessNext ==
    \/ StartService \/ GiveUpStart \/ WatchReturns \/ Signal \/ BeginTick \/ EndTick \/ Drain \/ FinishService
    \/ Change \/ Periodic \/ RunQueued \/ Metadata \/ Indexed \/ PassFails \/ HostChanges

\* Timers fire, microtasks run, passes end: metadata has a deadline of its
\* own and the maintenance worker is killed at its own.
FreshnessFair ==
    /\ WF_freshnessVars(WatchReturns) /\ WF_freshnessVars(EndTick)
    /\ WF_freshnessVars(Drain) /\ WF_freshnessVars(FinishService)
    /\ WF_freshnessVars(Periodic) /\ WF_freshnessVars(RunQueued)
    /\ WF_freshnessVars(Metadata) /\ WF_freshnessVars(Indexed \/ PassFails)

FreshnessSpec == FreshnessInit /\ [][FreshnessNext]_freshnessVars /\ FreshnessFair

\* When the runner has ended, no pass is under way or will begin, and the
\* last status it wrote does not pass for a living service's, unless it could
\* not write: whatever callbacks, ticks and queued passes were on their way.
StopIsFinal ==
    runner.at = "over" =>
      /\ ~watcher.running /\ ~watcher.timer /\ ~watcher.events
      /\ runner.mute \/ status \in {"stopped", "degraded"}

\* A change of a file is indexed by a pass that began after it, once the host
\* stays ready, unless the service is stopped: pauses, aborted and failed
\* passes and events that meet a running pass lose nothing for good.
ChangesAreIndexed ==
    <>[](host = "ready") => (unindexed # "none" ~> (unindexed = "none" \/ watcher.stopped))
=============================================================================

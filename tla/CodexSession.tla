---------------------------- MODULE CodexSession ----------------------------
(***************************************************************************)
(* The Codex worker and its durable checkpoint: runCodexWorker of          *)
(* src/src/background/codex-worker.js with the state layer                 *)
(* src/src/background/codex-worker-state.js.                               *)
(*                                                                         *)
(* A call runs the provider, perhaps more than once: a fresh run after a   *)
(* tool-argument error or a stale session, one resume after a completion   *)
(* without evidence.  Around every run it rewrites a session checkpoint    *)
(* (temporary file, fsync, rename) and then appends to the event log: two  *)
(* writes, not one transaction.  Calls may belong to different processes,  *)
(* a process may die between any two steps, and a write may fail before or *)
(* after its rename.                                                       *)
(***************************************************************************)
EXTENDS Naturals

CONSTANTS
    Calls,        \* calls of runCodexWorker
    Sessions,     \* Codex thread ids
    Conversation, \* the task id every foreground call of a chat shares
    Kinds,        \* how calls name their task: "background", "taskId", "chatId"
    Overlap,      \* TRUE when calls may overlap, FALSE when they follow one another
    MaxFaults     \* how many file operations may fail

None == "none"
Runs == 1..5
Tasks == {<<Conversation, 0>>} \cup (Calls \X Runs)

ASSUME SessionAssumption ==
    /\ None \notin Sessions /\ Conversation \notin Calls
    /\ Kinds \subseteq {"background", "taskId", "chatId"}
    /\ Overlap \in BOOLEAN /\ MaxFaults \in Nat

VARIABLES
    file,    \* per task: the checkpoint in SESSION_DIR, or NoFile
    logged,  \* per task: status of the last event in events.jsonl
    pc,      \* per call: its next step
    call,    \* per call: the variables of its current invocation
    faults   \* file operations that have failed

vars == <<file, logged, pc, call, faults>>

Ended == {"returned", "threw", "crashed"}
Terminal == {"completed", "paused", "failed", "needs_review", "blocked"}
Statuses == Terminal \cup {"running", "resuming"}

\* What the properties tell apart in a checkpoint: retryAt is whether
\* retry.next_retry_at is set, review is manual_review_required.
States == [status : Statuses \cup {"starting"}, session : Sessions \cup {None}, count : Nat,
           retryAt : BOOLEAN, review : BOOLEAN]
NoFile == [status |-> "absent", session |-> None, count |-> 0, retryAt |-> FALSE, review |-> FALSE]

\* An invocation: options (background, byId: a taskId that is its own slug,
\* session, toolArgRetryAttempt, completionRetryAttempt), the local taskState,
\* the checkpoint it is about to write and what follows it.
Invocations ==
    [background : BOOLEAN, byId : BOOLEAN, session : Sessions \cup {None},
     tool : BOOLEAN, held : BOOLEAN, task : Tasks, run : Runs,
     state : States \cup {NoFile}, next : States \cup {NoFile},
     then : {None, "return", "throw", "rethrow", "tool", "stale", "resume"},
     parsed : Sessions \cup {None}]

TypeOK ==
    /\ file \in [Tasks -> States \cup {NoFile}]
    /\ logged \in [Tasks -> Statuses \cup {None, "retrying"}]
    /\ pc \in [Calls -> Ended \cup {"idle", "start", "started", "running", "hanging", "mark",
                                    "marked", "note", "catch"}]
    /\ call \in [Calls -> Invocations]
    /\ faults \in 0..MaxFaults

\* A call that has not begun, or has ended, has no variables.
NoInvocation ==
    [background |-> FALSE, byId |-> FALSE, session |-> None, tool |-> FALSE, held |-> FALSE,
     task |-> <<Conversation, 0>>, run |-> 1, state |-> NoFile, next |-> NoFile, then |-> None,
     parsed |-> None]

Init ==
    /\ file = [t \in Tasks |-> NoFile]
    /\ logged = [t \in Tasks |-> None]
    /\ pc = [c \in Calls |-> "idle"]
    /\ call = [c \in Calls |-> NoInvocation]
    /\ faults = 0

\* Call c goes on at step p, with what its invocation then knows.
Goto(c, p) ==
    /\ pc' = [pc EXCEPT ![c] = p]
    /\ call' = IF p \in Ended THEN [call EXCEPT ![c] = NoInvocation] ELSE call

-----------------------------------------------------------------------------
\* The state layer: what each function makes of a checkpoint.

OrElse(a, b) == IF a # None THEN a ELSE b

BaseState(session) ==
    [status |-> "starting", session |-> session, count |-> 0, retryAt |-> FALSE, review |-> FALSE]

\* Changed form of StartedState: the status is left to the caller.
StartedState_KeepsStatus(state, session) == [state EXCEPT !.session = OrElse(session, @)]

StartedState(state, session) ==
    [state EXCEPT !.status = IF session = None THEN "running" ELSE "resuming",
                  !.session = OrElse(session, @)]

CompletedState(state, session) ==
    [state EXCEPT !.status = "completed", !.session = OrElse(session, @), !.retryAt = FALSE]

PausedState(state, session) ==
    [state EXCEPT !.status = "paused", !.session = OrElse(session, @),
                  !.count = @ + 1, !.retryAt = TRUE]

\* Changed form of FailedState: the schedule of an earlier pause stays.
FailedState_KeepsSchedule(state, session) ==
    [state EXCEPT !.status = "failed", !.session = OrElse(session, @)]

FailedState(state, session) ==
    [state EXCEPT !.status = "failed", !.session = OrElse(session, @), !.retryAt = FALSE]

HeldState(state, session, verdict) ==
    [state EXCEPT !.status = verdict, !.session = OrElse(session, @), !.retryAt = FALSE,
                  !.review = TRUE]

-----------------------------------------------------------------------------
\* Starting an invocation.

\* A background invocation takes a new id and no session; the others write the
\* conversation's checkpoint.
Invocation(c, background, byId, session, run, tool, held) ==
    [background |-> background, byId |-> byId, tool |-> tool, held |-> held, run |-> run,
     session |-> IF background THEN None ELSE session,
     task |-> IF background THEN <<c, run>> ELSE <<Conversation, 0>>,
     state |-> NoFile, next |-> NoFile, then |-> None, parsed |-> None]

\* Calls in sequence are calls of the conversation: a background call, which
\* shares no checkpoint with them, is in a behaviour of its own.
Precedes(d, kind) ==
    /\ pc[d] \in Ended /\ kind # "background"
    /\ \A n \in Runs : file[<<d, n>>] = NoFile

Begin(c) ==
    /\ pc[c] = "idle"
    /\ \E kind \in Kinds, session \in Sessions \cup {None} :
         /\ Overlap \/ \A d \in Calls \ {c} : pc[d] = "idle" \/ Precedes(d, kind)
         /\ call' = [call EXCEPT ![c] =
              Invocation(c, kind = "background", kind = "taskId", session, 1, FALSE, FALSE)]
    /\ pc' = [pc EXCEPT ![c] = "start"]
    /\ UNCHANGED <<file, logged, faults>>

\* An existing checkpoint is read only under the id the caller passed; a chat
\* id, or an id that slugify changes, starts from buildBaseState.
FirstState(c) ==
    LET i == call[c] IN
    StartedState(IF ~i.background /\ i.byId /\ file[i.task] # NoFile
                 THEN file[i.task] ELSE BaseState(i.session), i.session)

\* markStarted: the checkpoint, then its event.
WriteStart(c) ==
    /\ pc[c] = "start"
    /\ file' = [file EXCEPT ![call[c].task] = FirstState(c)]
    /\ call' = [call EXCEPT ![c].state = FirstState(c)]
    /\ pc' = [pc EXCEPT ![c] = "started"]
    /\ UNCHANGED <<logged, faults>>

LogStart(c) ==
    /\ pc[c] = "started"
    /\ logged' = [logged EXCEPT ![call[c].task] = call[c].state.status]
    /\ Goto(c, "running")
    /\ UNCHANGED <<file, faults>>

-----------------------------------------------------------------------------
\* The provider's run ends; parsed is the thread id it announced, if any.

Mark(c, next, then, parsed) ==
    /\ call' = [call EXCEPT ![c].next = next, ![c].then = then, ![c].parsed = parsed]
    /\ pc' = [pc EXCEPT ![c] = "mark"]
    /\ UNCHANGED <<file, logged, faults>>

Thread(c, parsed) == OrElse(parsed, call[c].session)

\* What the error text of a run without a structured reply may match: a
\* malformed tool call, a closed or stale session, a usage or rate limit.
Symptoms == {"toolArgs", "stale", "limit"}

\* evaluateWorkerCompletion; without a required verification only "completed".
Verdicts == {"completed", "blocked", "needs_review"}

NoPayload(c, parsed, symptoms) ==
    LET i == call[c]
        session == Thread(c, parsed) IN
    \/ /\ "toolArgs" \in symptoms /\ ~i.tool
       /\ Mark(c, FailedState(i.state, session), "tool", parsed)
    \/ /\ ~("toolArgs" \in symptoms /\ ~i.tool)
       /\ "stale" \in symptoms /\ i.session # None
       /\ Mark(c, FailedState(i.state, session), "stale", parsed)
    \/ /\ ~("toolArgs" \in symptoms /\ ~i.tool)
       /\ ~("stale" \in symptoms /\ i.session # None)
       /\ Mark(c, IF "limit" \in symptoms THEN PausedState(i.state, session)
                                         ELSE FailedState(i.state, session), "throw", parsed)

\* A structured reply, empty or with the verdict of evaluateWorkerCompletion.
Payload(c, parsed, verdict) ==
    LET i == call[c]
        session == Thread(c, parsed) IN
    \/ /\ verdict = "empty"
       /\ Mark(c, FailedState(i.state, session), "throw", parsed)
    \/ /\ verdict = "needs_review" /\ ~i.held
       /\ Mark(c, HeldState(i.state, session, verdict), "resume", parsed)
    \/ /\ verdict = "blocked" \/ (verdict = "needs_review" /\ i.held)
       /\ Mark(c, HeldState(i.state, session, verdict), "return", parsed)
    \/ /\ verdict = "completed"
       /\ Mark(c, CompletedState(i.state, session), "return", parsed)

\* A process the provider has started holds its pipes: the kill timer reaches
\* the provider only, and runCommand resolves when the pipes are closed.
PipesHeld(c) ==
    /\ pc[c] = "running"
    /\ Goto(c, "hanging")
    /\ UNCHANGED <<file, logged, faults>>

ProviderEnds(c) ==
    /\ pc[c] \in {"running", "hanging"}
    /\ \E parsed \in Sessions \cup {None} :
         \/ \E symptoms \in SUBSET Symptoms : NoPayload(c, parsed, symptoms)
         \/ \E verdict \in {"empty"} \cup Verdicts : Payload(c, parsed, verdict)

\* runCommand rejects: the process could not be spawned, or its stdin broke.
ProviderRejects(c) ==
    /\ pc[c] \in {"running", "hanging"}
    /\ Goto(c, "catch")
    /\ UNCHANGED <<file, logged, faults>>

-----------------------------------------------------------------------------
\* Recording the end of a run, and what follows it.

WriteMark(c) ==
    /\ pc[c] = "mark"
    /\ file' = [file EXCEPT ![call[c].task] = call[c].next]
    /\ Goto(c, "marked")
    /\ UNCHANGED <<logged, faults>>

\* The recursive call of a retry: the caller's options, without its session,
\* or under the held checkpoint's id and with the session just seen.
\* Changed form of Recur: the flags of the retries are not passed on.
Recur_ForgetsFlags(c) ==
    LET i == call[c] IN
    /\ call' = [call EXCEPT ![c] =
          Invocation(c, i.background, i.then = "resume" \/ i.byId,
                     IF i.then = "resume" THEN Thread(c, i.parsed) ELSE None, i.run + 1, FALSE, FALSE)]
    /\ pc' = [pc EXCEPT ![c] = "start"]

Recur(c) ==
    LET i == call[c] IN
    /\ call' = [call EXCEPT ![c] =
          IF i.then = "resume"
          THEN Invocation(c, i.background, TRUE, Thread(c, i.parsed), i.run + 1, i.tool, TRUE)
          ELSE Invocation(c, i.background, i.byId, None, i.run + 1, i.tool \/ i.then = "tool", i.held)]
    /\ pc' = [pc EXCEPT ![c] = "start"]

\* Changed form of LogMark: a stale session is marked and nothing follows.
LogMark_ForgetsStale(c) ==
    LET i == call[c] IN
    /\ pc[c] = "marked"
    /\ logged' = [logged EXCEPT ![i.task] = i.next.status]
    /\ \/ i.then = "return" /\ Goto(c, "returned")
       \/ i.then = "throw" /\ Goto(c, "catch")
       \/ i.then = "rethrow" /\ Goto(c, "threw")
       \/ i.then = "tool" /\ Goto(c, "note")
       \/ i.then = "resume" /\ Recur(c)
    /\ UNCHANGED <<file, faults>>

LogMark(c) ==
    LET i == call[c] IN
    /\ pc[c] = "marked"
    /\ logged' = [logged EXCEPT ![i.task] = i.next.status]
    /\ \/ i.then = "return" /\ Goto(c, "returned")
       \/ i.then = "throw" /\ Goto(c, "catch")
       \/ i.then = "rethrow" /\ Goto(c, "threw")
       \/ i.then \in {"tool", "stale"} /\ Goto(c, "note")
       \/ i.then = "resume" /\ Recur(c)
    /\ UNCHANGED <<file, faults>>

\* The session.retry_* event, then the fresh run.
LogRetry(c) ==
    /\ pc[c] = "note"
    /\ logged' = [logged EXCEPT ![call[c].task] = "retrying"]
    /\ Recur(c)
    /\ UNCHANGED <<file, faults>>

\* Changed form of Catch: the error is only passed on.
Catch_OnlyRethrows(c) ==
    /\ pc[c] = "catch"
    /\ Goto(c, "threw")
    /\ UNCHANGED <<file, logged, faults>>

\* The catch block: unless the checkpoint says paused or failed, mark it
\* failed with the state the invocation started from, and rethrow.
Catch(c) ==
    LET i == call[c] IN
    /\ pc[c] = "catch"
    /\ \/ /\ file[i.task].status \in {"paused", "failed"}
          /\ Goto(c, "threw")
          /\ UNCHANGED <<file, logged, faults>>
       \/ /\ file[i.task].status \notin {"paused", "failed"}
          /\ Mark(c, FailedState(i.state, i.session), "rethrow", None)

-----------------------------------------------------------------------------
\* Failures of the file system, and of the process.

\* markStarted runs before the try, the last markFailed inside the catch, and
\* the rejection of a recursive call is returned, not awaited.
AfterFault(c) == IF pc[c] \in {"start", "started"} \/ call[c].then = "rethrow"
                 THEN "threw" ELSE "catch"

\* writeSessionState throws, before its rename or after it.
WriteFails(c) ==
    /\ pc[c] \in {"start", "mark"} /\ faults < MaxFaults
    /\ faults' = faults + 1
    /\ \/ UNCHANGED file
       \/ file' = [file EXCEPT ![call[c].task] = IF pc[c] = "start" THEN FirstState(c)
                                                                   ELSE call[c].next]
    /\ Goto(c, AfterFault(c))
    /\ UNCHANGED logged

\* appendEvent throws; the line may be in the log.
LogFails(c) ==
    /\ pc[c] \in {"started", "marked", "note"} /\ faults < MaxFaults
    /\ faults' = faults + 1
    /\ \/ UNCHANGED logged
       \/ logged' = [logged EXCEPT ![call[c].task] =
                       CASE pc[c] = "started" -> call[c].state.status
                         [] pc[c] = "marked" -> call[c].next.status
                         [] pc[c] = "note" -> "retrying"]
    /\ Goto(c, AfterFault(c))
    /\ UNCHANGED file

Crash(c) ==
    /\ pc[c] \notin Ended \cup {"idle"}
    /\ Goto(c, "crashed")
    /\ UNCHANGED <<file, logged, faults>>

\* Nothing is left to do: no call is under way.
Done ==
    /\ \A c \in Calls : pc[c] \in Ended \cup {"idle"}
    /\ UNCHANGED vars

Step(c) ==
    \/ WriteStart(c) \/ LogStart(c) \/ ProviderEnds(c) \/ ProviderRejects(c)
    \/ WriteMark(c) \/ LogMark(c) \/ LogRetry(c) \/ Catch(c)

Next ==
    \/ \E c \in Calls : Begin(c) \/ Step(c) \/ PipesHeld(c) \/ WriteFails(c) \/ LogFails(c) \/ Crash(c)
    \/ Done

\* A call's own steps are taken, and the kill timer ends a provider whose pipes
\* nobody else holds.  One whose pipes are held may hang for ever.
Spec == Init /\ [][Next]_vars /\ \A c \in Calls : WF_vars(pc[c] # "hanging" /\ Step(c))

-----------------------------------------------------------------------------
\* A retry is scheduled exactly for a paused session: no failed, held,
\* blocked or completed checkpoint keeps a next_retry_at of an earlier pause,
\* whichever calls wrote it, and a paused one always has it.
ScheduledIffPaused ==
    \A t \in Tasks : file[t].status \in Terminal => (file[t].retryAt <=> file[t].status = "paused")

\* The retries of one call nest without looping: each of the two retry flags
\* is spent once and a session goes stale at most once per resume, so the
\* provider runs at most five times, and three when nothing is ever resumed.
RunsBounded ==
    \A c \in Calls : pc[c] = "mark" /\ call[c].then \in {"tool", "stale", "resume"}
                       => call[c].run < IF call[c].background THEN 3 ELSE 5

\* "An unverified worker resumes once. A second gap remains needs_review with
\* manual_review_required": a call returns needs_review only from a run that
\* continued an earlier gap, and its checkpoint asks for a review.
SecondGapIsHeld(c) ==
    pc[c] # "returned" /\ pc'[c] = "returned" =>
        (call[c].next.status = "needs_review" => call[c].held /\ call[c].next.review)

\* The checkpoint is c's own while no other call overlaps it.
Alone(c) == ~Overlap \/ call[c].background

\* A call that throws leaves a failed or paused checkpoint and its event; when
\* one file operation fails, an event append included, it still never leaves
\* the checkpoint saying that this call completed.
FailureIsRecorded(c) ==
    Alone(c) /\ pc[c] # "threw" /\ pc'[c] = "threw" =>
        LET t == call[c].task IN
        /\ faults' = 0 => file[t].status \in {"paused", "failed"} /\ logged'[t] = file[t].status
        /\ faults' <= 1 /\ pc[c] # "start" => file'[t].status # "completed"

\* While calls follow one another, no step loses the thread id of a checkpoint,
\* so that a paused session can be resumed, except the first write of an
\* invocation without a task id, and the catch block after a failed file
\* operation: its markFailed starts from the state of markStarted, without the
\* thread the run announced.  A call that another overlaps writes its own copy.
ThreadKept(t) ==
    ~Overlap /\ faults = 0 /\ file[t].session # None /\ file'[t].session = None =>
        \E c \in Calls : call[c].task = t /\ pc[c] = "start" /\ ~call[c].byId

\* What a call leaves for the next one to go on from is true: how it ended,
\* whether somebody must look at it, and which thread it was.
CheckpointIsTrue ==
    [][/\ \A c \in Calls : SecondGapIsHeld(c) /\ FailureIsRecorded(c)
       /\ \A t \in Tasks : ThreadKept(t)]_vars

\* Every call ends, or its process dies, unless a descendant of its provider
\* holds the pipes for ever: no sequence of retries, no hang that is over and no
\* failing file system leaves it waiting.
EveryCallEnds ==
    \A c \in Calls : (pc[c] = "start" ~> pc[c] \in Ended) \/ <>[](pc[c] = "hanging")
=============================================================================

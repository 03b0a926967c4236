---------------------------- MODULE Calls_proofs ----------------------------
(***************************************************************************)
(* Proofs about calls of models: the sessions of the Codex worker, the     *)
(* project a session inherits, the footer of its route block, the lanes of *)
(* language model calls and the sidecars of the prompt hooks.  The         *)
(* components share nothing; each has a part of its own.                   *)
(***************************************************************************)
EXTENDS CodexSession, SessionRoute, RouteContext, ModelCalls, HookSidecars, FiniteSetTheorems,
        SequenceTheorems, TLAPS

----------------------------------------------------------------------------
(***************************************************************************)
(* The Codex worker for any number of overlapping calls, any failures and  *)
(* any thread ids: type correctness, the bound on the runs of a call, a    *)
(* retry scheduled exactly for a paused session, and a checkpoint that     *)
(* says truly how a call ended.                                            *)
(***************************************************************************)

Flag(b) == IF b THEN 1 ELSE 0

\* What the flags of an invocation have paid for: a tool retry and a resume are
\* spent once, a stale session once for each session the call was given.
Budget(i) ==
    IF i.background
    THEN i.session = None /\ i.run <= 1 + Flag(i.tool) + Flag(i.held)
    ELSE i.run + Flag(i.session # None) <= 2 + Flag(i.tool) + 2 * Flag(i.held)

\* A retry that is coming has not been spent.
Unspent(i) ==
    /\ i.then = "tool" => ~i.tool
    /\ i.then = "stale" => i.session # None
    /\ i.then = "resume" => ~i.held

Consistent(s) == s.status \in Terminal => (s.retryAt <=> s.status = "paused")

Sound(i, p) ==
    /\ Budget(i) /\ Unspent(i) /\ Consistent(i.next)
    /\ p \in {"mark", "marked"} => i.next.status \in Terminal
    /\ p = "started" => i.state.status \in {"running", "resuming"}
    /\ p = "note" => i.then \in {"tool", "stale"}

Pcs == Ended \cup {"idle", "start", "started", "running", "hanging", "mark", "marked", "note", "catch"}

CallsInv ==
    /\ pc \in [Calls -> Pcs] /\ call \in [Calls -> Invocations]
    /\ \A c \in Calls : Sound(call[c], pc[c])

FilesInv ==
    /\ file \in [Tasks -> States \cup {NoFile}]
    /\ logged \in [Tasks -> Statuses \cup {None, "retrying"}]
    /\ faults \in 0..MaxFaults
    /\ ScheduledIffPaused

IInv == CallsInv /\ FilesInv

-----------------------------------------------------------------------------
\* The states the state layer computes.

\* A checkpoint that is there or not.
Checkpoints == [status : Statuses \cup {"starting", "absent"}, session : Sessions \cup {None}, count : Nat,
                retryAt : BOOLEAN, review : BOOLEAN]

LEMMA CheckpointFacts == States \cup {NoFile} \subseteq Checkpoints /\ NoFile \notin States
<1>1. States \subseteq Checkpoints
  BY DEF States, Checkpoints
<1>2. NoFile \in Checkpoints
  BY DEF NoFile, Checkpoints
<1>3. NoFile \notin States
  BY DEF NoFile, States, Statuses, Terminal
<1> QED
  BY <1>1, <1>2, <1>3

LEMMA Starts ==
    ASSUME NEW s \in States \cup {NoFile}, NEW t \in Sessions \cup {None}
    PROVE  /\ StartedState(s, t) \in States
           /\ StartedState(s, t).status \in {"running", "resuming"}
<1>1. s \in Checkpoints
  BY CheckpointFacts
<1>2. OrElse(t, s.session) \in Sessions \cup {None}
  BY <1>1 DEF OrElse, Checkpoints
<1> QED
  BY <1>1, <1>2 DEF StartedState, States, Checkpoints, Statuses

LEMMA Marks ==
    ASSUME NEW s \in States \cup {NoFile}, NEW t \in Sessions \cup {None},
           NEW m \in {CompletedState(s, t), PausedState(s, t), FailedState(s, t),
                      HeldState(s, t, "blocked"), HeldState(s, t, "needs_review")}
    PROVE  m \in States /\ m.status \in Terminal /\ Consistent(m)
<1>1. s \in Checkpoints
  BY CheckpointFacts
<1>2. OrElse(t, s.session) \in Sessions \cup {None}
  BY <1>1 DEF OrElse, Checkpoints
<1> USE <1>1, <1>2 DEF Consistent, States, Checkpoints, Statuses, Terminal
<1>3. CASE m = CompletedState(s, t)
  BY <1>3 DEF CompletedState
<1>4. CASE m = PausedState(s, t)
  <2>1. /\ m.status = "paused" /\ m.retryAt = TRUE /\ m.session = OrElse(t, s.session)
        /\ m.count = s.count + 1 /\ m.review = s.review
        /\ m = [status |-> m.status, session |-> m.session, count |-> m.count, retryAt |-> m.retryAt,
            review |-> m.review]
    BY <1>4 DEF PausedState
  <2>2. m.count \in Nat /\ m.review \in BOOLEAN /\ m.session \in Sessions \cup {None} /\ m.status \in Statuses
    BY <2>1
  <2>3. m \in States
    BY <2>1, <2>2
  <2> QED
    BY <2>1, <2>3
<1>5. CASE m = FailedState(s, t)
  BY <1>5 DEF FailedState
<1>6. ASSUME NEW verdict \in {"blocked", "needs_review"}, m = HeldState(s, t, verdict)
      PROVE  m \in States /\ m.status \in Terminal /\ Consistent(m)
  BY <1>6 DEF HeldState
<1> QED
  BY <1>3, <1>4, <1>5, <1>6

LEMMA NoInvocationSound ==
    /\ NoInvocation \in Invocations
    /\ \A p \in Ended \cup {"idle"} : Sound(NoInvocation, p)
BY SessionAssumption
    DEF NoInvocation, Invocations, Sound, Budget, Unspent, Consistent, Flag, NoFile, Tasks, Runs, None,
       Terminal, Ended

LEMMA InvocationSound ==
    ASSUME NEW c \in Calls, NEW b \in BOOLEAN, NEW byId \in BOOLEAN, NEW s \in Sessions \cup {None},
           NEW n \in Runs, NEW tool \in BOOLEAN, NEW held \in BOOLEAN,
           b => n <= 1 + Flag(tool) + Flag(held),
           ~b => n + Flag(s # None) <= 2 + Flag(tool) + 2 * Flag(held)
    PROVE  /\ Invocation(c, b, byId, s, n, tool, held) \in Invocations
           /\ Sound(Invocation(c, b, byId, s, n, tool, held), "start")
<1> DEFINE i == Invocation(c, b, byId, s, n, tool, held)
<1>1. i \in Invocations
  BY DEF Invocation, Invocations, Tasks
<1>2. /\ i.background = b /\ i.session = (IF b THEN None ELSE s) /\ i.run = n /\ i.tool = tool /\ i.held = held
      /\ i.then = None /\ i.next = NoFile
  BY DEF Invocation
<1> HIDE DEF i
<1>3. Budget(i)
  BY <1>2 DEF Budget
<1>4. Unspent(i) /\ Consistent(i.next)
  BY <1>2 DEF Unspent, Consistent, NoFile, Terminal, None
<1>5. Sound(i, "start")
  BY <1>3, <1>4 DEF Sound
<1> QED
  BY <1>1, <1>5 DEF i

-----------------------------------------------------------------------------
\* A step of one call, by what it makes of its invocation.

LEMMA CallChanges ==
    ASSUME CallsInv, NEW c \in Calls, NEW j \in Invocations, NEW p \in Pcs, Sound(j, p),
           call' = [call EXCEPT ![c] = j], pc' = [pc EXCEPT ![c] = p]
    PROVE  CallsInv'
<1> USE DEF CallsInv
<1>1. call'[c] = j /\ pc'[c] = p /\ \A d \in Calls \ {c} : call'[d] = call[d] /\ pc'[d] = pc[d]
  OBVIOUS
<1>2. \A d \in Calls : Sound(call'[d], pc'[d])
  BY <1>1
<1>3. call' \in [Calls -> Invocations] /\ pc' \in [Calls -> Pcs]
  OBVIOUS
<1> QED
  BY <1>2, <1>3

LEMMA GotoInv ==
    ASSUME CallsInv, NEW c \in Calls, NEW p \in Pcs \ {"mark", "started"}, Goto(c, p),
           p = "marked" => pc[c] = "mark",
           p = "note" => call[c].then \in {"tool", "stale"}
    PROVE  CallsInv'
<1> DEFINE j == IF p \in Ended THEN NoInvocation ELSE call[c]
<1>1. call' = [call EXCEPT ![c] = j] /\ pc' = [pc EXCEPT ![c] = p]
  BY DEF CallsInv, Goto
<1>2. j \in Invocations /\ Sound(j, p)
  <2>1. CASE p \in Ended
    BY <2>1, NoInvocationSound
  <2>2. CASE p \notin Ended
    BY <2>2 DEF CallsInv, Sound
  <2> QED
    BY <2>1, <2>2
<1> QED
  BY <1>1, <1>2, CallChanges

Thens == {None, "return", "throw", "rethrow", "tool", "stale", "resume"}

LEMMA MarkInv ==
    ASSUME CallsInv, NEW c \in Calls, NEW next \in States, NEW then \in Thens, NEW parsed \in Sessions \cup {None},
           next.status \in Terminal, Consistent(next), Mark(c, next, then, parsed),
           then = "tool" => ~call[c].tool,
           then = "stale" => call[c].session # None,
           then = "resume" => ~call[c].held
    PROVE  CallsInv' /\ UNCHANGED <<file, logged, faults>>
<1> DEFINE j == [call[c] EXCEPT !.next = next, !.then = then, !.parsed = parsed]
<1>1. call[c] \in Invocations /\ Sound(call[c], pc[c])
  BY DEF CallsInv
<1>2. /\ j \in Invocations /\ j.next = next /\ j.then = then /\ j.background = call[c].background
      /\ j.session = call[c].session /\ j.run = call[c].run /\ j.tool = call[c].tool /\ j.held = call[c].held
  BY ZenonT(60), <1>1 DEF Invocations, Thens
<1>3. call' = [call EXCEPT ![c] = j] /\ pc' = [pc EXCEPT ![c] = "mark"]
  BY DEF Mark, CallsInv
<1> HIDE DEF j
<1>4. Sound(j, "mark")
  BY <1>1, <1>2 DEF Sound, Budget, Unspent
<1>5. "mark" \in Pcs
  BY DEF Pcs
<1>6. CallsInv'
  BY <1>2, <1>3, <1>4, <1>5, CallChanges
<1> QED
  BY <1>6 DEF Mark

LEMMA ThreadType ==
    ASSUME CallsInv, NEW c \in Calls, NEW parsed \in Sessions \cup {None}
    PROVE  Thread(c, parsed) \in Sessions \cup {None}
BY DEF CallsInv, Invocations, Thread, OrElse

LEMMA RecurInv ==
    ASSUME CallsInv, NEW c \in Calls, call[c].then \in {"tool", "stale", "resume"}, Recur(c)
    PROVE  CallsInv'
<1> DEFINE i == call[c]
           thread == Thread(c, i.parsed)
<1>1. /\ i.background \in BOOLEAN /\ i.byId \in BOOLEAN /\ i.session \in Sessions \cup {None}
      /\ i.tool \in BOOLEAN /\ i.held \in BOOLEAN /\ i.run \in 1..5 /\ i.parsed \in Sessions \cup {None}
      /\ Budget(i) /\ Unspent(i)
  BY DEF CallsInv, Sound, Invocations, Runs
<1>2. thread \in Sessions \cup {None}
  BY <1>1, ThreadType
<1>3. i.then \in {"tool", "stale", "resume"} /\ "start" \in Pcs
  BY DEF Pcs
<1> HIDE DEF i, thread
<1>4. CASE i.then = "resume"
  <2> DEFINE j == Invocation(c, i.background, TRUE, thread, i.run + 1, i.tool, TRUE)
  <2>1. call' = [call EXCEPT ![c] = j]
    BY <1>4 DEF Recur, i, thread
  <2>2. i.run + 1 \in Runs /\ (i.background => i.run + 1 <= 1 + Flag(i.tool) + Flag(TRUE))
        /\ (~i.background => i.run + 1 + Flag(thread # None) <= 2 + Flag(i.tool) + 2 * Flag(TRUE))
    BY <1>1, <1>4 DEF Budget, Unspent, Flag, Runs
  <2>3. j \in Invocations /\ Sound(j, "start")
    BY <1>1, <1>2, <2>2, InvocationSound
  <2> QED
    BY <1>3, <2>1, <2>3, CallChanges DEF Recur
<1>5. CASE i.then \in {"tool", "stale"}
  <2> DEFINE tool == i.tool \/ i.then = "tool"
             j == Invocation(c, i.background, i.byId, None, i.run + 1, tool, i.held)
  <2>1. call' = [call EXCEPT ![c] = j]
    BY <1>5 DEF Recur, i
  <2>2. i.run + 1 \in Runs /\ (i.background => i.run + 1 <= 1 + Flag(tool) + Flag(i.held))
        /\ (~i.background => i.run + 1 + Flag(None # None) <= 2 + Flag(tool) + 2 * Flag(i.held))
    BY <1>1, <1>5 DEF Budget, Unspent, Flag, Runs
  <2>3. j \in Invocations /\ Sound(j, "start")
    BY ZenonT(60), <1>1, <2>2, InvocationSound
  <2> QED
    BY <1>3, <2>1, <2>3, CallChanges DEF Recur
<1> QED
  BY <1>3, <1>4, <1>5

-----------------------------------------------------------------------------
\* The steps of a call.

LEMMA FileWritten ==
    ASSUME FilesInv, NEW t \in Tasks, NEW s \in States, Consistent(s), file' = [file EXCEPT ![t] = s]
    PROVE  file' \in [Tasks -> States \cup {NoFile}] /\ ScheduledIffPaused'
<1> USE DEF FilesInv
<1>1. file'[t] = s /\ \A q \in Tasks \ {t} : file'[q] = file[q]
  OBVIOUS
<1> QED
  BY <1>1 DEF ScheduledIffPaused, Consistent

LEMMA Current ==
    ASSUME CallsInv, NEW c \in Calls
    PROVE  /\ call[c].task \in Tasks /\ call[c].session \in Sessions \cup {None}
           /\ call[c].state \in States \cup {NoFile} /\ call[c].next \in States \cup {NoFile}
           /\ Consistent(call[c].next)
           /\ pc[c] \in {"mark", "marked"} => call[c].next \in States /\ call[c].next.status \in Terminal
           /\ pc[c] = "started" => call[c].state.status \in {"running", "resuming"}
<1>1. call[c] \in Invocations /\ Sound(call[c], pc[c])
  BY DEF CallsInv
<1>2. NoFile.status \notin Terminal
  BY DEF NoFile, Terminal
<1> QED
  BY <1>1, <1>2 DEF Invocations, Sound

LEMMA FirstStateFacts ==
    ASSUME IInv, NEW c \in Calls
    PROVE  /\ FirstState(c) \in States /\ FirstState(c).status \in {"running", "resuming"}
           /\ Consistent(FirstState(c))
<1>1. BaseState(call[c].session) \in States
  BY Current DEF IInv, BaseState, States
<1>2. file[call[c].task] \in States \cup {NoFile}
  BY Current DEF IInv, FilesInv
<1>3. FirstState(c) \in States /\ FirstState(c).status \in {"running", "resuming"}
  BY <1>1, <1>2, Starts, Current DEF IInv, FirstState
<1> QED
  BY <1>3 DEF Consistent, Terminal

LEMMA BeginInv == ASSUME IInv, NEW c \in Calls, Begin(c) PROVE IInv'
<1> PICK kind \in Kinds, session \in Sessions \cup {None} :
        call' = [call EXCEPT ![c] =
          Invocation(c, kind = "background", kind = "taskId", session, 1, FALSE, FALSE)]
  BY DEF Begin
<1> DEFINE j == Invocation(c, kind = "background", kind = "taskId", session, 1, FALSE, FALSE)
<1>1. j \in Invocations /\ Sound(j, "start")
  <2> DEFINE b == kind = "background"
             byId == kind = "taskId"
  <2>1. b \in BOOLEAN /\ byId \in BOOLEAN /\ 1 \in Runs /\ FALSE \in BOOLEAN
    BY DEF Runs
  <2>2. 1 <= 1 + Flag(FALSE) + Flag(FALSE) /\ 1 + Flag(session # None) <= 2 + Flag(FALSE) + 2 * Flag(FALSE)
    BY DEF Flag
  <2> HIDE DEF b, byId
  <2>3. /\ Invocation(c, b, byId, session, 1, FALSE, FALSE) \in Invocations
        /\ Sound(Invocation(c, b, byId, session, 1, FALSE, FALSE), "start")
    BY <2>1, <2>2, InvocationSound
  <2> QED
    BY <2>3 DEF b, byId
<1>2. CallsInv'
  BY <1>1, CallChanges DEF IInv, Begin, Pcs
<1>3. FilesInv'
  BY DEF IInv, FilesInv, ScheduledIffPaused, Begin
<1> QED
  BY <1>2, <1>3 DEF IInv

LEMMA WriteStartInv == ASSUME IInv, NEW c \in Calls, WriteStart(c) PROVE IInv'
<1> DEFINE j == [call[c] EXCEPT !.state = FirstState(c)]
<1>1. call[c] \in Invocations /\ Sound(call[c], pc[c])
  BY DEF IInv, CallsInv
<1>2. FirstState(c) \in States /\ FirstState(c).status \in {"running", "resuming"} /\ Consistent(FirstState(c))
  BY FirstStateFacts
<1>3. /\ j \in Invocations /\ j.next = call[c].next /\ j.then = call[c].then /\ j.state = FirstState(c)
      /\ j.background = call[c].background /\ j.session = call[c].session /\ j.run = call[c].run
      /\ j.tool = call[c].tool /\ j.held = call[c].held
  BY <1>1, <1>2 DEF Invocations
<1>4. call' = [call EXCEPT ![c] = j] /\ pc' = [pc EXCEPT ![c] = "started"] /\ "started" \in Pcs
  BY DEF IInv, CallsInv, WriteStart, Pcs
<1> HIDE DEF j
<1>5. Sound(j, "started")
  BY <1>1, <1>2, <1>3 DEF Sound, Budget, Unspent
<1>6. CallsInv'
  BY <1>3, <1>4, <1>5, CallChanges DEF IInv
<1>7. FilesInv'
  BY <1>2, Current, FileWritten DEF IInv, WriteStart, FilesInv
<1> QED
  BY <1>6, <1>7 DEF IInv

LEMMA NoPayloadInv ==
    ASSUME CallsInv, NEW c \in Calls, NEW parsed \in Sessions \cup {None}, NEW symptoms, NoPayload(c, parsed,
        symptoms)
    PROVE  CallsInv' /\ UNCHANGED <<file, logged, faults>>
<1> DEFINE session == Thread(c, parsed)
<1>1. session \in Sessions \cup {None} /\ call[c].state \in States \cup {NoFile}
  BY ThreadType, Current
<1>2. \A m \in {PausedState(call[c].state, session), FailedState(call[c].state, session)} :
          m \in States /\ m.status \in Terminal /\ Consistent(m)
  BY <1>1, Marks
<1>3. {"tool", "stale", "throw"} \subseteq Thens
  BY DEF Thens
<1>4. PICK m \in {PausedState(call[c].state, session), FailedState(call[c].state, session)},
           then \in {"tool", "stale", "throw"} :
        /\ Mark(c, m, then, parsed)
        /\ then = "tool" => ~call[c].tool
        /\ then = "stale" => call[c].session # None
  BY DEF NoPayload
<1> QED
  BY <1>2, <1>3, <1>4, MarkInv

LEMMA PayloadInv ==
    ASSUME CallsInv, NEW c \in Calls, NEW parsed \in Sessions \cup {None},
           NEW verdict \in {"empty"} \cup Verdicts, Payload(c, parsed, verdict)
    PROVE  CallsInv' /\ UNCHANGED <<file, logged, faults>>
<1> DEFINE session == Thread(c, parsed)
           state == call[c].state
           marks == {CompletedState(state, session), FailedState(state, session),
                     HeldState(state, session, "blocked"), HeldState(state, session, "needs_review")}
<1>1. session \in Sessions \cup {None} /\ state \in States \cup {NoFile}
  BY ThreadType, Current
<1>2. \A m \in marks : m \in States /\ m.status \in Terminal /\ Consistent(m)
  BY <1>1, Marks
<1>3. {"throw", "resume", "return"} \subseteq Thens
  BY DEF Thens
<1>4. PICK m \in marks, then \in {"throw", "resume", "return"} :
        Mark(c, m, then, parsed) /\ (then = "resume" => ~call[c].held)
  BY DEF Payload
<1> QED
  BY <1>2, <1>3, <1>4, MarkInv

LEMMA ProviderInv == ASSUME IInv, NEW c \in Calls, ProviderEnds(c) \/ ProviderRejects(c) \/ PipesHeld(c) PROVE IInv'
<1>1. CallsInv' /\ UNCHANGED <<file, logged, faults>>
  <2>1. CASE ProviderEnds(c)
    BY <2>1, NoPayloadInv, PayloadInv DEF IInv, ProviderEnds
  <2>2. CASE ProviderRejects(c) \/ PipesHeld(c)
    BY <2>2, GotoInv DEF IInv, ProviderRejects, PipesHeld, Pcs
  <2> QED
    BY <2>1, <2>2
<1> QED
  BY <1>1 DEF IInv, FilesInv, ScheduledIffPaused

LEMMA WriteMarkInv == ASSUME IInv, NEW c \in Calls, WriteMark(c) PROVE IInv'
<1>1. CallsInv'
  BY GotoInv DEF IInv, WriteMark, Pcs, Ended
<1>2. FilesInv'
  BY Current, FileWritten DEF IInv, WriteMark, FilesInv
<1> QED
  BY <1>1, <1>2 DEF IInv

\* An event is appended under one of the statuses that events have.
LEMMA Logged ==
    ASSUME FilesInv, NEW t \in Tasks, NEW status \in Statuses \cup {"retrying"},
           logged' = [logged EXCEPT ![t] = status], UNCHANGED <<file, faults>>
    PROVE  FilesInv'
BY DEF FilesInv, ScheduledIffPaused

LEMMA LogInv == ASSUME IInv, NEW c \in Calls, LogStart(c) \/ LogMark(c) \/ LogRetry(c) PROVE IInv'
<1> USE DEF IInv
<1>1. CASE LogStart(c)
  <2>1. CallsInv'
    BY <1>1, GotoInv DEF LogStart, Pcs
  <2>2. FilesInv'
    BY <1>1, Current, Logged DEF LogStart, Statuses
  <2> QED
    BY <2>1, <2>2
<1>2. CASE LogMark(c)
  <2>1. CallsInv'
    <3>1. {"returned", "catch", "threw", "note"} \subseteq Pcs \ {"mark", "started", "marked"}
      BY DEF Pcs, Ended
    <3>2. CASE \E p \in {"returned", "catch", "threw", "note"} :
                   Goto(c, p) /\ (p = "note" => call[c].then \in {"tool", "stale"})
      BY <3>1, <3>2, GotoInv
    <3>3. CASE call[c].then = "resume" /\ Recur(c)
      BY <3>3, RecurInv
    <3> QED
      BY <1>2, <3>2, <3>3 DEF LogMark
  <2>2. FilesInv'
    BY <1>2, Current, Logged DEF LogMark, Statuses
  <2> QED
    BY <2>1, <2>2
<1>3. CASE LogRetry(c)
  <2>1. call[c].then \in {"tool", "stale", "resume"}
    BY <1>3 DEF LogRetry, CallsInv, Sound
  <2>2. CallsInv'
    BY <1>3, <2>1, RecurInv DEF LogRetry
  <2>3. FilesInv'
    BY <1>3, Current, Logged DEF LogRetry
  <2> QED
    BY <2>2, <2>3
<1> QED
  BY <1>1, <1>2, <1>3

LEMMA CatchInv == ASSUME IInv, NEW c \in Calls, Catch(c) PROVE IInv'
<1>1. CallsInv' /\ UNCHANGED <<file, logged, faults>>
  <2>1. CASE Goto(c, "threw") /\ UNCHANGED <<file, logged, faults>>
    BY <2>1, GotoInv DEF IInv, Pcs, Ended
  <2>2. CASE Mark(c, FailedState(call[c].state, call[c].session), "rethrow", None)
    BY <2>2, Current, Marks, MarkInv DEF IInv, Thens
  <2> QED
    BY <2>1, <2>2 DEF Catch
<1> QED
  BY <1>1 DEF IInv, FilesInv, ScheduledIffPaused

LEMMA FailureInv == ASSUME IInv, NEW c \in Calls, WriteFails(c) \/ LogFails(c) \/ Crash(c) PROVE IInv'
<1> USE DEF IInv
<1>1. CallsInv'
  <2>1. AfterFault(c) \in Pcs \ {"mark", "started", "marked", "note"}
    BY DEF AfterFault, Pcs, Ended
  <2>2. Goto(c, AfterFault(c)) \/ Goto(c, "crashed")
    BY DEF WriteFails, LogFails, Crash
  <2> QED
    BY <2>1, <2>2, GotoInv DEF Pcs, Ended
<1>2. faults' \in 0..MaxFaults
  BY SessionAssumption DEF WriteFails, LogFails, Crash, FilesInv
<1>3. logged' \in [Tasks -> Statuses \cup {None, "retrying"}]
  <2>1. CASE UNCHANGED logged
    BY <2>1 DEF FilesInv
  <2>2. ASSUME NEW status \in Statuses \cup {"retrying"}, logged' = [logged EXCEPT ![call[c].task] = status]
        PROVE  <1>3!:
    BY <2>2 DEF FilesInv
  <2>3. CASE LogFails(c)
    <3>1. CASE pc[c] = "started"
      BY <2>1, <2>2, <2>3, <3>1, Current DEF LogFails, Statuses
    <3>2. CASE pc[c] = "marked"
      BY <2>1, <2>2, <2>3, <3>2, Current DEF LogFails, Statuses
    <3>3. CASE pc[c] = "note"
      BY <2>1, <2>2, <2>3, <3>3 DEF LogFails
    <3> QED
      BY <2>3, <3>1, <3>2, <3>3 DEF LogFails
  <2> QED
    BY <2>1, <2>3 DEF WriteFails, Crash
<1>4. file' \in [Tasks -> States \cup {NoFile}] /\ ScheduledIffPaused'
  <2>1. CASE UNCHANGED file
    BY <2>1 DEF FilesInv, ScheduledIffPaused
  <2>2. ASSUME NEW s \in States, Consistent(s), file' = [file EXCEPT ![call[c].task] = s]
        PROVE  <1>4!:
    BY <2>2, Current, FileWritten
  <2>3. CASE WriteFails(c) /\ pc[c] = "start"
    BY <2>1, <2>2, <2>3, FirstStateFacts DEF WriteFails
  <2>4. CASE WriteFails(c) /\ pc[c] = "mark"
    BY <2>1, <2>2, <2>4, Current DEF WriteFails
  <2> QED
    BY <2>1, <2>3, <2>4 DEF WriteFails, LogFails, Crash
<1> QED
  BY <1>1, <1>2, <1>3, <1>4 DEF FilesInv

-----------------------------------------------------------------------------
LEMMA InitInv == Init => IInv
<1> SUFFICES ASSUME Init PROVE IInv
  OBVIOUS
<1>1. CallsInv
  BY NoInvocationSound DEF Init, CallsInv, Pcs
<1>2. FilesInv
  BY SessionAssumption DEF Init, FilesInv, ScheduledIffPaused, NoFile, Terminal
<1> QED
  BY <1>1, <1>2 DEF IInv

LEMMA NextInv == IInv /\ [Next]_vars => IInv'
<1> SUFFICES ASSUME IInv, [Next]_vars PROVE IInv'
  OBVIOUS
<1>1. ASSUME NEW c \in Calls, Begin(c) \/ Step(c) \/ PipesHeld(c) \/ WriteFails(c) \/ LogFails(c) \/ Crash(c)
      PROVE  IInv'
  BY <1>1, BeginInv, WriteStartInv, LogInv, ProviderInv, WriteMarkInv, CatchInv, FailureInv DEF Step
<1>2. CASE Done \/ UNCHANGED vars
  BY <1>2 DEF Done, vars, IInv, CallsInv, FilesInv, ScheduledIffPaused
<1> QED
  BY <1>1, <1>2 DEF Next

LEMMA AlwaysInv == Spec => []IInv
BY InitInv, NextInv, PTL DEF Spec

\* The variables keep their types; in particular no call ever needs a sixth run.
THEOREM SessionTypeCorrect == Spec => []TypeOK
<1>1. IInv => TypeOK
  BY DEF IInv, CallsInv, FilesInv, TypeOK, Pcs
<1> QED
  BY <1>1, AlwaysInv, PTL

\* Retries nest without looping: when another run is coming, the call has had
\* fewer than five, and a background call, which never resumes a thread, fewer
\* than three.
THEOREM RetriesBounded == Spec => []RunsBounded
<1>1. IInv => RunsBounded
  <2> SUFFICES ASSUME IInv, NEW c \in Calls, call[c].then \in {"tool", "stale", "resume"}
               PROVE  call[c].run < IF call[c].background THEN 3 ELSE 5
    BY DEF RunsBounded
  <2>1. Budget(call[c]) /\ Unspent(call[c]) /\ call[c] \in Invocations
    BY DEF IInv, CallsInv, Sound
  <2> QED
    BY <2>1 DEF Budget, Unspent, Flag, Invocations, Runs
<1> QED
  BY <1>1, AlwaysInv, PTL

\* Whichever calls wrote it, in whatever order and with whatever failures, a
\* checkpoint at rest has a retry scheduled exactly if it is paused.
THEOREM ScheduleIsRight == Spec => []ScheduledIffPaused
BY AlwaysInv, PTL DEF IInv, FilesInv

-----------------------------------------------------------------------------
\* What a call knows of the checkpoint it writes.

Active(c) == pc[c] \notin Ended \cup {"idle"}

\* A background invocation has a task of its own, any other the conversation's.
OwnTask(i, c) == i.task = IF i.background THEN <<c, i.run>> ELSE <<Conversation, 0>>

\* The steps of an invocation that has written its start.
UnderWay == {"started", "running", "hanging", "mark", "marked", "note", "catch"}

\* What an invocation has settled for itself.
Settled(i, p) ==
    /\ p \in UnderWay => i.state.status \in {"running", "resuming"}
    /\ p \in {"mark", "marked"} =>
          /\ i.then = "return" /\ i.next.status = "needs_review" => i.held /\ i.next.review
          /\ i.then = "throw" => i.next.status \in {"failed", "paused"}
          /\ i.then = "rethrow" => i.next.status = "failed"

\* What it knows of checkpoint f and event l, n file operations having failed.
Sees(i, p, f, l, n) ==
    /\ p \in {"started", "running", "hanging"} => f = i.state
    /\ p \in {"running", "hanging"} => l = i.state.status
    /\ p = "mark" /\ n = 0 => f.status # "completed" /\ (f.session # None => i.next.session # None)
    /\ p = "marked" => f = i.next
    /\ p = "catch" /\ n = 0 => l = f.status /\ (f = i.state \/ f.status \in {"failed", "paused"})

\* A background run to come has no checkpoint yet.
ToCome(i, p, n) ==
    p = "idle" \/ (i.background /\ p \notin Ended /\ (n > i.run \/ (n = i.run /\ p = "start")))

CheckpointInv ==
    /\ \A c \in Calls : OwnTask(call[c], c) /\ Settled(call[c], pc[c])
    /\ \A c \in Calls : Alone(c) => Sees(call[c], pc[c], file[call[c].task], logged[call[c].task], faults)
    /\ ~Overlap => \A c \in Calls, d \in Calls : c # d /\ Active(c) => ~Active(d)
    /\ \A c \in Calls, n \in Runs : ToCome(call[c], pc[c], n) => file[<<c, n>>] = NoFile

\* What the invariants say of one call.
LEMMA KnownOf ==
    ASSUME IInv, CheckpointInv, NEW d \in Calls
    PROVE  /\ call[d] \in Invocations /\ call[d].task \in Tasks /\ call[d].run \in Nat
           /\ OwnTask(call[d], d) /\ Settled(call[d], pc[d])
           /\ Alone(d) => Sees(call[d], pc[d], file[call[d].task], logged[call[d].task], faults)
           /\ file \in [Tasks -> States \cup {NoFile}] /\ faults \in Nat
           /\ DOMAIN logged = Tasks
<1>1. call[d] \in Invocations
  BY DEF IInv, CallsInv
<1> QED
  BY <1>1, SessionAssumption DEF IInv, FilesInv, CheckpointInv, Invocations, Runs

\* Nobody else writes the checkpoint of a call that is alone.
LEMMA ApartFromOthers ==
    ASSUME IInv, CheckpointInv, NEW c \in Calls, NEW d \in Calls, c # d, Active(d)
    PROVE  /\ \A n \in Runs : call[d].task # <<c, n>>
           /\ Alone(c) /\ Active(c) => call[d].task # call[c].task
<1>1. OwnTask(call[c], c) /\ OwnTask(call[d], d) /\ Conversation \notin Calls
  BY SessionAssumption DEF CheckpointInv
<1>2. ~Overlap => ~Active(c)
  BY DEF CheckpointInv
<1> QED
  BY <1>1, <1>2 DEF OwnTask, Alone

\* A step of call d that makes it j at step p.
LEMMA StepOfOne ==
    ASSUME IInv, CheckpointInv, NEW d \in Calls, Active(d), NEW j \in Invocations, NEW p \in Pcs \ {"idle"},
           call' = [call EXCEPT ![d] = j], pc' = [pc EXCEPT ![d] = p],
           \A t \in Tasks \ {call[d].task} : file'[t] = file[t] /\ logged'[t] = logged[t],
           faults' = 0 => faults = 0,
           OwnTask(j, d), Settled(j, p),
           ~Overlap \/ j.background => Sees(j, p, file'[j.task], logged'[j.task], faults'),
           j.background /\ p \notin Ended =>
              call[d].background /\ (j.run > call[d].run \/ (j.run = call[d].run /\ p # "start"))
    PROVE  CheckpointInv'
<1>1. call'[d] = j /\ pc'[d] = p /\ \A c \in Calls \ {d} : call'[c] = call[c] /\ pc'[c] = pc[c]
  BY DEF IInv, CallsInv
<1>2. \A c \in Calls : OwnTask(call'[c], c) /\ Settled(call'[c], pc'[c])
  BY <1>1 DEF CheckpointInv
<1>3. ASSUME NEW c \in Calls, ~Overlap \/ call'[c].background
      PROVE  Sees(call'[c], pc'[c], file'[call'[c].task], logged'[call'[c].task], faults')
  <2>1. CASE c = d
    BY <1>1, <1>3, <2>1
  <2>2. CASE c # d /\ Active(c)
    <3>1. call[c].task \in Tasks \ {call[d].task} /\ Alone(c)
      BY <1>1, <1>3, <2>2, ApartFromOthers, Current DEF IInv, Alone
    <3>2. Sees(call[c], pc[c], file[call[c].task], logged[call[c].task], faults)
      BY <3>1 DEF CheckpointInv
    <3> QED
      BY <1>1, <2>2, <3>1, <3>2 DEF Sees
  <2>3. CASE c # d /\ ~Active(c)
    BY <1>1, <2>3 DEF Sees, Active, Ended
  <2> QED
    BY <2>1, <2>2, <2>3
<1>4. ~Overlap => \A c \in Calls, e \in Calls : c # e /\ Active(c)' => ~Active(e)'
  BY <1>1 DEF CheckpointInv, Active
<1>5. ASSUME NEW c \in Calls, NEW n \in Runs, ToCome(call'[c], pc'[c], n) PROVE file'[<<c, n>>] = NoFile
  <2>1. <<c, n>> \in Tasks
    BY DEF Tasks
  <2>2. CASE c = d
    <3>1. call[d].run \in Nat /\ j.run \in Nat /\ n \in Nat
      BY DEF IInv, CallsInv, Invocations, Runs
    <3>2. call[d].background /\ n > call[d].run
      BY <1>1, <1>5, <2>2, <3>1 DEF ToCome
    <3>3. call[d].task # <<d, n>>
      <4>1. OwnTask(call[d], d)
        BY KnownOf
      <4>2. call[d].task = <<d, call[d].run>>
        BY <3>2, <4>1 DEF OwnTask
      <4>3. n # call[d].run
        BY <3>1, <3>2
      <4> QED
        BY <4>2, <4>3
    <3>4. file[<<d, n>>] = NoFile
      BY <3>2 DEF CheckpointInv, ToCome, Active
    <3> QED
      BY <2>1, <2>2, <3>3, <3>4
  <2>3. CASE c # d
    <3>1. file[<<c, n>>] = NoFile
      BY <1>1, <1>5, <2>3 DEF CheckpointInv
    <3> QED
      BY <2>1, <2>3, <3>1, ApartFromOthers
  <2> QED
    BY <2>2, <2>3
<1> QED
  BY <1>2, <1>3, <1>4, <1>5 DEF CheckpointInv, Alone

\* A call that goes on without a write of its own, or ends.
LEMMA GoesOn ==
    ASSUME IInv, CheckpointInv, NEW d \in Calls, Active(d), NEW p \in Pcs \ {"idle", "start"}, Goto(d, p),
           \A t \in Tasks \ {call[d].task} : file'[t] = file[t] /\ logged'[t] = logged[t],
           faults' = 0 => faults = 0,
           p \notin Ended => Settled(call[d], p),
           p \notin Ended /\ Alone(d) =>
             Sees(call[d], p, file'[call[d].task], logged'[call[d].task], faults')
    PROVE  CheckpointInv'
<1> DEFINE j == IF p \in Ended THEN NoInvocation ELSE call[d]
<1>1. call' = [call EXCEPT ![d] = j] /\ pc' = [pc EXCEPT ![d] = p]
  BY DEF IInv, CallsInv, Goto
<1>2. call[d] \in Invocations /\ OwnTask(call[d], d)
  BY KnownOf
<1>3. CASE p \in Ended
  <2>1. j = NoInvocation /\ j.background = FALSE /\ j.task = <<Conversation, 0>>
    BY <1>3 DEF NoInvocation
  <2>2. j \in Invocations
    BY <2>1, NoInvocationSound
  <2>3. \A f, l : Settled(j, p) /\ Sees(j, p, f, l, faults') /\ OwnTask(j, d)
    BY <1>3, <2>1 DEF Settled, Sees, OwnTask, Ended, UnderWay
  <2> HIDE DEF j
  <2> QED
    BY <1>1, <1>3, <2>1, <2>2, <2>3, StepOfOne
<1>4. CASE p \notin Ended
  <2>1. j = call[d]
    BY <1>4
  <2> HIDE DEF j
  <2> QED
    BY <1>1, <1>2, <1>4, <2>1, StepOfOne DEF Alone
<1> QED
  BY <1>3, <1>4

-----------------------------------------------------------------------------
\* The steps of a call, for what it knows.

LEMMA BeginKnows == ASSUME IInv, CheckpointInv, NEW c \in Calls, Begin(c) PROVE CheckpointInv'
<1> PICK kind \in Kinds, session \in Sessions \cup {None} :
        /\ Overlap \/ \A d \in Calls \ {c} : pc[d] = "idle" \/ Precedes(d, kind)
        /\ call' = [call EXCEPT ![c] =
          Invocation(c, kind = "background", kind = "taskId", session, 1, FALSE, FALSE)]
  BY DEF Begin
<1> DEFINE j == Invocation(c, kind = "background", kind = "taskId", session, 1, FALSE, FALSE)
<1>1. j.background \in BOOLEAN /\ j.run = 1 /\ j.task = IF j.background THEN <<c, 1>> ELSE <<Conversation, 0>>
  BY DEF Invocation
<1> HIDE DEF j
<1>2. /\ call'[c] = j /\ pc'[c] = "start" /\ pc[c] = "idle" /\ UNCHANGED <<file, logged, faults>>
      /\ \A d \in Calls \ {c} : call'[d] = call[d] /\ pc'[d] = pc[d]
  BY DEF IInv, CallsInv, Begin, j
<1>3. \A d \in Calls : OwnTask(call'[d], d) /\ Settled(call'[d], pc'[d])
  <2>1. OwnTask(j, c) /\ Settled(j, "start")
    BY <1>1 DEF OwnTask, Settled, UnderWay
  <2>2. \A d \in Calls \ {c} : OwnTask(call[d], d) /\ Settled(call[d], pc[d])
    BY DEF CheckpointInv
  <2> QED
    BY <1>2, <2>1, <2>2
<1>4. ASSUME NEW d \in Calls, ~Overlap \/ call'[d].background
      PROVE  Sees(call'[d], pc'[d], file'[call'[d].task], logged'[call'[d].task], faults')
  <2>1. CASE d = c
    BY <1>2, <2>1 DEF Sees
  <2>2. CASE d # c
    <3>1. Sees(call[d], pc[d], file[call[d].task], logged[call[d].task], faults)
      BY <1>2, <1>4, <2>2 DEF CheckpointInv, Alone
    <3> QED
      BY <1>2, <2>2, <3>1
  <2> QED
    BY <2>1, <2>2
<1>5. ~Overlap => \A d \in Calls, e \in Calls : d # e /\ Active(d)' => ~Active(e)'
  <2>1. ~Overlap => \A d \in Calls \ {c} : ~Active(d)
    BY DEF Precedes, Active
  <2> QED
    BY <1>2, <2>1 DEF Active
<1>6. \A d \in Calls, n \in Runs : ToCome(call'[d], pc'[d], n) => file'[<<d, n>>] = NoFile
  <2>1. \A n \in Runs : ToCome(call[c], pc[c], n)
    BY <1>2 DEF ToCome
  <2>2. \A d \in Calls \ {c}, n \in Runs : ToCome(call'[d], pc'[d], n) => ToCome(call[d], pc[d], n)
    BY <1>2
  <2>3. \A d \in Calls, n \in Runs : ToCome(call[d], pc[d], n) => file[<<d, n>>] = NoFile
    BY DEF CheckpointInv
  <2> QED
    BY <1>2, <2>1, <2>2, <2>3
<1> QED
  BY <1>3, <1>4, <1>5, <1>6 DEF CheckpointInv, Alone

LEMMA WriteStartKnows == ASSUME IInv, CheckpointInv, NEW c \in Calls, WriteStart(c) PROVE CheckpointInv'
<1> DEFINE i == call[c]
           first == FirstState(c)
           j == [call[c] EXCEPT !.state = first]
<1>1. /\ i \in Invocations /\ i.task \in Tasks /\ i.run \in Nat /\ OwnTask(i, c)
      /\ file \in [Tasks -> States \cup {NoFile}]
  BY KnownOf
<1>2. first \in States /\ first.status \in {"running", "resuming"}
  BY FirstStateFacts
<1> HIDE DEF first
<1>3. /\ j \in Invocations /\ j.state = first
      /\ j.background = i.background /\ j.run = i.run /\ j.task = i.task
  BY ZenonT(60), <1>1, <1>2 DEF Invocations
<1>4. call' = [call EXCEPT ![c] = j] /\ pc' = [pc EXCEPT ![c] = "started"] /\ "started" \in Pcs
  BY DEF IInv, CallsInv, WriteStart, Pcs, first
<1> HIDE DEF j
<1>5. file'[i.task] = first /\ \A t \in Tasks \ {i.task} : file'[t] = file[t]
  BY <1>1 DEF WriteStart, first
<1>6. OwnTask(j, c) /\ Settled(j, "started") /\ \A l, n : Sees(j, "started", first, l, n)
  BY <1>1, <1>2, <1>3 DEF OwnTask, Settled, Sees, UnderWay
<1>7. logged' = logged /\ faults' = faults /\ Active(c)
  BY DEF WriteStart, Active, Ended
<1> QED
  BY <1>3, <1>4, <1>5, <1>6, <1>7, StepOfOne

\* A run ended, or failed, and something is about to be marked.
LEMMA MarkKnows ==
    ASSUME IInv, CheckpointInv, NEW c \in Calls, Active(c), NEW next \in States, NEW then \in Thens,
           NEW parsed \in Sessions \cup {None}, Mark(c, next, then, parsed),
           then = "return" /\ next.status = "needs_review" => call[c].held /\ next.review,
           then = "throw" => next.status \in {"failed", "paused"},
           then = "rethrow" => next.status = "failed",
           pc[c] \in UnderWay,
           Alone(c) /\ faults = 0 =>
              /\ file[call[c].task].status # "completed"
              /\ file[call[c].task].session # None => next.session # None
    PROVE  CheckpointInv'
<1> DEFINE i == call[c]
           j == [call[c] EXCEPT !.next = next, !.then = then, !.parsed = parsed]
<1>1. i \in Invocations /\ OwnTask(i, c) /\ i.run \in Nat
  BY KnownOf
<1>2. /\ j \in Invocations /\ j.next = next /\ j.then = then /\ j.background = i.background
      /\ j.run = i.run /\ j.held = i.held /\ j.task = i.task /\ j.state = i.state
  BY ZenonT(60), <1>1 DEF Invocations, Thens
<1>3. call' = [call EXCEPT ![c] = j] /\ pc' = [pc EXCEPT ![c] = "mark"] /\ UNCHANGED <<file, logged, faults>>
  BY DEF Mark, IInv, CallsInv
<1> HIDE DEF j
<1>4. OwnTask(j, c) /\ Settled(j, "mark") /\ "mark" \in Pcs \ {"idle"}
  BY <1>1, <1>2, KnownOf DEF OwnTask, Settled, Pcs, UnderWay
<1>5. ~Overlap \/ j.background => Sees(j, "mark", file[j.task], logged[j.task], faults)
  BY <1>2 DEF Sees, Alone
<1> QED
  BY <1>1, <1>2, <1>3, <1>4, <1>5, StepOfOne

\* What every function of the state layer keeps of the thread.
LEMMA MarksKeepThread ==
    ASSUME NEW state \in States \cup {NoFile}, NEW session \in Sessions \cup {None}
    PROVE  /\ \A m \in {CompletedState(state, session), PausedState(state, session), FailedState(state, session),
                        HeldState(state, session, "blocked"), HeldState(state, session, "needs_review")} :
                 state.session # None => m.session # None
           /\ PausedState(state, session).status = "paused" /\ FailedState(state, session).status = "failed"
           /\ CompletedState(state, session).status = "completed"
           /\ HeldState(state, session, "blocked").status = "blocked"
           /\ HeldState(state, session, "needs_review").review
<1>1. state = [f \in {"status", "session", "count", "retryAt", "review"} |-> state[f]]
  BY DEF States, NoFile
<1> QED
  BY <1>1 DEF CompletedState, PausedState, FailedState, HeldState, OrElse

LEMMA ProviderKnows == ASSUME IInv, CheckpointInv, NEW c \in Calls, ProviderEnds(c) PROVE CheckpointInv'
<1> DEFINE state == call[c].state
<1>1. /\ Active(c) /\ state \in States \cup {NoFile} /\ state.status \in {"running", "resuming"}
      /\ Alone(c) => file[call[c].task] = state
  BY KnownOf, Current DEF ProviderEnds, Active, Ended, Settled, Sees, IInv, UnderWay
<1>2. state.status # "completed" /\ pc[c] \in UnderWay
  BY <1>1 DEF ProviderEnds, UnderWay
<1>3. PICK parsed \in Sessions \cup {None} :
         \/ \E symptoms \in SUBSET Symptoms : NoPayload(c, parsed, symptoms)
         \/ \E verdict \in {"empty"} \cup Verdicts : Payload(c, parsed, verdict)
  BY DEF ProviderEnds
<1> DEFINE session == Thread(c, parsed)
<1>4. session \in Sessions \cup {None}
  BY ThreadType DEF IInv
<1> HIDE DEF session
<1>5. /\ CompletedState(state, session) \in States /\ PausedState(state, session) \in States
      /\ FailedState(state, session) \in States /\ HeldState(state, session, "blocked") \in States
      /\ HeldState(state, session, "needs_review") \in States
  BY <1>1, <1>4, Marks
<1>6. \/ \E then \in {"tool", "stale", "throw"} : Mark(c, FailedState(state, session), then, parsed)
      \/ Mark(c, PausedState(state, session), "throw", parsed)
      \/ Mark(c, HeldState(state, session, "needs_review"), "resume", parsed)
      \/ Mark(c, HeldState(state, session, "blocked"), "return", parsed)
      \/ Mark(c, HeldState(state, session, "needs_review"), "return", parsed) /\ call[c].held
      \/ Mark(c, CompletedState(state, session), "return", parsed)
  <2>1. CASE \E symptoms \in SUBSET Symptoms : NoPayload(c, parsed, symptoms)
    BY <2>1 DEF NoPayload, session
  <2>2. CASE \E verdict \in {"empty"} \cup Verdicts : Payload(c, parsed, verdict)
    BY <2>2 DEF Payload, session
  <2> QED
    BY <1>3, <2>1, <2>2
<1> HIDE DEF state
<1>7. {"tool", "stale", "throw", "resume", "return"} \subseteq Thens
  BY DEF Thens
<1> QED
  BY <1>1, <1>2, <1>4, <1>5, <1>6, <1>7, MarksKeepThread, MarkKnows

LEMMA WriteMarkKnows == ASSUME IInv, CheckpointInv, NEW c \in Calls, WriteMark(c) PROVE CheckpointInv'
<1>1. Active(c) /\ "marked" \in Pcs \ {"idle", "start"} /\ "marked" \notin Ended
  BY DEF WriteMark, Active, Ended, Pcs
<1>2. /\ file'[call[c].task] = call[c].next /\ \A t \in Tasks \ {call[c].task} : file'[t] = file[t]
      /\ UNCHANGED <<logged, faults>> /\ Goto(c, "marked") /\ pc[c] = "mark"
  BY KnownOf DEF WriteMark
<1>3. Settled(call[c], "marked")
  BY <1>2, KnownOf DEF Settled, UnderWay
<1>4. \A l, n : Sees(call[c], "marked", call[c].next, l, n)
  BY DEF Sees
<1> QED
  BY <1>1, <1>2, <1>3, <1>4, GoesOn

LEMMA RecurKnows ==
    ASSUME IInv, CheckpointInv, NEW c \in Calls, Active(c), call[c].then \in {"tool", "stale", "resume"}, Recur(c),
           UNCHANGED <<file, faults>>, \A t \in Tasks \ {call[c].task} : logged'[t] = logged[t]
    PROVE  CheckpointInv'
<1> DEFINE i == call[c]
           j == call'[c]
<1>1. CallsInv'
  BY RecurInv DEF IInv
<1>2. j \in Invocations /\ i \in Invocations /\ i.run \in Nat /\ i.background \in BOOLEAN
  BY <1>1, KnownOf DEF CallsInv, Invocations
<1>3. call' = [call EXCEPT ![c] = j] /\ pc' = [pc EXCEPT ![c] = "start"] /\ "start" \in Pcs \ {"idle"}
  BY DEF IInv, CallsInv, Recur, Pcs
<1>4. /\ j.background = i.background /\ j.run = i.run + 1
      /\ j.task = IF i.background THEN <<c, i.run + 1>> ELSE <<Conversation, 0>>
  <2>1. CASE i.then = "resume"
    BY <2>1 DEF Recur, Invocation, IInv, CallsInv
  <2>2. CASE i.then # "resume"
    BY <2>2 DEF Recur, Invocation, IInv, CallsInv
  <2> QED
    BY <2>1, <2>2
<1> HIDE DEF j
<1>5. OwnTask(j, c) /\ Settled(j, "start") /\ \A f, l, n : Sees(j, "start", f, l, n)
  BY <1>4 DEF OwnTask, Settled, Sees, UnderWay
<1>6. j.run > i.run
  BY <1>2, <1>4
<1> QED
  BY <1>2, <1>3, <1>4, <1>5, <1>6, StepOfOne

LEMMA LogKnows ==
    ASSUME IInv, CheckpointInv, NEW c \in Calls, LogStart(c) \/ LogMark(c) \/ LogRetry(c)
    PROVE  CheckpointInv'
<1>1. Active(c)
  BY DEF LogStart, LogMark, LogRetry, Active, Ended
<1>2. UNCHANGED <<file, faults>> /\ \A t \in Tasks \ {call[c].task} : logged'[t] = logged[t]
  BY KnownOf DEF LogStart, LogMark, LogRetry
<1>3. CASE LogStart(c)
  <2>1. /\ pc[c] = "started" /\ Goto(c, "running") /\ "running" \in Pcs \ {"idle", "start"}
        /\ logged'[call[c].task] = call[c].state.status
    BY <1>3, KnownOf DEF LogStart, Pcs
  <2>2. Settled(call[c], "running")
    BY <2>1, KnownOf DEF Settled, UnderWay
  <2>3. Alone(c) => Sees(call[c], "running", file'[call[c].task], logged'[call[c].task], faults')
    BY <1>2, <2>1, KnownOf DEF Sees
  <2> QED
    BY <1>1, <1>2, <2>1, <2>2, <2>3, GoesOn
<1>4. CASE LogMark(c)
  <2>1. CASE call[c].then = "resume" /\ Recur(c)
    BY <1>1, <1>2, <2>1, RecurKnows
  <2>2. CASE \E p \in {"returned", "threw", "note"} : Goto(c, p)
    <3>1. PICK p \in {"returned", "threw", "note"} : Goto(c, p)
      BY <2>2
    <3>2. p \in Pcs \ {"idle", "start"}
      BY DEF Pcs, Ended
    <3>3. Settled(call[c], p) /\ \A f, l, n : Sees(call[c], p, f, l, n)
      BY <1>4, KnownOf DEF Settled, Sees, LogMark, UnderWay
    <3> QED
      BY <1>1, <1>2, <3>1, <3>2, <3>3, GoesOn
  <2>3. CASE call[c].then = "throw" /\ Goto(c, "catch")
    <3>1. logged'[call[c].task] = call[c].next.status /\ pc[c] = "marked" /\ "catch" \in Pcs \ {"idle", "start"}
      BY <1>4, KnownOf DEF LogMark, Pcs
    <3>2. Settled(call[c], "catch") /\ call[c].next.status \in {"failed", "paused"}
      BY <2>3, <3>1, KnownOf DEF Settled, UnderWay
    <3>3. Alone(c) => Sees(call[c], "catch", file'[call[c].task], logged'[call[c].task], faults')
      BY <1>2, <3>1, <3>2, KnownOf DEF Sees
    <3> QED
      BY <1>1, <1>2, <2>3, <3>1, <3>2, <3>3, GoesOn
  <2> QED
    BY <1>4, <2>1, <2>2, <2>3 DEF LogMark
<1>5. CASE LogRetry(c)
  <2>1. call[c].then \in {"tool", "stale", "resume"}
    BY <1>5 DEF LogRetry, IInv, CallsInv, Sound
  <2> QED
    BY <1>1, <1>2, <1>5, <2>1, RecurKnows DEF LogRetry
<1> QED
  BY <1>3, <1>4, <1>5

LEMMA CatchKnows == ASSUME IInv, CheckpointInv, NEW c \in Calls, Catch(c) PROVE CheckpointInv'
<1>1. Active(c) /\ pc[c] = "catch"
  BY DEF Catch, Active, Ended
<1>2. CASE Goto(c, "threw") /\ UNCHANGED <<file, logged, faults>>
  <2>1. "threw" \in Pcs \ {"idle", "start"} /\ "threw" \in Ended
    BY DEF Pcs, Ended
  <2> QED
    BY <1>1, <1>2, <2>1, GoesOn
<1>3. CASE /\ file[call[c].task].status \notin {"paused", "failed"}
           /\ Mark(c, FailedState(call[c].state, call[c].session), "rethrow", None)
  <2> DEFINE state == call[c].state
             session == call[c].session
             next == FailedState(state, session)
  <2>1. state \in States \cup {NoFile} /\ session \in Sessions \cup {None}
    BY Current DEF IInv
  <2>2. next \in States /\ next.status = "failed" /\ (state.session # None => next.session # None)
    BY <2>1, Marks, MarksKeepThread
  <2>3. "rethrow" \in Thens /\ None \in Sessions \cup {None}
    BY DEF Thens
  <2>4. Alone(c) /\ faults = 0 => file[call[c].task] = state
    BY <1>1, <1>3, KnownOf DEF Sees
  <2>5. state.status # "completed" /\ pc[c] \in UnderWay
    BY <1>1, KnownOf DEF Settled, UnderWay
  <2> HIDE DEF next
  <2> QED
    BY <1>1, <1>3, <2>2, <2>3, <2>4, <2>5, MarkKnows DEF next
<1> QED
  BY <1>2, <1>3 DEF Catch

LEMMA RejectKnows ==
    ASSUME IInv, CheckpointInv, NEW c \in Calls, ProviderRejects(c) \/ PipesHeld(c)
    PROVE  CheckpointInv'
<1> DEFINE p == IF ProviderRejects(c) THEN "catch" ELSE "hanging"
<1>1. /\ Active(c) /\ pc[c] \in {"running", "hanging"} /\ p \in Pcs \ {"idle", "start"}
      /\ Goto(c, p) /\ UNCHANGED <<file, logged, faults>>
  BY DEF ProviderRejects, PipesHeld, Active, Ended, Pcs
<1>2. Settled(call[c], p)
  BY <1>1, KnownOf DEF Settled, UnderWay
<1>3. Alone(c) => Sees(call[c], p, file[call[c].task], logged[call[c].task], faults)
  BY <1>1, KnownOf DEF Sees
<1> QED
  BY <1>1, <1>2, <1>3, GoesOn

LEMMA FailureKnows ==
    ASSUME IInv, CheckpointInv, NEW c \in Calls, WriteFails(c) \/ LogFails(c) \/ Crash(c)
    PROVE  CheckpointInv'
<1>1. /\ Active(c) /\ (faults' = 0 => faults = 0)
      /\ \A t \in Tasks \ {call[c].task} : file'[t] = file[t] /\ logged'[t] = logged[t]
  BY KnownOf DEF WriteFails, LogFails, Crash, Active, Ended
<1>2. CASE Crash(c)
  <2>1. "crashed" \in Pcs \ {"idle", "start"} /\ "crashed" \in Ended /\ Goto(c, "crashed")
    BY <1>2 DEF Pcs, Ended, Crash
  <2> QED
    BY <1>1, <2>1, GoesOn
<1>3. CASE WriteFails(c) \/ LogFails(c)
  <2>1. /\ Goto(c, AfterFault(c)) /\ faults' # 0 /\ pc[c] \in {"start", "started", "mark", "marked", "note"}
    BY <1>3, KnownOf DEF WriteFails, LogFails
  <2>2. CASE AfterFault(c) = "threw"
    <3>1. "threw" \in Pcs \ {"idle", "start"} /\ "threw" \in Ended
      BY DEF Pcs, Ended
    <3> QED
      BY <1>1, <2>1, <2>2, <3>1, GoesOn
  <2>3. CASE AfterFault(c) = "catch" /\ pc[c] # "start"
    <3>1. "catch" \in Pcs \ {"idle", "start"}
      BY DEF Pcs
    <3>2. Settled(call[c], "catch")
      BY <2>1, <2>3, KnownOf DEF Settled, UnderWay
    <3>3. \A f, l : Sees(call[c], "catch", f, l, faults')
      BY <2>1 DEF Sees
    <3> QED
      BY <1>1, <2>1, <2>3, <3>1, <3>2, <3>3, GoesOn
  <2> QED
    BY <2>2, <2>3 DEF AfterFault
<1> QED
  BY <1>2, <1>3

LEMMA AlwaysKnown == Spec => [](IInv /\ CheckpointInv)
<1>1. Init => IInv /\ CheckpointInv
  <2> SUFFICES ASSUME Init PROVE CheckpointInv
    BY InitInv
  <2>1. \A c \in Calls, n \in Runs : <<c, n>> \in Tasks
    BY DEF Tasks
  <2> QED
    BY <2>1 DEF Init, CheckpointInv, NoInvocation, OwnTask, Settled, Sees, UnderWay, Active, ToCome
<1>2. IInv /\ CheckpointInv /\ [Next]_vars => (IInv /\ CheckpointInv)'
  <2> SUFFICES ASSUME IInv, CheckpointInv, [Next]_vars PROVE CheckpointInv'
    BY NextInv
  <2>1. ASSUME NEW c \in Calls, Begin(c) \/ Step(c) \/ PipesHeld(c) \/ WriteFails(c) \/ LogFails(c) \/ Crash(c)
        PROVE  CheckpointInv'
    BY <2>1, BeginKnows, WriteStartKnows, LogKnows, ProviderKnows, RejectKnows, WriteMarkKnows, CatchKnows,
       FailureKnows DEF Step
  <2>2. CASE Done \/ UNCHANGED vars
    BY <2>2 DEF Done, vars, CheckpointInv, Alone, Active
  <2> QED
    BY <2>1, <2>2 DEF Next
<1> QED
  BY <1>1, <1>2, PTL DEF Spec

-----------------------------------------------------------------------------
\* Only an actor's own step takes it anywhere, or changes another checkpoint.

LEMMA ProviderMarks ==
    ASSUME NEW c \in Calls, ProviderEnds(c)
    PROVE  /\ pc' = [pc EXCEPT ![c] = "mark"] /\ UNCHANGED <<file, logged, faults>>
<1>1. PICK parsed \in Sessions \cup {None} :
         \/ \E symptoms \in SUBSET Symptoms : NoPayload(c, parsed, symptoms)
         \/ \E verdict \in {"empty"} \cup Verdicts : Payload(c, parsed, verdict)
  BY DEF ProviderEnds
<1>2. ASSUME NEW symptoms, NoPayload(c, parsed, symptoms) PROVE \E next, then : Mark(c, next, then, parsed)
  BY <1>2 DEF NoPayload
<1>3. ASSUME NEW verdict, Payload(c, parsed, verdict) PROVE \E next, then : Mark(c, next, then, parsed)
  BY <1>3 DEF Payload
<1>4. PICK next, then : Mark(c, next, then, parsed)
  BY <1>1, <1>2, <1>3
<1> QED
  BY <1>4 DEF Mark

LEMMA EndsHonestly ==
    ASSUME IInv, CheckpointInv, NEW c \in Calls,
           WriteStart(c) \/ LogStart(c) \/ ProviderEnds(c) \/ ProviderRejects(c) \/ PipesHeld(c) \/ WriteMark(c)
             \/ LogMark(c) \/ LogRetry(c) \/ Catch(c) \/ WriteFails(c) \/ LogFails(c) \/ Crash(c) \/ Begin(c)
    PROVE  SecondGapIsHeld(c) /\ FailureIsRecorded(c)
<1> DEFINE i == call[c]
           t == call[c].task
<1>0. /\ pc \in [Calls -> Pcs] /\ t \in Tasks /\ file \in [Tasks -> States \cup {NoFile}] /\ faults \in Nat
      /\ DOMAIN logged = Tasks /\ Settled(i, pc[c]) /\ (Alone(c) => Sees(i, pc[c], file[t], logged[t], faults))
  BY KnownOf DEF IInv, CallsInv
<1>1. SecondGapIsHeld(c)
  <2>1. CASE pc'[c] # "returned"
    BY <2>1 DEF SecondGapIsHeld
  <2>2. CASE pc'[c] = "returned"
    <3>1. pc[c] = "marked" /\ i.then = "return"
      <4>1. Begin(c) \/ WriteStart(c) \/ LogStart(c) \/ ProviderRejects(c) \/ PipesHeld(c)
                \/ WriteMark(c) \/ LogRetry(c)
              => pc'[c] # "returned"
        BY <1>0 DEF Begin, WriteStart, LogStart, ProviderRejects, PipesHeld, WriteMark, LogRetry, Goto, Recur
      <4>2. ProviderEnds(c) \/ Catch(c) => pc'[c] # "returned"
        BY <1>0, ProviderMarks DEF Mark, Catch, Goto
      <4>3. WriteFails(c) \/ LogFails(c) \/ Crash(c) => pc'[c] # "returned"
        BY <1>0 DEF WriteFails, LogFails, Crash, AfterFault, Goto
      <4>4. LogMark(c) => pc[c] = "marked" /\ i.then = "return"
        BY <1>0, <2>2 DEF LogMark, Goto, Recur
      <4> QED
        BY <2>2, <4>1, <4>2, <4>3, <4>4
    <3> QED
      BY <1>0, <3>1 DEF Settled, SecondGapIsHeld
  <2> QED
    BY <2>1, <2>2
<1>2. FailureIsRecorded(c)
  <2> SUFFICES ASSUME Alone(c), pc[c] # "threw", pc'[c] = "threw"
               PROVE  /\ faults' = 0 => file[t].status \in {"paused", "failed"} /\ logged'[t] = file[t].status
                      /\ faults' <= 1 /\ pc[c] # "start" => file'[t].status # "completed"
    BY DEF FailureIsRecorded
  <2>1. \/ LogMark(c) /\ i.then = "rethrow"
        \/ Catch(c) /\ file[t].status \in {"paused", "failed"} /\ UNCHANGED <<file, logged, faults>>
        \/ WriteFails(c) /\ (pc[c] = "start" \/ (pc[c] = "mark" /\ i.then = "rethrow"))
        \/ LogFails(c) /\ (pc[c] = "started" \/ (pc[c] = "marked" /\ i.then = "rethrow"))
    <3>1. Begin(c) \/ WriteStart(c) \/ ProviderEnds(c) \/ WriteMark(c) => pc'[c] # "threw"
      BY <1>0, ProviderMarks DEF Begin, WriteStart, WriteMark, Goto
    <3>2. LogStart(c) \/ ProviderRejects(c) \/ PipesHeld(c) \/ LogRetry(c) \/ Crash(c) => pc'[c] # "threw"
      BY <1>0 DEF LogStart, ProviderRejects, PipesHeld, LogRetry, Crash, Goto, Recur
    <3>3. LogMark(c) => i.then = "rethrow"
      BY <1>0 DEF LogMark, Goto, Recur
    <3>4. Catch(c) => file[t].status \in {"paused", "failed"} /\ UNCHANGED <<file, logged, faults>>
      BY <1>0 DEF Catch, Mark
    <3>5. WriteFails(c) => pc[c] = "start" \/ (pc[c] = "mark" /\ i.then = "rethrow")
      BY <1>0 DEF WriteFails, Goto, AfterFault
    <3>6. Settled(i, pc[c]) /\ LogFails(c) => pc[c] = "started" \/ (pc[c] = "marked" /\ i.then = "rethrow")
      <4>1. pc[c] = "note" => i.then # "rethrow"
        BY DEF IInv, CallsInv, Sound
      <4> QED
        BY <1>0, <4>1 DEF LogFails, Goto, AfterFault
    <3> QED
      BY <1>0, <3>1, <3>2, <3>3, <3>4, <3>5, <3>6
  <2>2. CASE LogMark(c) /\ i.then = "rethrow"
    <3>1. /\ pc[c] = "marked" /\ file[t] = i.next /\ i.next.status = "failed"
          /\ logged'[t] = i.next.status /\ file' = file
      BY <1>0, <2>2 DEF LogMark, Settled, Sees
    <3> QED
      BY <3>1
  <2>3. CASE Catch(c) /\ file[t].status \in {"paused", "failed"} /\ UNCHANGED <<file, logged, faults>>
    <3>1. pc[c] = "catch" /\ (faults = 0 => logged[t] = file[t].status)
      BY <1>0, <2>3 DEF Catch, Sees
    <3> QED
      BY <2>3, <3>1
  <2>4. CASE WriteFails(c) /\ (pc[c] = "start" \/ (pc[c] = "mark" /\ i.then = "rethrow"))
    <3>1. faults' = faults + 1 /\ (pc[c] = "start" \/ file' = file \/ file'[t] = i.next)
      BY <1>0, <2>4 DEF WriteFails
    <3>2. pc[c] # "start" => i.next.status = "failed" /\ (faults = 0 => file[t].status # "completed")
      BY <1>0, <2>4 DEF Settled, Sees
    <3> QED
      BY <1>0, <3>1, <3>2
  <2>5. CASE LogFails(c) /\ (pc[c] = "started" \/ (pc[c] = "marked" /\ i.then = "rethrow"))
    <3>1. faults' = faults + 1 /\ file' = file
      BY <2>5 DEF LogFails
    <3>2. file[t].status \in {"running", "resuming", "failed"}
      BY <1>0, <2>5 DEF Settled, Sees, UnderWay
    <3> QED
      BY <1>0, <3>1, <3>2
  <2> QED
    BY <2>1, <2>2, <2>3, <2>4, <2>5
<1> QED
  BY <1>1, <1>2

LEMMA FirstStateKeepsThread ==
    ASSUME IInv, CheckpointInv, NEW c \in Calls, pc[c] = "start", call[c].byId, file[call[c].task].session # None
    PROVE  FirstState(c).session # None
<1> DEFINE i == call[c]
           f == file[i.task]
<1>1. f \in States \cup {NoFile} /\ i.session \in Sessions \cup {None} /\ OwnTask(i, c) /\ i \in Invocations
  BY KnownOf, Current DEF IInv
<1>2. f # NoFile
  BY DEF NoFile
<1>3. ~i.background
  <2> SUFFICES ASSUME i.background PROVE FALSE
    BY <1>1
  <2>1. i.run \in Runs /\ i.task = <<c, i.run>> /\ ToCome(i, pc[c], i.run)
    BY <1>1 DEF OwnTask, Invocations, ToCome, Ended
  <2> QED
    BY <1>2, <2>1 DEF CheckpointInv
<1>4. FirstState(c) = StartedState(f, i.session)
  BY <1>2, <1>3 DEF FirstState
<1>5. f = [x \in {"status", "session", "count", "retryAt", "review"} |-> f[x]]
  BY <1>1 DEF States, NoFile
<1> QED
  BY <1>4, <1>5 DEF StartedState, OrElse

\* Nothing loses a thread but what the property excepts.
LEMMA StepKeepsThread ==
    ASSUME IInv, CheckpointInv, NEW c \in Calls, NEW t \in Tasks,
           Begin(c) \/ Step(c) \/ PipesHeld(c) \/ WriteFails(c) \/ LogFails(c) \/ Crash(c)
    PROVE  ThreadKept(t)
<1> SUFFICES ASSUME ~Overlap, faults = 0, file[t].session # None, file'[t].session = None,
                    ~(call[c].task = t /\ pc[c] = "start" /\ ~call[c].byId)
             PROVE  FALSE
  BY DEF ThreadKept
<1>1. file \in [Tasks -> States \cup {NoFile}] /\ Alone(c) /\ call[c].task \in Tasks /\ call[c] \in Invocations
  BY KnownOf DEF Alone
<1>2. CASE UNCHANGED file
  BY <1>2
<1>3. CASE pc[c] = "start" /\ file' = [file EXCEPT ![call[c].task] = FirstState(c)]
  <2>1. t = call[c].task /\ FirstState(c).session = None
    BY <1>1, <1>3
  <2> QED
    BY <1>1, <1>3, <2>1, FirstStateKeepsThread
<1>4. CASE pc[c] = "mark" /\ file' = [file EXCEPT ![call[c].task] = call[c].next]
  <2>1. t = call[c].task /\ call[c].next.session = None
    BY <1>1, <1>4
  <2>2. Sees(call[c], "mark", file[t], logged[t], faults)
    BY <1>1, <1>4, <2>1, KnownOf
  <2> QED
    BY <2>1, <2>2 DEF Sees
<1>5. Begin(c) \/ LogStart(c) \/ ProviderEnds(c) \/ ProviderRejects(c) \/ PipesHeld(c) \/ LogMark(c)
        \/ LogRetry(c) \/ Catch(c) \/ LogFails(c) \/ Crash(c) => UNCHANGED file
  <2>1. Begin(c) \/ LogStart(c) \/ ProviderRejects(c) \/ PipesHeld(c) \/ LogMark(c) \/ LogRetry(c) => UNCHANGED file
    BY DEF Begin, LogStart, ProviderRejects, PipesHeld, LogMark, LogRetry
  <2>2. ProviderEnds(c) \/ Catch(c) \/ LogFails(c) \/ Crash(c) => UNCHANGED file
    BY ProviderMarks DEF Mark, Catch, LogFails, Crash
  <2> QED
    BY <2>1, <2>2
<1>6. WriteStart(c) => pc[c] = "start" /\ file' = [file EXCEPT ![call[c].task] = FirstState(c)]
  BY DEF WriteStart
<1>7. WriteMark(c) => pc[c] = "mark" /\ file' = [file EXCEPT ![call[c].task] = call[c].next]
  BY DEF WriteMark
<1>8. WriteFails(c) => \/ UNCHANGED file
                       \/ pc[c] = "start" /\ file' = [file EXCEPT ![call[c].task] = FirstState(c)]
                       \/ pc[c] = "mark" /\ file' = [file EXCEPT ![call[c].task] = call[c].next]
  BY DEF WriteFails
<1> QED
  BY <1>2, <1>3, <1>4, <1>5, <1>6, <1>7, <1>8 DEF Step

\* What a call leaves for the next one is true, for any calls, thread ids and
\* failing operations: a second gap asks for a review, a failure of a call whose
\* checkpoint is its own is recorded in the checkpoint and in the log, and of
\* calls that follow one another none loses the thread of a checkpoint.
THEOREM CheckpointIsAlwaysTrue == Spec => CheckpointIsTrue
<1>1. ASSUME IInv, CheckpointInv, [Next]_vars
      PROVE  [/\ \A c \in Calls : SecondGapIsHeld(c) /\ FailureIsRecorded(c)
              /\ \A t \in Tasks : ThreadKept(t)]_vars
  <2>1. ASSUME NEW d \in Calls, Begin(d) \/ Step(d) \/ PipesHeld(d) \/ WriteFails(d) \/ LogFails(d) \/ Crash(d)
        PROVE  /\ \A c \in Calls : SecondGapIsHeld(c) /\ FailureIsRecorded(c)
               /\ \A t \in Tasks : ThreadKept(t)
    <3>1. SecondGapIsHeld(d) /\ FailureIsRecorded(d)
      BY <1>1, <2>1, EndsHonestly DEF Step
    <3>2. \A c \in Calls \ {d} : pc'[c] = pc[c]
      <4>1. pc \in [Calls -> Pcs]
        BY <1>1 DEF IInv, CallsInv
      <4>2. \E p : pc' = [pc EXCEPT ![d] = p]
        <5>1. Begin(d) \/ WriteStart(d) \/ LogStart(d) \/ ProviderRejects(d) \/ PipesHeld(d)
                  \/ WriteMark(d) \/ LogRetry(d)
                => \E p : pc' = [pc EXCEPT ![d] = p]
          BY DEF Begin, WriteStart, LogStart, ProviderRejects, PipesHeld, WriteMark, LogRetry, Goto, Recur
        <5>2. ProviderEnds(d) \/ LogMark(d) => \E p : pc' = [pc EXCEPT ![d] = p]
          BY ProviderMarks DEF LogMark, Goto, Recur
        <5>3. Catch(d) \/ WriteFails(d) \/ LogFails(d) \/ Crash(d) => \E p : pc' = [pc EXCEPT ![d] = p]
          BY DEF Catch, WriteFails, LogFails, Crash, Goto, Mark
        <5> QED
          BY <2>1, <5>1, <5>2, <5>3 DEF Step
      <4> QED
        BY <4>1, <4>2
    <3>3. \A c \in Calls \ {d} : SecondGapIsHeld(c) /\ FailureIsRecorded(c)
      BY <3>2 DEF SecondGapIsHeld, FailureIsRecorded
    <3> QED
      BY <1>1, <2>1, <3>1, <3>3, StepKeepsThread
  <2>2. CASE Done \/ UNCHANGED vars
    BY <2>2 DEF Done
  <2> QED
    BY <1>1, <2>1, <2>2 DEF Next
<1> QED
  BY <1>1, AlwaysKnown, PTL DEF Spec, CheckpointIsTrue

----------------------------------------------------------------------------
(***************************************************************************)
(* The remembered project for any askers, owners and directories: what a   *)
(* prompt inherits was named last and is still registered.                 *)
(***************************************************************************)

\* What a call may have under way: one write, or a correction and a naming.
Contents == Records \cup {Nothing}
OneWrite == {[writes |-> <<x>>, inherits |-> i] : x \in Contents, i \in {"yes", "no"}}
TwoWrites == {[writes |-> <<Nothing, x>>, inherits |-> "no"] : x \in Records}
Askings == {Idling} \cup OneWrite \cup TwoWrites

RouteTypes ==
    /\ remembered \in Contents
    /\ projects \in [Owners -> {"gone", "bare", "repository"}]
    /\ asking \in [Askers -> Askings]
    /\ standing \in SUBSET (Owners \X Dirs)
    /\ late \subseteq Askers

\* A desktop's record that is young and sure is of the owner that stands.
Stands(x, held) == x # Nothing /\ x.version = 2 /\ x.aged = "no" /\ x.sure = "yes" => <<x.owner, x.dir>> \in held

\* So it is for what a call is about to hand on, unless a naming or a
\* correction came between its read and its write.
HandsOn(a) ==
    asking[a].inherits = "yes" =>
      /\ Head(asking[a].writes) # Nothing
      /\ a \notin late => Stands(Head(asking[a].writes), standing)

RouteInv ==
    /\ RouteTypes /\ Stands(remembered, standing)
    /\ \A a \in Askers : HandsOn(a)
    /\ \A a \in late : asking[a] # Idling

LEMMA RouteStarts == SessionRouteInit => RouteInv
BY DEF SessionRouteInit, RouteInv, RouteTypes, Stands, HandsOn, Contents, Askings, Idling, Nothing

\* What is under way is idle, one write, or two.
LEMMA AskingForms ==
  ASSUME NEW q \in Askings
  PROVE  \/ q = Idling
         \/ \E x \in Contents, i \in {"yes", "no"} :
              /\ q = [writes |-> <<x>>, inherits |-> i]
              /\ q # Idling /\ Head(q.writes) = x /\ Tail(q.writes) = <<>> /\ q.inherits = i
         \/ \E x \in Records :
              /\ q = [writes |-> <<Nothing, x>>, inherits |-> "no"]
              /\ q # Idling /\ Head(q.writes) = Nothing /\ Tail(q.writes) = <<x>> /\ q.inherits = "no"
<1>1. ASSUME q \in OneWrite
      PROVE  \E x \in Contents, i \in {"yes", "no"} :
               /\ q = [writes |-> <<x>>, inherits |-> i]
               /\ q # Idling /\ Head(q.writes) = x /\ Tail(q.writes) = <<>> /\ q.inherits = i
  <2>1. PICK x \in Contents, i \in {"yes", "no"} : q = [writes |-> <<x>>, inherits |-> i] BY <1>1 DEF OneWrite
  <2>2. q.writes = <<x>> /\ q.inherits = i BY <2>1
  <2>3. Head(<<x>>) = x /\ Tail(<<x>>) = <<>> /\ <<x>> # <<>> OBVIOUS
  <2>4. q # Idling BY <2>2, <2>3 DEF Idling
  <2> QED BY <2>1, <2>2, <2>3, <2>4
<1>2. ASSUME q \in TwoWrites
      PROVE  \E x \in Records :
               /\ q = [writes |-> <<Nothing, x>>, inherits |-> "no"]
               /\ q # Idling /\ Head(q.writes) = Nothing /\ Tail(q.writes) = <<x>> /\ q.inherits = "no"
  <2>1. PICK x \in Records : q = [writes |-> <<Nothing, x>>, inherits |-> "no"] BY <1>2 DEF TwoWrites
  <2>2. q.writes = <<Nothing, x>> /\ q.inherits = "no" BY <2>1
  <2>3. Head(<<Nothing, x>>) = Nothing /\ Tail(<<Nothing, x>>) = <<x>> /\ <<Nothing, x>> # <<>> OBVIOUS
  <2>4. q # Idling BY <2>2, <2>3 DEF Idling
  <2> QED BY <2>1, <2>2, <2>3, <2>4
<1> QED BY <1>1, <1>2 DEF Askings

LEMMA TypesOfRoutes == RouteTypes => SessionRouteTypeOK
<1> SUFFICES ASSUME RouteTypes PROVE SessionRouteTypeOK OBVIOUS
<1>1. ASSUME NEW a \in Askers
      PROVE  /\ \A i \in 1..Len(asking[a].writes) : asking[a].writes[i] \in Records \cup {Nothing}
             /\ Len(asking[a].writes) <= 2 /\ asking[a].inherits \in {"yes", "no"}
  <2>1. asking[a] \in Askings BY DEF RouteTypes
  <2>2. CASE asking[a] = Idling BY <2>2 DEF Idling
  <2>3. ASSUME NEW x \in Contents, NEW i \in {"yes", "no"}, asking[a] = [writes |-> <<x>>, inherits |-> i]
        PROVE  <1>1!2
    BY <2>3 DEF Contents
  <2>4. ASSUME NEW x \in Records, asking[a] = [writes |-> <<Nothing, x>>, inherits |-> "no"]
        PROVE  <1>1!2
    BY <2>4
  <2> QED BY <2>1, <2>2, <2>3, <2>4, AskingForms
<1> QED BY <1>1 DEF RouteTypes, SessionRouteTypeOK, Contents

\* What a call decides: nothing, writes of its own, or to hand on what it read.
HandingOn(a, dir, q) ==
    /\ remembered # Nothing /\ Fresh(remembered, a, dir) /\ ~StaleTarget(remembered, a, dir)
    /\ q = [writes |-> <<[remembered EXCEPT !.version = Version(a)]>>, inherits |-> "yes"]

LEMMA AskDecides ==
  ASSUME RouteTypes, NEW a \in Askers, NEW dir \in Dirs, NEW saying \in Saying, Ask(a, dir, saying)
  PROVE  /\ asking[a] = Idling /\ UNCHANGED <<remembered, projects, standing, late>>
         /\ \/ asking' = asking
            \/ \E q \in Askings :
                 /\ asking' = [asking EXCEPT ![a] = q] /\ q # Idling
                 /\ q.inherits = "no" \/ HandingOn(a, dir, q)
<1>0. asking[a] = Idling /\ UNCHANGED <<remembered, projects, standing, late>> BY DEF Ask
<1> DEFINE Decides ==
      \/ asking' = asking
      \/ \E q \in Askings :
           /\ asking' = [asking EXCEPT ![a] = q] /\ q # Idling
           /\ q.inherits = "no" \/ HandingOn(a, dir, q)
<1> SUFFICES Decides BY <1>0
<1>1. ASSUME NEW x \in Contents, asking' = [asking EXCEPT ![a].writes = <<x>>]
      PROVE  Decides
  <2> DEFINE q == [writes |-> <<x>>, inherits |-> "no"]
  <2>1. asking' = [asking EXCEPT ![a] = q]
    <3>1. [asking[a] EXCEPT !.writes = <<x>>] = q BY <1>0 DEF Idling
    <3> QED BY <1>1, <3>1
  <2>2. q \in Askings /\ q # Idling /\ q.inherits = "no"
    <3>1. <<x>> # <<>> OBVIOUS
    <3> QED BY <3>1 DEF Askings, OneWrite, Idling
  <2> QED BY <2>1, <2>2
<1>2. ASSUME NEW x \in Records, asking' = [asking EXCEPT ![a].writes = <<Nothing, x>>]
      PROVE  Decides
  <2> DEFINE q == [writes |-> <<Nothing, x>>, inherits |-> "no"]
  <2>1. asking' = [asking EXCEPT ![a] = q]
    <3>1. [asking[a] EXCEPT !.writes = <<Nothing, x>>] = q BY <1>0 DEF Idling
    <3> QED BY <1>2, <3>1
  <2>2. q \in Askings /\ q # Idling /\ q.inherits = "no"
    <3>1. <<Nothing, x>> # <<>> OBVIOUS
    <3> QED BY <3>1 DEF Askings, TwoWrites, Idling
  <2> QED BY <2>1, <2>2
<1> HIDE DEF Decides
<1>3. PICK prior \in {remembered} \cup (IF \E b \in Askers : asking[b] # Idling THEN {Nothing} ELSE {}) :
        CASE saying = "rejects" ->
                asking' = [asking EXCEPT ![a].writes = <<Nothing>>]
           [] saying \in {"names", "corrects and names"} ->
                \E p \in {q \in Owners : projects[q] # "gone"} : \E target \in Targets(p, a) :
                  asking' = [asking EXCEPT ![a].writes =
                               (IF saying = "names" THEN <<>> ELSE <<Nothing>>)
                                 \o <<Named(p, a, dir, target)>>]
           [] saying \in {"refers", "other"} /\ StaleTarget(prior, a, dir) ->
                asking' = [asking EXCEPT ![a].writes = <<Nothing>>]
           [] saying = "refers" /\ ~StaleTarget(prior, a, dir)
              /\ Fresh(prior, a, dir) /\ projects[prior.owner] # "gone" ->
                asking' = [asking EXCEPT ![a] = [writes |-> <<[prior EXCEPT !.version = Version(a)]>>,
                                                 inherits |-> "yes"]]
           [] OTHER -> UNCHANGED asking
  BY DEF Ask
<1>4. CASE saying = "rejects"
  BY <1>1, <1>3, <1>4 DEF Contents
<1>5. CASE saying \in {"names", "corrects and names"}
  <2>0. PICK p \in Owners : \E target \in Targets(p, a) :
          asking' = [asking EXCEPT ![a].writes =
                       (IF saying = "names" THEN <<>> ELSE <<Nothing>>) \o <<Named(p, a, dir, target)>>]
    BY <1>3, <1>5
  <2>1. PICK target \in Targets(p, a) :
          asking' = [asking EXCEPT ![a].writes =
                       (IF saying = "names" THEN <<>> ELSE <<Nothing>>) \o <<Named(p, a, dir, target)>>]
    BY <2>0
  <2>2. Named(p, a, dir, target) \in Records BY DEF Named, Records, Version, Targets
  <2>3. ASSUME NEW x \in Contents PROVE <<>> \o <<x>> = <<x>> /\ <<Nothing>> \o <<x>> = <<Nothing, x>>
    <3>1. Nothing \in Contents BY DEF Contents
    <3>2. <<x>> \in Seq(Contents) /\ <<Nothing>> \in Seq(Contents) BY <3>1
    <3>3. Len(<<Nothing>> \o <<x>>) = 2 /\ <<Nothing>> \o <<x>> \in Seq(Contents) BY <3>2, ConcatProperties
    <3>4. (<<Nothing>> \o <<x>>)[1] = Nothing /\ (<<Nothing>> \o <<x>>)[2] = x BY <3>2, ConcatProperties
    <3>5. /\ <<Nothing, x>> \in Seq(Contents) /\ Len(<<Nothing, x>>) = 2
          /\ <<Nothing, x>>[1] = Nothing /\ <<Nothing, x>>[2] = x
      BY <3>1
    <3>6. \A i \in 1..2 : (<<Nothing>> \o <<x>>)[i] = <<Nothing, x>>[i] BY <3>4, <3>5
    <3>7. <<Nothing>> \o <<x>> = <<Nothing, x>> BY <3>3, <3>5, <3>6, SeqEqual
    <3> QED BY <3>2, <3>7, ConcatEmptySeq
  <2>4. \/ asking' = [asking EXCEPT ![a].writes = <<Named(p, a, dir, target)>>]
        \/ asking' = [asking EXCEPT ![a].writes = <<Nothing, Named(p, a, dir, target)>>]
    BY <2>1, <2>2, <2>3 DEF Contents
  <2> QED BY <1>1, <1>2, <2>2, <2>4 DEF Contents
<1>6. CASE saying \in {"refers", "other"} /\ StaleTarget(prior, a, dir)
  BY <1>1, <1>3, <1>6 DEF Contents
<1>7. CASE saying = "refers" /\ ~StaleTarget(prior, a, dir) /\ Fresh(prior, a, dir) /\ projects[prior.owner] # "gone"
  <2> DEFINE x == [prior EXCEPT !.version = Version(a)]
             q == [writes |-> <<x>>, inherits |-> "yes"]
  <2>1. asking' = [asking EXCEPT ![a] = q] BY <1>3, <1>7
  <2>2. prior = remembered /\ prior # Nothing /\ prior \in Records
    BY <1>7 DEF Fresh, RouteTypes, Contents
  <2>3. x \in Records BY <2>2 DEF Records, Version
  <2>4. HandingOn(a, dir, q) BY <1>7, <2>2 DEF HandingOn
  <2> HIDE DEF x
  <2>5. q \in Askings /\ q # Idling
    <3>1. <<x>> # <<>> OBVIOUS
    <3> QED BY <2>3, <3>1 DEF Askings, OneWrite, Contents, Idling
  <2> QED BY <2>1, <2>4, <2>5 DEF Decides
<1>8. CASE /\ saying \notin {"rejects", "names", "corrects and names"}
           /\ ~(saying \in {"refers", "other"} /\ StaleTarget(prior, a, dir))
           /\ ~(saying = "refers" /\ ~StaleTarget(prior, a, dir) /\ Fresh(prior, a, dir)
                /\ projects[prior.owner] # "gone")
  <2>1. asking' = asking BY <1>3, <1>8
  <2> QED BY <2>1 DEF Decides
<1> QED BY <1>4, <1>5, <1>6, <1>7, <1>8

LEMMA AskKeeps ==
  ASSUME RouteInv, NEW a \in Askers, NEW dir \in Dirs, NEW saying \in Saying, Ask(a, dir, saying)
  PROVE  RouteInv'
<1>1. RouteTypes /\ asking[a] = Idling /\ UNCHANGED <<remembered, projects, standing, late>>
  BY AskDecides DEF RouteInv
<1>2. CASE asking' = asking
  BY <1>1, <1>2 DEF RouteInv, RouteTypes, Stands, HandsOn
<1>3. ASSUME NEW q \in Askings, asking' = [asking EXCEPT ![a] = q], q # Idling,
             q.inherits = "no" \/ HandingOn(a, dir, q)
      PROVE  RouteInv'
  <2>1. /\ asking' \in [Askers -> Askings] /\ asking'[a] = q
        /\ \A b \in Askers \ {a} : asking'[b] = asking[b]
    BY <1>1, <1>3 DEF RouteTypes
  <2>2. HandsOn(a)'
    <3>1. CASE q.inherits = "no" BY <2>1, <3>1 DEF HandsOn
    <3>2. CASE HandingOn(a, dir, q)
      <4> DEFINE x == [remembered EXCEPT !.version = Version(a)]
      <4>1. q.writes = <<x>> /\ remembered \in Records /\ Fresh(remembered, a, dir)
        BY <1>1, <3>2 DEF HandingOn, RouteTypes, Contents
      <4>2. /\ x \in Records /\ x.owner = remembered.owner /\ x.dir = remembered.dir /\ x.aged = remembered.aged
            /\ x.sure = remembered.sure /\ x.version = Version(a)
        BY <4>1 DEF Records, Version
      <4>3. x # Nothing
        <5>1. Nothing.owner = "nobody" /\ DOMAIN Nothing = {"owner"} /\ "dir" \in DOMAIN x
          BY <4>2 DEF Nothing, Records
        <5> QED BY <5>1
      <4>4. Stands(x, standing)
        <5>1. CASE a \in Desktops
          <6>1. remembered.version = 2 /\ remembered # Nothing BY <4>1, <5>1 DEF Fresh
          <6>2. Stands(remembered, standing) BY DEF RouteInv
          <6> QED BY <4>2, <6>1, <6>2 DEF Stands
        <5>2. CASE a \notin Desktops BY <4>2, <5>2 DEF Stands, Version
        <5> QED BY <5>1, <5>2
      <4> HIDE DEF x
      <4>5. Head(q.writes) = x BY <4>1
      <4>6. Stands(x, standing') BY <1>1, <4>4 DEF Stands
      <4> QED BY <2>1, <4>3, <4>5, <4>6 DEF HandsOn
    <3> QED BY <1>3, <3>1, <3>2
  <2>3. \A b \in Askers \ {a} : HandsOn(b)' BY <1>1, <2>1 DEF RouteInv, HandsOn, Stands
  <2>4. RouteTypes' /\ Stands(remembered, standing)' BY <1>1, <2>1 DEF RouteTypes, RouteInv, Stands
  <2>5. \A b \in late' : asking'[b] # Idling
    BY <1>1, <1>3, <2>1 DEF RouteInv, RouteTypes
  <2> QED BY <2>2, <2>3, <2>4, <2>5 DEF RouteInv
<1> QED BY <1>1, <1>2, <1>3, AskDecides

LEMMA WriteKeeps ==
  ASSUME RouteInv, NEW a \in Askers, Write(a)
  PROVE  RouteInv'
<1> DEFINE next == Head(asking[a].writes)
           rest == Tail(asking[a].writes)
           i == asking[a].inherits
<1>0. RouteTypes /\ asking[a] \in Askings /\ asking[a] # Idling BY DEF Write, RouteInv, RouteTypes
<1>1. /\ remembered' = IF a \in late /\ i = "yes" THEN [next EXCEPT !.sure = "no"] ELSE next
      /\ asking' = [asking EXCEPT ![a] = IF rest = <<>> THEN Idling ELSE [@ EXCEPT !.writes = rest]]
      /\ standing' = CASE next = Nothing -> {}
                       [] next # Nothing /\ next.version = 2 /\ i = "no" -> {<<next.owner, next.dir>>}
                       [] OTHER -> standing
      /\ late' = IF i = "yes" THEN late \ {a} ELSE {b \in Askers \ {a} : asking[b] # Idling}
      /\ UNCHANGED projects
  BY DEF Write
<1>2. /\ next \in Contents /\ i \in {"yes", "no"}
      /\ \/ rest = <<>>
         \/ i = "no" /\ rest # <<>> /\ [asking[a] EXCEPT !.writes = rest] \in Askings
            /\ [asking[a] EXCEPT !.writes = rest].inherits = "no"
  <2>1. ASSUME NEW x \in Records, asking[a] = [writes |-> <<Nothing, x>>, inherits |-> "no"], rest = <<x>>
        PROVE  /\ rest # <<>> /\ [asking[a] EXCEPT !.writes = rest] \in Askings
               /\ [asking[a] EXCEPT !.writes = rest].inherits = "no"
    <3>1. [asking[a] EXCEPT !.writes = <<x>>] = [writes |-> <<x>>, inherits |-> "no"] BY <2>1
    <3>2. <<x>> # <<>> OBVIOUS
    <3> QED BY <2>1, <3>1, <3>2 DEF Askings, OneWrite, Contents
  <2> HIDE DEF rest
  <2>2. CASE \E x \in Contents, j \in {"yes", "no"} :
              /\ asking[a] = [writes |-> <<x>>, inherits |-> j]
              /\ asking[a] # Idling /\ next = x /\ rest = <<>> /\ i = j
    BY <2>2
  <2>3. CASE \E x \in Records :
              /\ asking[a] = [writes |-> <<Nothing, x>>, inherits |-> "no"]
              /\ asking[a] # Idling /\ next = Nothing /\ rest = <<x>> /\ i = "no"
    BY <2>1, <2>3 DEF Contents
  <2> QED BY <1>0, <2>2, <2>3, AskingForms DEF rest
<1>3. /\ asking' \in [Askers -> Askings] /\ asking'[a].inherits = "no"
      /\ \A b \in Askers \ {a} : asking'[b] = asking[b]
  <2>1. Idling \in Askings /\ Idling.inherits = "no" BY DEF Askings, Idling
  <2> HIDE DEF rest
  <2> QED BY <1>0, <1>1, <1>2, <2>1 DEF RouteTypes
<1>4. late' \subseteq Askers \ {a} /\ \A b \in late' : asking[b] # Idling
  BY <1>0, <1>1, <1>2 DEF RouteTypes, RouteInv
<1>5. CASE i = "yes"
  <2>1. next \in Records /\ next # Nothing /\ (a \notin late => Stands(next, standing))
    BY <1>2, <1>5 DEF RouteInv, HandsOn, Contents
  <2> HIDE DEF next, rest, i
  <2>2. standing' = standing BY <1>1, <1>5, <2>1
  <2>3. remembered' \in Records /\ Stands(remembered, standing)'
    <3>1. CASE a \in late
      <4>1. remembered' = [next EXCEPT !.sure = "no"] BY <1>1, <1>5, <3>1
      <4>2. remembered' \in Records /\ remembered'.sure = "no" BY <2>1, <4>1 DEF Records
      <4> QED BY <4>2 DEF Stands
    <3>2. CASE a \notin late
      BY <1>1, <2>1, <2>2, <3>2 DEF Stands
    <3> QED BY <3>1, <3>2
  <2>4. late' = late \ {a} BY <1>1, <1>5
  <2>5. \A b \in Askers : HandsOn(b)'
    <3>1. HandsOn(a)' BY <1>3 DEF HandsOn
    <3>2. \A b \in Askers \ {a} : HandsOn(b)' BY <1>3, <2>2, <2>4 DEF RouteInv, HandsOn, Stands
    <3> QED BY <3>1, <3>2
  <2> QED BY <1>0, <1>1, <1>3, <1>4, <2>2, <2>3, <2>5 DEF RouteInv, RouteTypes, Contents
<1>6. CASE i = "no"
  <2> HIDE DEF next, rest, i
  <2>1. remembered' = next BY <1>1, <1>6
  <2>2. next # Nothing => next \in Records BY <1>2 DEF Contents
  <2>3. standing' \in SUBSET (Owners \X Dirs) /\ Stands(next, standing')
    <3>1. CASE next = Nothing BY <1>1, <3>1 DEF Stands
    <3>2. CASE next # Nothing /\ next.version = 2
      <4>1. standing' = {<<next.owner, next.dir>>} BY <1>1, <1>6, <3>2
      <4> QED BY <2>1, <2>2, <3>2, <4>1 DEF Stands, Records
    <3>3. CASE next # Nothing /\ next.version # 2
      <4>1. standing' = standing BY <1>1, <3>3
      <4> QED BY <1>0, <2>1, <3>3, <4>1 DEF Stands, RouteTypes
    <3> QED BY <3>1, <3>2, <3>3
  <2>4. late' = {b \in Askers \ {a} : asking[b] # Idling} BY <1>1, <1>6
  <2>5. \A b \in Askers : HandsOn(b)'
    <3>1. HandsOn(a)' BY <1>3 DEF HandsOn
    <3>2. ASSUME NEW b \in Askers \ {a} PROVE HandsOn(b)'
      <4>1. asking'[b] = asking[b] /\ HandsOn(b) BY <1>3 DEF RouteInv
      <4>2. asking[b].inherits = "yes" => b \in late' BY <2>4 DEF Idling
      <4> QED BY <4>1, <4>2 DEF HandsOn
    <3> QED BY <3>1, <3>2
  <2>6. Stands(remembered, standing)' BY <2>1, <2>3 DEF Stands
  <2> QED BY <1>0, <1>1, <1>2, <1>3, <1>4, <2>1, <2>3, <2>5, <2>6 DEF RouteInv, RouteTypes
<1> QED BY <1>2, <1>5, <1>6

LEMMA OthersKeepRoutes ==
  ASSUME RouteInv, \/ \E a \in Askers : Perish(a)
                   \/ OwnerAges \/ (\E p \in Movable : EditRegistry(p)) \/ UNCHANGED routeVars
  PROVE  RouteInv'
<1>0. Idling \in Askings /\ Idling.inherits = "no" BY DEF Askings, Idling
<1>1. ASSUME NEW a \in Askers, Perish(a) PROVE RouteInv'
  BY <1>0, <1>1 DEF Perish, RouteInv, RouteTypes, Stands, HandsOn, Contents
<1>2. CASE OwnerAges
  <2>1. remembered' \in Records /\ remembered'.aged = "yes"
    BY <1>2 DEF OwnerAges, RouteInv, RouteTypes, Contents, Records
  <2> QED BY <1>0, <1>2, <2>1 DEF OwnerAges, RouteInv, RouteTypes, Stands, HandsOn, Contents
<1>3. ASSUME NEW p \in Movable, EditRegistry(p) PROVE RouteInv'
  BY <1>3 DEF EditRegistry, RouteInv, RouteTypes, Stands, HandsOn
<1>4. CASE UNCHANGED routeVars
  BY <1>4 DEF routeVars, RouteInv, RouteTypes, Stands, HandsOn
<1> QED BY <1>1, <1>2, <1>3, <1>4

\* What a desktop's prompt inherits stands, and its repository is registered.
LEMMA InheritedStands ==
  ASSUME RouteInv, [SessionRouteNext]_routeVars, NEW a \in Askers,
         asking[a] = Idling, asking'[a].inherits = "yes", Head(asking'[a].writes).version = 2
  PROVE  LET taken == Head(asking'[a].writes) IN
         /\ taken.sure = "yes" => <<taken.owner, taken.dir>> \in standing
         /\ taken.target = "repository" => projects[taken.owner] = "repository"
<1>0. Idling.inherits = "no" BY DEF Idling
<1>1. PICK dir \in Dirs, saying \in Saying : Ask(a, dir, saying)
  <2>1. asking'[a] # asking[a] BY <1>0
  <2>2. ASSUME NEW b \in Askers, Write(b) \/ Perish(b) PROVE asking'[a] = asking[a]
    BY <2>2 DEF Write, Perish, RouteInv, RouteTypes
  <2>3. ASSUME NEW b \in Askers, NEW dir \in Dirs, NEW saying \in Saying, Ask(b, dir, saying), b # a
        PROVE  asking'[a] = asking[a]
    BY <2>3, AskDecides DEF RouteInv, RouteTypes
  <2>4. ASSUME OwnerAges \/ (\E p \in Movable : EditRegistry(p)) \/ UNCHANGED routeVars
        PROVE  asking'[a] = asking[a]
    BY <2>4 DEF OwnerAges, EditRegistry, routeVars
  <2> QED BY <2>1, <2>2, <2>3, <2>4 DEF SessionRouteNext
<1>2. RouteTypes BY DEF RouteInv
<1>3. HandingOn(a, dir, asking'[a])
  <2>1. asking' # asking BY <1>0
  <2> QED BY <1>1, <1>2, <2>1, AskDecides DEF RouteTypes
<1> DEFINE x == [remembered EXCEPT !.version = Version(a)]
<1>4. remembered \in Records /\ remembered # Nothing /\ asking'[a].writes = <<x>>
  BY <1>2, <1>3 DEF HandingOn, RouteTypes, Contents
<1>5. /\ x.owner = remembered.owner /\ x.dir = remembered.dir /\ x.target = remembered.target
      /\ x.sure = remembered.sure /\ x.version = Version(a)
  BY <1>4 DEF Records, Version
<1>6. Head(asking'[a].writes) = x BY <1>4
<1> HIDE DEF x
<1>7. a \in Desktops BY <1>5, <1>6 DEF Version
<1>8. /\ remembered.version = 2 /\ remembered.aged = "no" /\ Fresh(remembered, a, dir)
      /\ ~StaleTarget(remembered, a, dir)
  BY <1>3, <1>7 DEF HandingOn, Fresh
<1>9. Stands(remembered, standing) BY DEF RouteInv
<1> QED BY <1>4, <1>5, <1>6, <1>7, <1>8, <1>9 DEF Stands, StaleTarget

\* What a desktop's prompt inherits is what a desktop named last and nobody
\* corrected since, and its repository is registered, for any callers,
\* projects and directories (planWithContext).
THEOREM InheritedAlwaysStands == SessionRouteSpec => InheritsWhatStands
<1>1. RouteInv /\ [SessionRouteNext]_routeVars => RouteInv'
  BY AskKeeps, WriteKeeps, OthersKeepRoutes DEF SessionRouteNext
<1>2. RouteInv' => SessionRouteTypeOK'
  <2>1. RouteInv => SessionRouteTypeOK BY TypesOfRoutes DEF RouteInv
  <2> QED BY <2>1, PTL
<1>3. RouteInv /\ [SessionRouteNext]_routeVars =>
        [SessionRouteTypeOK' /\ \A a \in Askers :
           asking[a] = Idling /\ asking'[a].inherits = "yes" /\ Head(asking'[a].writes).version = 2 =>
             LET taken == Head(asking'[a].writes) IN
             /\ taken.sure = "yes" => <<taken.owner, taken.dir>> \in standing
             /\ taken.target = "repository" => projects[taken.owner] = "repository"]_routeVars
  BY <1>1, <1>2, InheritedStands
<1> QED BY RouteStarts, <1>1, <1>3, PTL DEF SessionRouteSpec, InheritsWhatStands

----------------------------------------------------------------------------
(***************************************************************************)
(* The footer of the route block, for any number of answers and losses: it *)
(* comes back in time, and a short one refers to a block the session has   *)
(* seen.                                                                   *)
(***************************************************************************)

\* The short footers that may follow one full block.
Rest == Every - 1

\* What a context holds in a running system: the count stays below a round.
Counted == [footer : Footers \cup {NoFooter}, since : 0..Rest]

ContextShape ==
    /\ context \in Counted
    /\ prompter \in [number : 0..MaxAnswers, at : {"none", "loaded", "saved", "answered"},
                     prints : {"nothing", "short", "full"}, footer : Footers \cup {NoFooter},
                     next : Counted]
    /\ command \in [Commands -> [at : {"none", "loaded", "over"}, copy : Counted]]
    /\ seen \in Footers \cup {NoFooter} /\ short \in Nat /\ mislaid \in 0..MaxLost

\* Each update that was lost is worth one round.
FooterOwed == short <= Rest * (1 + mislaid)

\* The counter a hook will read, or has yet to save, covers the short footers
\* the session has seen and the one on its way.
CountCovers ==
    /\ prompter.at \in {"none", "answered", "loaded"} => short <= context.since + Rest * mislaid
    /\ prompter.at = "loaded" /\ prompter.prints = "nothing" => short <= prompter.next.since + Rest * mislaid
    /\ prompter.at = "loaded" /\ prompter.prints = "short" => short + 1 <= prompter.next.since + Rest * mislaid
    /\ prompter.at = "saved" /\ prompter.prints = "nothing" => short <= context.since + Rest * mislaid
    /\ prompter.at = "saved" /\ prompter.prints = "short" => short + 1 <= context.since + Rest * mislaid

\* While no update was lost, the file names the block the session saw last.
FileNames ==
    mislaid = 0 =>
        /\ prompter.at \in {"none", "answered", "loaded"} => context.footer = seen
        /\ prompter.at = "loaded" /\ prompter.prints # "nothing" => prompter.next.footer = prompter.footer
        /\ prompter.at = "loaded" /\ prompter.prints = "nothing" => prompter.next.footer = seen
        /\ prompter.at = "saved" /\ prompter.prints # "nothing" => context.footer = prompter.footer
        /\ prompter.at = "saved" /\ prompter.prints = "nothing" => context.footer = seen
        /\ prompter.at \in {"loaded", "saved", "answered"} /\ prompter.prints = "short" => seen = prompter.footer

FooterInv == ContextShape /\ FooterOwed /\ CountCovers /\ FileNames

-----------------------------------------------------------------------------
LEMMA RestIsNat == Rest \in Nat
  BY FooterAssumption DEF Rest

\* One more update lost is one more round.
LEMMA OneMoreRound ==
  ASSUME NEW m \in Nat
  PROVE  /\ Rest * m \in Nat /\ Rest * (m + 1) = Rest * m + Rest /\ Rest * (1 + m) = Rest * m + Rest
         /\ Rest * (m + 1) \in Nat /\ Rest * (1 + m) \in Nat /\ Rest * (1 + (m + 1)) = Rest * (m + 1) + Rest
  <1> DEFINE R == Rest
  <1>1. R \in Nat
    BY RestIsNat
  <1> HIDE DEF R
  <1>2. R * m \in Nat /\ R * (m + 1) = R * m + R /\ R * (1 + m) = R * m + R
        /\ R * (m + 1) \in Nat /\ R * (1 + m) \in Nat /\ R * (1 + (m + 1)) = R * (m + 1) + R
    BY <1>1
  <1> QED
    BY <1>2 DEF R

LEMMA FooterStarts == ContextInit => FooterInv
  <1> SUFFICES ASSUME ContextInit PROVE FooterInv
    OBVIOUS
  <1>1. NoContext \in Counted /\ NoContext.since = 0 /\ NoContext.footer = NoFooter
    BY RestIsNat DEF NoContext, Counted
  <1>2. ContextShape
    BY <1>1, FooterAssumption DEF ContextShape, ContextInit
  <1>3. Rest * mislaid \in Nat /\ Rest * (1 + mislaid) \in Nat
    BY OneMoreRound, FooterAssumption DEF ContextInit
  <1>4. FooterOwed /\ CountCovers
    BY <1>1, <1>3 DEF ContextInit, FooterOwed, CountCovers
  <1>5. FileNames
    BY <1>1 DEF ContextInit, FileNames
  <1> QED
    BY <1>2, <1>4, <1>5 DEF FooterInv

LEMMA LoadKeeps ==
  ASSUME FooterInv, NEW f \in Footers, LoadContext(f)
  PROVE  FooterInv'
  <1> USE DEF FooterInv
  <1> DEFINE count == IF Collapses(f) THEN context.since + 1 ELSE 0
             loaded == [number |-> prompter.number + 1, at |-> "loaded", footer |-> f,
                        prints |-> IF Collapses(f) THEN "short" ELSE "full",
                        next |-> [footer |-> f, since |-> count]]
  <1>1. mislaid \in Nat /\ Rest * mislaid \in Nat
    BY OneMoreRound, FooterAssumption DEF ContextShape
  <1>2. context.since \in 0..Rest /\ short \in Nat
    BY DEF ContextShape, Counted
  <1>3. count \in 0..Rest
    BY <1>2, RestIsNat, FooterAssumption DEF Collapses, Rest
  <1>4. prompter.number + 1 \in 0..MaxAnswers
    BY FooterAssumption DEF ContextShape, LoadContext
  <1>5. prompter' = loaded /\ UNCHANGED <<context, command, seen, short, mislaid>>
    BY DEF LoadContext
  <1> HIDE DEF count
  <1>6. ContextShape'
    BY <1>3, <1>4, <1>5 DEF ContextShape, Counted
  <1>7. short <= context.since + Rest * mislaid /\ (mislaid = 0 => context.footer = seen)
    BY DEF LoadContext, CountCovers, FileNames
  <1>8. /\ prompter'.at = "loaded" /\ prompter'.footer = f
        /\ prompter'.next.since = count /\ prompter'.next.footer = f
        /\ prompter'.prints = IF Collapses(f) THEN "short" ELSE "full"
    BY <1>5
  <1>9. FooterOwed' /\ CountCovers'
    <2>1. CASE Collapses(f)
      BY <2>1, <1>1, <1>2, <1>5, <1>7, <1>8 DEF count, FooterOwed, CountCovers
    <2>2. CASE ~Collapses(f)
      BY <2>2, <1>5, <1>7, <1>8 DEF FooterOwed, CountCovers
    <2> QED
      BY <2>1, <2>2
  <1>10. FileNames'
    <2>1. CASE Collapses(f)
      <3>1. context.footer = f
        BY <2>1 DEF Collapses
      <3> QED
        BY <3>1, <2>1, <1>5, <1>7, <1>8 DEF FileNames
    <2>2. CASE ~Collapses(f)
      BY <2>2, <1>5, <1>7, <1>8 DEF FileNames
    <2> QED
      BY <2>1, <2>2
  <1> QED
    BY <1>6, <1>9, <1>10

LEMMA LoadOnlyKeeps ==
  ASSUME FooterInv, LoadOnly
  PROVE  FooterInv'
  <1> USE DEF FooterInv
  <1>1. prompter.number + 1 \in 0..MaxAnswers
    BY FooterAssumption DEF ContextShape, LoadOnly
  <1>2. ContextShape'
    BY <1>1 DEF ContextShape, LoadOnly
  <1>3. FooterOwed' /\ CountCovers'
    BY DEF LoadOnly, FooterOwed, CountCovers
  <1>4. FileNames'
    BY DEF LoadOnly, FileNames
  <1> QED
    BY <1>2, <1>3, <1>4

LEMMA SaveKeeps ==
  ASSUME FooterInv, SaveContext
  PROVE  FooterInv'
  <1> USE DEF FooterInv
  <1>1. /\ prompter'.at = "saved" /\ prompter'.prints = prompter.prints /\ prompter'.footer = prompter.footer
        /\ prompter'.next = prompter.next /\ context' = prompter.next
    BY DEF SaveContext, ContextShape
  <1>2. ContextShape'
    BY DEF ContextShape, SaveContext
  <1>3. FooterOwed' /\ CountCovers'
    BY <1>1 DEF SaveContext, FooterOwed, CountCovers
  <1>4. FileNames'
    BY <1>1 DEF SaveContext, FileNames
  <1> QED
    BY <1>2, <1>3, <1>4

LEMMA AnswerKeeps ==
  ASSUME FooterInv, AnswerPrompt
  PROVE  FooterInv'
  <1> USE DEF FooterInv
  <1>1. /\ prompter'.at = "answered" /\ prompter'.prints = prompter.prints /\ prompter'.footer = prompter.footer
        /\ prompter'.next = prompter.next /\ context' = context /\ command' = command /\ mislaid' = mislaid
        /\ prompter.at = "saved"
    BY DEF AnswerPrompt, ContextShape
  <1>2. mislaid \in Nat /\ Rest * mislaid \in Nat /\ Rest * (1 + mislaid) = Rest * mislaid + Rest
    BY OneMoreRound, FooterAssumption DEF ContextShape
  <1>3. context.since \in 0..Rest /\ short \in Nat /\ Rest \in Nat
    BY RestIsNat DEF ContextShape, Counted
  <1>4. CASE prompter.prints = "full"
    <2>1. seen' = prompter.footer /\ short' = 0
      BY <1>4 DEF AnswerPrompt
    <2>2. ContextShape'
      BY <2>1 DEF ContextShape, AnswerPrompt
    <2>3. FooterOwed' /\ CountCovers'
      BY <2>1, <1>1, <1>2, <1>3, <1>4 DEF FooterOwed, CountCovers
    <2>4. FileNames'
      BY <2>1, <1>1, <1>4 DEF FileNames
    <2> QED
      BY <2>2, <2>3, <2>4
  <1>5. CASE prompter.prints = "short"
    <2>1. seen' = seen /\ short' = short + 1
      BY <1>5 DEF AnswerPrompt
    <2>2. ContextShape'
      BY <2>1 DEF ContextShape, AnswerPrompt
    <2>3. FooterOwed' /\ CountCovers'
      BY <2>1, <1>1, <1>2, <1>3, <1>5 DEF FooterOwed, CountCovers
    <2>4. FileNames'
      BY <2>1, <1>1, <1>5 DEF FileNames
    <2> QED
      BY <2>2, <2>3, <2>4
  <1>6. CASE prompter.prints = "nothing"
    <2>1. seen' = seen /\ short' = short
      BY <1>6 DEF AnswerPrompt
    <2>2. ContextShape'
      BY <2>1 DEF ContextShape, AnswerPrompt
    <2>3. FooterOwed' /\ CountCovers'
      BY <2>1, <1>1, <1>2, <1>3, <1>6 DEF FooterOwed, CountCovers
    <2>4. FileNames'
      BY <2>1, <1>1, <1>6 DEF FileNames
    <2> QED
      BY <2>2, <2>3, <2>4
  <1> QED
    BY <1>4, <1>5, <1>6 DEF ContextShape

\* A save that fails and a hook that dies both lose one update.
LEMMA LossKeeps ==
  ASSUME FooterInv, ContextSaveFails \/ PrompterKilled
  PROVE  FooterInv'
  <1> USE DEF FooterInv
  <1>1. /\ mislaid' = mislaid + 1 /\ context' = context /\ command' = command /\ seen' = seen /\ short' = short
        /\ prompter'.prints = prompter.prints /\ prompter'.next = prompter.next
        /\ \/ prompter.at = "loaded" /\ prompter'.at = "saved"
           \/ prompter.at \in {"loaded", "saved"} /\ prompter'.at = "none"
    BY DEF ContextSaveFails, PrompterKilled, ContextShape
  <1>2. /\ mislaid \in Nat /\ Rest * mislaid \in Nat /\ Rest * (mislaid + 1) = Rest * mislaid + Rest
        /\ Rest * (1 + mislaid) = Rest * mislaid + Rest
        /\ Rest * (1 + (mislaid + 1)) = Rest * (mislaid + 1) + Rest
    BY OneMoreRound, FooterAssumption DEF ContextShape
  <1>3. context.since \in 0..Rest /\ prompter.next.since \in 0..Rest /\ short \in Nat /\ Rest \in Nat
    BY RestIsNat DEF ContextShape, Counted
  <1>4. ContextShape'
    <2>1. mislaid' \in 0..MaxLost
      BY FooterAssumption DEF ContextShape, ContextSaveFails, PrompterKilled
    <2> QED
      BY <2>1, <1>1 DEF ContextShape, ContextSaveFails, PrompterKilled
  <1>5. FooterOwed' /\ CountCovers'
    <2>1. short <= Rest * mislaid + Rest
      BY <1>2 DEF FooterOwed
    <2>2. prompter.at = "loaded" /\ prompter.prints = "short" => short + 1 <= Rest * mislaid + Rest
      BY <1>2, <1>3 DEF CountCovers
    <2> QED
      BY <1>1, <1>2, <1>3, <2>1, <2>2 DEF FooterOwed, CountCovers
  <1>6. FileNames'
    BY <1>1, <1>2 DEF FileNames
  <1> QED
    BY <1>4, <1>5, <1>6

\* A shell command's save puts back what it read; when that is another state,
\* one update is lost.
LEMMA CommandSaveKeeps ==
  ASSUME FooterInv, NEW c \in Commands, CommandSaves(c)
  PROVE  FooterInv'
  <1> USE DEF FooterInv
  <1>1. /\ context' = command[c].copy /\ prompter' = prompter /\ seen' = seen /\ short' = short
        /\ command[c].copy \in Counted
    BY DEF CommandSaves, ContextShape
  <1>2. command' \in [Commands -> [at : {"none", "loaded", "over"}, copy : Counted]]
    BY DEF CommandSaves, ContextShape
  <1>3. CASE command[c].copy = context
    <2>1. mislaid' = mislaid /\ context' = context
      BY <1>1, <1>3 DEF CommandSaves
    <2>2. ContextShape'
      BY <2>1, <1>1, <1>2 DEF ContextShape
    <2> QED
      BY <2>1, <2>2, <1>1 DEF FooterOwed, CountCovers, FileNames
  <1>4. CASE command[c].copy # context
    <2>1. mislaid' = mislaid + 1 /\ mislaid' \in 0..MaxLost
      BY <1>4, FooterAssumption DEF CommandSaves, ContextShape
    <2>2. /\ mislaid \in Nat /\ Rest * mislaid \in Nat /\ Rest * (mislaid + 1) = Rest * mislaid + Rest
          /\ Rest * (1 + mislaid) = Rest * mislaid + Rest
          /\ Rest * (1 + (mislaid + 1)) = Rest * (mislaid + 1) + Rest
      BY OneMoreRound, FooterAssumption DEF ContextShape
    <2>3. /\ context.since \in 0..Rest /\ context'.since \in 0..Rest /\ prompter.next.since \in 0..Rest
          /\ short \in Nat /\ Rest \in Nat
      BY <1>1, RestIsNat DEF ContextShape, Counted
    <2>4. ContextShape'
      BY <2>1, <1>1, <1>2 DEF ContextShape
    <2>5. FooterOwed' /\ CountCovers'
      <3>1. short <= Rest * mislaid + Rest
        BY <2>2 DEF FooterOwed
      <3>2. prompter.at = "saved" /\ prompter.prints = "short" => short + 1 <= Rest * mislaid + Rest
        BY <2>2, <2>3 DEF CountCovers
      <3>3. prompter.at = "loaded" /\ prompter.prints = "short"
              => short + 1 <= prompter.next.since + (Rest * mislaid + Rest)
        BY <2>2, <2>3 DEF CountCovers
      <3> QED
        BY <1>1, <2>1, <2>2, <2>3, <3>1, <3>2, <3>3 DEF FooterOwed, CountCovers
    <2>6. FileNames'
      BY <2>1, <2>2 DEF FileNames
    <2> QED
      BY <2>4, <2>5, <2>6
  <1> QED
    BY <1>3, <1>4

LEMMA CommandRestKeeps ==
  ASSUME FooterInv, NEW c \in Commands, CommandLoads(c) \/ CommandGone(c)
  PROVE  FooterInv'
  <1>1. command' \in [Commands -> [at : {"none", "loaded", "over"}, copy : Counted]]
    BY DEF CommandLoads, CommandGone, FooterInv, ContextShape
  <1>2. UNCHANGED <<context, prompter, seen, short, mislaid>>
    BY DEF CommandLoads, CommandGone
  <1> QED
    BY <1>1, <1>2 DEF FooterInv, ContextShape, FooterOwed, CountCovers, FileNames

LEMMA FooterNext == FooterInv /\ [ContextNext]_contextVars => FooterInv'
  <1> SUFFICES ASSUME FooterInv, [ContextNext]_contextVars PROVE FooterInv'
    OBVIOUS
  <1>1. CASE UNCHANGED contextVars
    BY <1>1 DEF contextVars, FooterInv, ContextShape, FooterOwed, CountCovers, FileNames
  <1>2. CASE ContextNext
    BY <1>2, LoadKeeps, LoadOnlyKeeps, SaveKeeps, AnswerKeeps, LossKeeps, CommandSaveKeeps, CommandRestKeeps
       DEF ContextNext
  <1> QED
    BY <1>1, <1>2

\* However prompts and shell commands of a session overlap, and whatever saves
\* are lost: the full block comes back after at most one round per lost update
\* and one more, and a short line refers to the block the session saw last
\* (formatDispatchContext, handlePreToolUse).
THEOREM FooterAlwaysHolds == ContextSpec => []FooterHolds
  <1>1. FooterInv => FooterHolds
    <2> SUFFICES ASSUME FooterInv PROVE FooterHolds
      OBVIOUS
    <2>1. Counted \subseteq Contexts
      BY FooterAssumption DEF Counted, Contexts, Rest
    <2>2. ContextTypeOK
      BY <2>1 DEF FooterInv, ContextShape, ContextTypeOK
    <2>3. FooterReturns
      BY DEF FooterInv, FooterOwed, FooterReturns, Rest
    <2>4. ShortIsTrue
      BY DEF FooterInv, FileNames, ShortIsTrue
    <2> QED
      BY <2>2, <2>3, <2>4 DEF FooterHolds
  <1> QED
    BY <1>1, FooterStarts, FooterNext, PTL DEF ContextSpec

----------------------------------------------------------------------------
(***************************************************************************)
(* Language model calls for any runs, requests and registries: no call     *)
(* leaves the lane its caller may use, no outcome is lost by the ledger,   *)
(* and the cap sees what was paid for.                                     *)
(***************************************************************************)

Events == Files \X ModelRuns \X {"warning", "outcome"}

\* The fields of a run; what they hold is what its caller and the files said.
RunFields == {"auth", "lane", "human", "legacy", "cands", "asked", "fromRegistry", "retry", "billed", "late"}
RunShape(x) == x = [f \in RunFields |-> x[f]]

RunsShape ==
    /\ stage = [r \in ModelRuns |-> stage[r]]
    /\ run = [r \in ModelRuns |-> run[r]] /\ \A r \in ModelRuns : RunShape(run[r])

Begun == {"discover", "attempt", "provider", "rescan", "notify"}

\* From its plan to its last candidate a run keeps the lane it was accepted in.
LaneKept ==
    \A r \in ModelRuns : stage[r] \in Begun =>
        /\ (run[r].auth = "oauth") = (run[r].lane = "interactive_oauth")
        /\ run[r].lane = "interactive_oauth" => run[r].human
        /\ run[r].legacy => ~env.unattended

\* What the candidate was checked for when its provider was called.
AskedIsValid ==
    \A r \in ModelRuns : stage[r] = "provider" =>
        \E c \in run[r].asked : Model(c) =>
            /\ c.auth = "any" \/ c.auth = run[r].auth
            /\ c.tier = "fable" => run[r].auth = "oauth"

LanesInv == RunsShape /\ LaneKept /\ AskedIsValid

Outcome(r) == <<"usage", r, "outcome">>
Recorded(r) == stage[r] \in {"done", "failed"}

LedgerShape ==
    /\ buffer \subseteq Events /\ written \in [Events -> Nat]
    /\ budget = [faults |-> budget.faults, changes |-> budget.changes]
    /\ budget.faults \in 0..MaxFailedFlushes

\* A buffered event was written at most once per flush that failed; one that is
\* no longer buffered once more, by the flush that did not.
LedgerCounts ==
    \A r \in ModelRuns :
        /\ ~Recorded(r) => Outcome(r) \notin buffer /\ written[Outcome(r)] = 0
        /\ Recorded(r) => Outcome(r) \in buffer \/ written[Outcome(r)] > 0
        /\ Outcome(r) \in buffer => written[Outcome(r)] <= MaxFailedFlushes - budget.faults
        /\ written[Outcome(r)] <= 1 + MaxFailedFlushes - budget.faults

\* A process that has exited without a fault has nothing left to write.
ExitFlushed == ~Up /\ budget.faults = MaxFailedFlushes => buffer = {}

LedgerInv == RunsShape /\ LedgerShape /\ LedgerCounts /\ ExitFlushed

-----------------------------------------------------------------------------
(* How a step changes a run. *)

\* One run gets another record and another stage.
Becomes(r, x, p) ==
    /\ RunShape(x) /\ run' = [run EXCEPT ![r] = x] /\ stage' = [stage EXCEPT ![r] = p]

LEMMA BecomesWhat ==
  ASSUME RunsShape, NEW r \in ModelRuns, NEW x, NEW p, Becomes(r, x, p)
  PROVE  /\ RunsShape' /\ run'[r] = x /\ stage'[r] = p
         /\ \A s \in ModelRuns : s # r => run'[s] = run[s] /\ stage'[s] = stage[s]
  BY DEF Becomes, RunsShape

SameLane(x, y) == x.auth = y.auth /\ x.lane = y.lane /\ x.human = y.human /\ x.legacy = y.legacy

LEMMA NoRunShape == RunShape(NoRun)
  BY DEF NoRun, RunShape, RunFields

\* A step between candidates.
LEMMA MoveSteps ==
  ASSUME RunsShape, NEW r \in ModelRuns, NEW retry, Move(r, retry)
  PROVE  \E x, p : Becomes(r, x, p) /\ SameLane(x, run[r]) /\ p \in {"attempt", "notify"}
  <1>1. RunShape(run[r])
    BY DEF RunsShape
  <1>2. CASE /\ run' = [run EXCEPT ![r].cands = Tail(@), ![r].asked = {}]
             /\ stage' = [stage EXCEPT ![r] = "attempt"]
    <2> DEFINE x == [run[r] EXCEPT !.cands = Tail(run[r].cands), !.asked = {}]
    <2>1. RunShape(x) /\ SameLane(x, run[r])
      BY <1>1 DEF RunShape, RunFields, SameLane
    <2>2. run' = [run EXCEPT ![r] = x]
      BY <1>2 DEF RunsShape
    <2> HIDE DEF x
    <2> QED
      BY <1>2, <2>1, <2>2 DEF Becomes
  <1>3. CASE run' = [run EXCEPT ![r].asked = {}] /\ stage' = [stage EXCEPT ![r] = "notify"]
    <2> DEFINE x == [run[r] EXCEPT !.asked = {}]
    <2>1. RunShape(x) /\ SameLane(x, run[r])
      BY <1>1 DEF RunShape, RunFields, SameLane
    <2>2. run' = [run EXCEPT ![r] = x]
      BY <1>3 DEF RunsShape
    <2> HIDE DEF x
    <2> QED
      BY <1>3, <2>1, <2>2 DEF Becomes
  <1> QED
    BY <1>2, <1>3 DEF Move

LEMMA FailsSteps ==
  ASSUME RunsShape, NEW r \in ModelRuns, NEW kind, Fails(r, kind)
  PROVE  \E x, p : Becomes(r, x, p) /\ SameLane(x, run[r]) /\ p \in {"attempt", "notify", "rescan"}
  <1>1. CASE \E retry : Move(r, retry)
    BY <1>1, MoveSteps
  <1>2. CASE \E retry : run' = [run EXCEPT ![r].retry = retry,
      ![r].asked = {}] /\ stage' = [stage EXCEPT ![r] = "rescan"]
    <2> PICK retry : run' = [run EXCEPT ![r].retry = retry,
        ![r].asked = {}] /\ stage' = [stage EXCEPT ![r] = "rescan"]
      BY <1>2
    <2> DEFINE x == [run[r] EXCEPT !.retry = retry, !.asked = {}]
    <2>0. RunShape(run[r])
      BY DEF RunsShape
    <2>1. RunShape(x) /\ SameLane(x, run[r])
      BY <2>0 DEF RunShape, RunFields, SameLane
    <2>2. run' = [run EXCEPT ![r] = x]
      BY DEF RunsShape
    <2> HIDE DEF x
    <2> QED
      BY <2>1, <2>2 DEF Becomes
  <1> QED
    BY <1>1, <1>2 DEF Fails

LEMMA EndSteps ==
  ASSUME NEW r \in ModelRuns, NEW how, NEW billed, End(r, how, billed)
  PROVE  \E x : Becomes(r, x, how)
  <1> DEFINE x == [NoRun EXCEPT !.billed = billed]
  <1>1. RunShape(x)
    BY NoRunShape DEF RunShape, RunFields
  <1>2. Becomes(r, x, how)
    BY <1>1 DEF End, Becomes
  <1> QED
    BY <1>2

\* The contract a call begins with: an entry point's defaults never hand a
\* subscription to a helper in a process marked unattended.
LEMMA EntryKeepsMarker ==
  ASSUME NEW r \in ModelRuns, NEW q0 \in Requests[r], q0.entry = "legacy", EntryOptions(q0) # q0,
         EntryOptions(q0).auth = "oauth"
  PROVE  ~env.unattended
  <1>1. q0 \in CallerOptions
    BY CallsAssumption
  <1>2. EntryOptions(q0) = LegacyRoute(q0)
    BY DEF EntryOptions
  <1>3. CASE q0.audio
    BY <1>1, <1>2, <1>3 DEF LegacyRoute, CallerOptions
  <1>4. CASE ~q0.audio
    BY <1>1, <1>2, <1>4 DEF LegacyRoute, CallerOptions
  <1> QED
    BY <1>3, <1>4

Begins(r, x, p) ==
    /\ Becomes(r, x, p)
    /\ (x.auth = "oauth") = (x.lane = "interactive_oauth")
    /\ x.lane = "interactive_oauth" => x.human
    /\ x.legacy => ~env.unattended

\* A run that is planned for the options q.
Planned(r, q, routed) ==
    /\ run' = [run EXCEPT ![r] = run'[r]] /\ RunShape(run'[r])
    /\ run'[r].auth = AuthMode(q) /\ run'[r].lane = DeriveLane(q)
    /\ run'[r].human = (q.human = "yes") /\ run'[r].legacy = routed

LEMMA BeginSteps ==
  ASSUME RunsShape, NEW r \in ModelRuns, BeginCall(r)
  PROVE  \/ Becomes(r, run[r], "refused")
         \/ \E x, p : Begins(r, x, p) /\ p \in {"attempt", "discover"}
  <1> PICK q0 \in Requests[r] :
         LET q == EntryOptions(q0)
             routed == q0.entry = "legacy" /\ q0 # q /\ q.auth = "oauth"
         IN /\ Warn(r, routed)
            /\ \/ /\ ~LaneAccepted(q)
                  /\ stage' = [stage EXCEPT ![r] = "refused"] /\ UNCHANGED run
               \/ /\ LaneAccepted(q)
                  /\ \E files \in Routes[DeriveLane(q)], known \in BOOLEAN, local \in BOOLEAN :
                       LET plan == PlanOf(q, RouteOf(files, DeriveLane(q)))
                           default == /\ known /\ AllowsLocal(files, q) /\ AuthMode(q) = "oauth"
                                      /\ \E i \in DOMAIN plan : plan[i].p # "whisper"
                       IN /\ local => AllowsLocal(files, q) /\ ~q.audio
                          /\ run' = [run EXCEPT ![r] =
                               [NoRun EXCEPT !.auth = AuthMode(q), !.lane = DeriveLane(q),
                                  !.human = (q.human = "yes"), !.legacy = routed, !.fromRegistry = default,
                                  !.cands = LocalCandidate(local) \o
                                            (IF default THEN RegistryCandidates ELSE plan)]]
                          /\ \/ default /\ "openai" \notin eligible /\ stage' = [stage EXCEPT ![r] = "discover"]
                             \/ stage' = [stage EXCEPT ![r] = "attempt"]
    BY Zenon DEF BeginCall
  <1> DEFINE q == EntryOptions(q0)
             routed == q0.entry = "legacy" /\ q0 # q /\ q.auth = "oauth"
  <1>1. routed => ~env.unattended
    BY EntryKeepsMarker
  <1>2. \/ stage' = [stage EXCEPT ![r] = "refused"] /\ UNCHANGED run
        \/ /\ LaneAccepted(q)
           /\ Planned(r, q, routed)
           /\ \E p \in {"attempt", "discover"} : stage' = [stage EXCEPT ![r] = p]
    <2>1. CASE stage' = [stage EXCEPT ![r] = "refused"] /\ UNCHANGED run
      BY <2>1
    <2>2. CASE /\ LaneAccepted(q)
               /\ \E files \in Routes[DeriveLane(q)], known \in BOOLEAN, local \in BOOLEAN :
                    LET plan == PlanOf(q, RouteOf(files, DeriveLane(q)))
                        default == /\ known /\ AllowsLocal(files, q) /\ AuthMode(q) = "oauth"
                                   /\ \E i \in DOMAIN plan : plan[i].p # "whisper"
                    IN /\ local => AllowsLocal(files, q) /\ ~q.audio
                       /\ run' = [run EXCEPT ![r] =
                            [NoRun EXCEPT !.auth = AuthMode(q), !.lane = DeriveLane(q),
                               !.human = (q.human = "yes"), !.legacy = routed, !.fromRegistry = default,
                               !.cands = LocalCandidate(local) \o
                                         (IF default THEN RegistryCandidates ELSE plan)]]
                       /\ \/ default /\ "openai" \notin eligible /\ stage' = [stage EXCEPT ![r] = "discover"]
                          \/ stage' = [stage EXCEPT ![r] = "attempt"]
      <3> PICK files \in Routes[DeriveLane(q)], known \in BOOLEAN, local \in BOOLEAN :
                    LET plan == PlanOf(q, RouteOf(files, DeriveLane(q)))
                        default == /\ known /\ AllowsLocal(files, q) /\ AuthMode(q) = "oauth"
                                   /\ \E i \in DOMAIN plan : plan[i].p # "whisper"
                    IN /\ local => AllowsLocal(files, q) /\ ~q.audio
                       /\ run' = [run EXCEPT ![r] =
                            [NoRun EXCEPT !.auth = AuthMode(q), !.lane = DeriveLane(q),
                               !.human = (q.human = "yes"), !.legacy = routed, !.fromRegistry = default,
                               !.cands = LocalCandidate(local) \o
                                         (IF default THEN RegistryCandidates ELSE plan)]]
                       /\ \/ default /\ "openai" \notin eligible /\ stage' = [stage EXCEPT ![r] = "discover"]
                          \/ stage' = [stage EXCEPT ![r] = "attempt"]
        BY <2>2, Zenon
      <3> DEFINE plan == PlanOf(q, RouteOf(files, DeriveLane(q)))
                 default == /\ known /\ AllowsLocal(files, q) /\ AuthMode(q) = "oauth"
                            /\ \E i \in DOMAIN plan : plan[i].p # "whisper"
                 cands == LocalCandidate(local) \o (IF default THEN RegistryCandidates ELSE plan)
      <3>0. run' = [run EXCEPT ![r] =
               [NoRun EXCEPT !.auth = AuthMode(q), !.lane = DeriveLane(q), !.human = (q.human = "yes"),
                             !.legacy = routed, !.fromRegistry = default, !.cands = cands]]
        BY Zenon
      <3>2. \E p \in {"attempt", "discover"} : stage' = [stage EXCEPT ![r] = p]
        BY Zenon
      <3>3. LaneAccepted(q)
        BY <2>2, Zenon
      <3> HIDE DEF default, cands, q, routed
      <3>4. Planned(r, q, routed)
        <4> DEFINE x == [NoRun EXCEPT !.auth = AuthMode(q), !.lane = DeriveLane(q), !.human = (q.human = "yes"),
                                      !.legacy = routed, !.fromRegistry = default, !.cands = cands]
        <4>1. RunShape(x) /\ x.auth = AuthMode(q) /\ x.lane = DeriveLane(q) /\ x.human = (q.human = "yes") /\ x.legacy = routed
          BY NoRunShape DEF RunShape, RunFields
        <4>2. run' = [run EXCEPT ![r] = x]
          BY <3>0
        <4> HIDE DEF x
        <4>3. run'[r] = x
          BY <4>2 DEF RunsShape
        <4> QED
          BY <4>1, <4>2, <4>3 DEF Planned
      <3> QED
        BY <3>2, <3>3, <3>4, Zenon
    <2> QED
      BY <2>1, <2>2, Zenon
  <1> HIDE DEF q, routed
  <1>3. CASE stage' = [stage EXCEPT ![r] = "refused"] /\ UNCHANGED run
    <2>1. RunShape(run[r]) /\ run' = [run EXCEPT ![r] = run[r]]
      BY <1>3 DEF RunsShape
    <2> QED
      BY <1>3, <2>1 DEF Becomes
  <1>4. CASE /\ LaneAccepted(q)
             /\ Planned(r, q, routed)
             /\ \E p \in {"attempt", "discover"} : stage' = [stage EXCEPT ![r] = p]
    <2> PICK p \in {"attempt", "discover"} : stage' = [stage EXCEPT ![r] = p]
      BY <1>4
    <2> DEFINE x == run'[r]
    <2>1. RunShape(x) /\ x.auth = AuthMode(q) /\ x.lane = DeriveLane(q) /\ x.human = (q.human = "yes") /\ x.legacy = routed
      BY <1>4 DEF Planned
    <2> HIDE DEF x
    <2>2. (x.auth = "oauth") = (x.lane = "interactive_oauth") /\ (x.lane = "interactive_oauth" => x.human)
      BY <1>4, <2>1 DEF LaneAccepted
    <2>3. x.legacy => ~env.unattended
      BY <1>1, <2>1
    <2>4. Becomes(r, x, p)
      BY <1>4, <2>1 DEF Becomes, Planned, x
    <2>5. Begins(r, x, p)
      BY <2>2, <2>3, <2>4 DEF Begins
    <2> QED
      BY <2>5
  <1> QED
    BY <1>2, <1>3, <1>4

LEMMA StartSteps ==
  ASSUME RunsShape, NEW r \in ModelRuns, Start(r)
  PROVE  \E x, c : /\ Becomes(r, x, "provider") /\ SameLane(x, run[r]) /\ stage[r] = "attempt"
                   /\ x.asked = {c} /\ Valid(r, c)
  <1>1. PICK c : Valid(r, c) /\ run' = [run EXCEPT ![r].asked = {c}]
    BY DEF Start
  <1> DEFINE x == [run[r] EXCEPT !.asked = {c}]
  <1>2. RunShape(run[r])
    BY DEF RunsShape
  <1>3. RunShape(x) /\ SameLane(x, run[r]) /\ x.asked = {c}
    BY <1>2 DEF RunShape, RunFields, SameLane
  <1>4. run' = [run EXCEPT ![r] = x]
    BY <1>1 DEF RunsShape
  <1> HIDE DEF x
  <1>5. Becomes(r, x, "provider") /\ stage[r] = "attempt"
    BY <1>3, <1>4 DEF Becomes, Start
  <1> QED
    BY <1>1, <1>3, <1>5

LEMMA DiscoveredSteps ==
  ASSUME RunsShape, NEW r \in ModelRuns, Discovered(r)
  PROVE  \E x : Becomes(r, x, "attempt") /\ SameLane(x, run[r])
  <1> DEFINE x == [run[r] EXCEPT !.cands = Replanned(run[r].cands)]
  <1>1. RunShape(run[r])
    BY DEF RunsShape
  <1>2. RunShape(x) /\ SameLane(x, run[r])
    BY <1>1 DEF RunShape, RunFields, SameLane
  <1>3. run' = [run EXCEPT ![r] = x]
    BY DEF RunsShape, Discovered
  <1> HIDE DEF x
  <1>4. Becomes(r, x, "attempt")
    BY <1>2, <1>3 DEF Becomes, Discovered
  <1> QED
    BY <1>2, <1>4

LEMMA DeadlineSteps ==
  ASSUME RunsShape, NEW r \in ModelRuns, DeadlinePasses(r)
  PROVE  \E x : Becomes(r, x, stage[r]) /\ SameLane(x, run[r]) /\ x.asked = run[r].asked
  <1> DEFINE x == [run[r] EXCEPT !.late = TRUE]
  <1>1. RunShape(run[r])
    BY DEF RunsShape
  <1>2. RunShape(x) /\ SameLane(x, run[r]) /\ x.asked = run[r].asked
    BY <1>1 DEF RunShape, RunFields, SameLane
  <1>3. run' = [run EXCEPT ![r] = x] /\ stage' = [stage EXCEPT ![r] = stage[r]]
    BY DEF RunsShape, DeadlinePasses
  <1> HIDE DEF x
  <1>4. Becomes(r, x, stage[r])
    BY <1>2, <1>3 DEF Becomes
  <1> QED
    BY <1>2, <1>4

-----------------------------------------------------------------------------
(* Lanes. *)

InLane(x) ==
    /\ (x.auth = "oauth") = (x.lane = "interactive_oauth")
    /\ x.lane = "interactive_oauth" => x.human
    /\ x.legacy => ~env.unattended

AskedOf(x) ==
    \E c \in x.asked : Model(c) =>
        /\ c.auth = "any" \/ c.auth = x.auth
        /\ c.tier = "fable" => x.auth = "oauth"

LEMMA BecomesKeepsLanes ==
  ASSUME LanesInv, NEW r \in ModelRuns, NEW x, NEW p, Becomes(r, x, p), UNCHANGED env,
         p \in Begun => InLane(x), p = "provider" => AskedOf(x)
  PROVE  LanesInv'
  <1>1. /\ RunsShape' /\ run'[r] = x /\ stage'[r] = p
        /\ \A s \in ModelRuns : s # r => run'[s] = run[s] /\ stage'[s] = stage[s]
    BY BecomesWhat DEF LanesInv
  <1>2. LaneKept'
    <2> SUFFICES ASSUME NEW s \in ModelRuns, stage'[s] \in Begun
                 PROVE  /\ (run'[s].auth = "oauth") = (run'[s].lane = "interactive_oauth")
                        /\ run'[s].lane = "interactive_oauth" => run'[s].human
                        /\ run'[s].legacy => ~env'.unattended
      BY DEF LaneKept
    <2>1. CASE s = r
      BY <2>1, <1>1 DEF InLane
    <2>2. CASE s # r
      BY <2>2, <1>1 DEF LanesInv, LaneKept
    <2> QED
      BY <2>1, <2>2
  <1>3. AskedIsValid'
    <2> SUFFICES ASSUME NEW s \in ModelRuns, stage'[s] = "provider"
                 PROVE  \E c \in run'[s].asked : Model(c) =>
                            /\ c.auth = "any" \/ c.auth = run'[s].auth
                            /\ c.tier = "fable" => run'[s].auth = "oauth"
      BY DEF AskedIsValid, Model
    <2>1. CASE s = r
      BY <2>1, <1>1 DEF AskedOf
    <2>2. CASE s # r
      BY <2>2, <1>1 DEF LanesInv, AskedIsValid
    <2> QED
      BY <2>1, <2>2
  <1> QED
    BY <1>1, <1>2, <1>3 DEF LanesInv

LEMMA SameLaneIn ==
  ASSUME LanesInv, NEW r \in ModelRuns, stage[r] \in Begun, NEW x, SameLane(x, run[r])
  PROVE  InLane(x)
  BY DEF LanesInv, LaneKept, InLane, SameLane

LEMMA RunStepKeepsLanes ==
  ASSUME LanesInv, NEW r \in ModelRuns, RunStep(r)
  PROVE  LanesInv'
  <1>0. RunsShape
    BY DEF LanesInv
  <1>1. CASE BeginCall(r)
    <2>1. UNCHANGED env
      BY <1>1 DEF BeginCall
    <2>2. CASE Becomes(r, run[r], "refused")
      BY <2>1, <2>2, BecomesKeepsLanes DEF Begun
    <2>3. CASE \E x, p : Begins(r, x, p) /\ p \in {"attempt", "discover"}
      <3> PICK x, p : Begins(r, x, p) /\ p \in {"attempt", "discover"}
        BY <2>3
      <3>1. Becomes(r, x, p) /\ InLane(x) /\ p # "provider"
        BY DEF Begins, InLane
      <3> QED
        BY <2>1, <3>1, BecomesKeepsLanes
    <2> QED
      BY <1>0, <1>1, <2>2, <2>3, BeginSteps
  <1>2. CASE Discovered(r)
    <2> PICK x : Becomes(r, x, "attempt") /\ SameLane(x, run[r])
      BY <1>0, <1>2, DiscoveredSteps
    <2>1. UNCHANGED env /\ stage[r] \in Begun
      BY <1>2 DEF Discovered, Begun
    <2> QED
      BY <2>1, SameLaneIn, BecomesKeepsLanes
  <1>3. CASE Start(r)
    <2> PICK x, c : /\ Becomes(r, x, "provider") /\ SameLane(x, run[r]) /\ stage[r] = "attempt"
                    /\ x.asked = {c} /\ Valid(r, c)
      BY <1>0, <1>3, StartSteps
    <2>1. UNCHANGED env /\ stage[r] \in Begun
      BY <1>3 DEF Start, Begun
    <2>2. AskedOf(x)
      BY DEF AskedOf, Valid, SameLane
    <2> QED
      BY <2>1, <2>2, SameLaneIn, BecomesKeepsLanes
  <1>4. CASE \E kind : Fails(r, kind) /\ UNCHANGED env /\ stage[r] \in {"attempt", "provider"}
    <2> PICK kind : Fails(r, kind) /\ UNCHANGED env /\ stage[r] \in {"attempt", "provider"}
      BY <1>4
    <2> PICK x, p : Becomes(r, x, p) /\ SameLane(x, run[r]) /\ p \in {"attempt", "notify", "rescan"}
      BY <1>0, FailsSteps
    <2>1. stage[r] \in Begun
      BY DEF Begun
    <2> QED
      BY <2>1, SameLaneIn, BecomesKeepsLanes
  <1>5. CASE \E how \in {"done", "failed", "refused"} : \E billed : End(r, how, billed) /\ UNCHANGED env
    <2> PICK how \in {"done", "failed", "refused"} : \E billed : End(r, how, billed) /\ UNCHANGED env
      BY <1>5
    <2> PICK billed : End(r, how, billed) /\ UNCHANGED env
      OBVIOUS
    <2> PICK x : Becomes(r, x, how)
      BY EndSteps
    <2> QED
      BY BecomesKeepsLanes DEF Begun
  <1>6. CASE Rescanned(r)
    <2>1. PICK retry : Move(r, retry)
      BY <1>6 DEF Rescanned
    <2> PICK x, p : Becomes(r, x, p) /\ SameLane(x, run[r]) /\ p \in {"attempt", "notify"}
      BY <1>0, <2>1, MoveSteps
    <2>2. UNCHANGED env /\ stage[r] \in Begun
      BY <1>6 DEF Rescanned, Begun
    <2> QED
      BY <2>2, SameLaneIn, BecomesKeepsLanes
  <1>7. CASE DeadlinePasses(r)
    <2> PICK x : Becomes(r, x, stage[r]) /\ SameLane(x, run[r]) /\ x.asked = run[r].asked
      BY <1>0, <1>7, DeadlineSteps
    <2>1. UNCHANGED env /\ stage[r] \in Begun
      BY <1>7 DEF DeadlinePasses, Begun
    <2>2. stage[r] = "provider" => AskedOf(x)
      BY DEF LanesInv, AskedIsValid, AskedOf, SameLane
    <2> QED
      BY <2>1, <2>2, SameLaneIn, BecomesKeepsLanes
  <1>8. Blocked(r) \/ Answerless(r) => \E kind : Fails(r, kind) /\ UNCHANGED env /\ stage[r] \in {"attempt",
      "provider"}
    BY DEF Blocked, Answerless
  <1>9. Succeed(r) \/ NoCandidate(r) \/ Notified(r)
          => \E how \in {"done", "failed", "refused"} : \E billed : End(r, how, billed) /\ UNCHANGED env
    BY DEF Succeed, NoCandidate, Notified
  <1> QED
    BY <1>1, <1>2, <1>3, <1>4, <1>5, <1>6, <1>7, <1>8, <1>9 DEF RunStep

LEMMA LanesNext == LanesInv /\ [CallsNext]_callVars => LanesInv'
  <1> SUFFICES ASSUME LanesInv, [CallsNext]_callVars PROVE LanesInv'
    OBVIOUS
  <1>1. CASE \E r \in ModelRuns : RunStep(r)
    BY <1>1, RunStepKeepsLanes
  <1>2. CASE UNCHANGED <<env, stage, run>>
    BY <1>2 DEF LanesInv, RunsShape, RunShape, LaneKept, AskedIsValid, Model
  <1>3. ScheduledFlush \/ ScheduledFlushFails \/ Exit \/ Signal \/ SummaryExpires \/ OthersChangeEligible
          => UNCHANGED <<env, stage, run>>
    BY DEF ScheduledFlush, ScheduledFlushFails, Exit, Signal, SummaryExpires, OthersChangeEligible
  <1> QED
    BY <1>1, <1>2, <1>3 DEF CallsNext, callVars

LEMMA RunsStart == CallsInit => RunsShape
  BY NoRunShape DEF CallsInit, RunsShape

\* Whatever way a call came in, whatever its environment, its routing files
\* and the registry say, and however far down its chain it is: a subscription
\* is used only for interactive work a person watches, never by a helper in a
\* process marked unattended, and never replaced by or for an API key
\* (myosRun, applyLegacyAuthRoute, validateExecutionCandidate).
THEOREM LanesAlwaysHold == CallsSpec => []LanesHold
  <1>1. CallsInit => LanesInv
    BY RunsStart DEF CallsInit, LanesInv, LaneKept, AskedIsValid, Begun
  <1>2. LanesInv => LanesHold
    <2> SUFFICES ASSUME LanesInv, NEW r \in ModelRuns, stage[r] = "provider"
                 PROVE  \E c \in run[r].asked :
                          /\ run[r].auth = "oauth" =>
                               /\ run[r].lane = "interactive_oauth" /\ run[r].human
                               /\ run[r].legacy => ~env.unattended
                               /\ Model(c) => c.auth \in {"oauth", "any"}
                          /\ run[r].auth = "api" =>
                               /\ run[r].lane # "interactive_oauth"
                               /\ Model(c) => c.auth # "oauth" /\ c.tier # "fable"
      BY DEF LanesHold
    <2> QED
      BY DEF LanesInv, LaneKept, AskedIsValid, Begun
  <1> QED
    BY <1>1, <1>2, LanesNext, PTL DEF CallsSpec

-----------------------------------------------------------------------------
(* The ledger. *)

SameRecorded == RunsShape' /\ \A s \in ModelRuns : (Recorded(s)' <=> Recorded(s))

LEMMA OutcomesAreEvents ==
  /\ \A r \in ModelRuns : Outcome(r) \in Events
  /\ \A r, s : Outcome(r) = Outcome(s) => r = s
  BY DEF Outcome, Events, Files

LEMMA BecomesRecords ==
  ASSUME RunsShape, NEW r \in ModelRuns, NEW x, NEW p, Becomes(r, x, p)
  PROVE  /\ RunsShape' /\ (Recorded(r)' <=> p \in {"done", "failed"})
         /\ \A s \in ModelRuns : s # r => (Recorded(s)' <=> Recorded(s))
  BY BecomesWhat DEF Recorded

LEMMA PlusAdds ==
  ASSUME LedgerShape, NEW lines \in SUBSET Events
  PROVE  /\ Plus(lines) \in [Events -> Nat]
         /\ \A e \in Events : Plus(lines)[e] = written[e] + IF e \in lines THEN 1 ELSE 0
  BY DEF Plus, LedgerShape

\* Nothing happens to the ledger.
LEMMA QuietKeeps ==
  ASSUME LedgerInv, SameRecorded, UNCHANGED <<buffer, written, process>>, budget'.faults = budget.faults,
         budget' = [faults |-> budget'.faults, changes |-> budget'.changes]
  PROVE  LedgerInv'
  <1>1. LedgerShape' /\ ExitFlushed'
    BY DEF LedgerInv, LedgerShape, ExitFlushed, Up
  <1>2. LedgerCounts'
    BY DEF LedgerInv, LedgerCounts, SameRecorded, Outcome
  <1> QED
    BY <1>1, <1>2 DEF LedgerInv, SameRecorded

\* A flush that ends well.
LEMMA FlushKeeps ==
  ASSUME LedgerInv, SameRecorded, FlushOk, UNCHANGED budget
  PROVE  LedgerInv'
  <1>1. /\ buffer \in SUBSET Events /\ written' = Plus(buffer) /\ buffer' = {}
        /\ budget.faults \in 0..MaxFailedFlushes /\ MaxFailedFlushes \in Nat
    BY CallsAssumption DEF LedgerInv, LedgerShape, FlushOk
  <1>2. /\ written' \in [Events -> Nat]
        /\ \A e \in Events : written'[e] = written[e] + IF e \in buffer THEN 1 ELSE 0
    BY <1>1, PlusAdds DEF LedgerInv
  <1>3. LedgerShape' /\ ExitFlushed'
    BY <1>1, <1>2 DEF LedgerInv, LedgerShape, ExitFlushed
  <1>4. LedgerCounts'
    <2> SUFFICES ASSUME NEW r \in ModelRuns
                 PROVE  /\ ~Recorded(r) => written'[Outcome(r)] = 0
                        /\ Recorded(r) => written'[Outcome(r)] > 0
                        /\ written'[Outcome(r)] <= 1 + MaxFailedFlushes - budget.faults
      BY <1>1 DEF LedgerCounts, SameRecorded, Outcome
    <2>1. Outcome(r) \in Events /\ written[Outcome(r)] \in Nat
      BY OutcomesAreEvents DEF LedgerInv, LedgerShape
    <2>2. written'[Outcome(r)] = written[Outcome(r)] + IF Outcome(r) \in buffer THEN 1 ELSE 0
      BY <1>2, <2>1
    <2>3. CASE Outcome(r) \in buffer
      BY <1>1, <2>1, <2>2, <2>3 DEF LedgerInv, LedgerCounts
    <2>4. CASE Outcome(r) \notin buffer
      BY <1>1, <2>1, <2>2, <2>4 DEF LedgerInv, LedgerCounts
    <2> QED
      BY <2>3, <2>4
  <1> QED
    BY <1>3, <1>4 DEF LedgerInv, SameRecorded

\* A flush that fails, before its first file or between the two.
LEMMA FailedFlushKeeps ==
  ASSUME LedgerInv, SameRecorded, NEW n \in {1, 2}, FlushFails(n),
         budget' = [budget EXCEPT !.faults = @ - n]
  PROVE  LedgerInv'
  <1>1. /\ budget.faults \in 0..MaxFailedFlushes /\ MaxFailedFlushes \in Nat /\ budget.faults >= n
        /\ budget' = [faults |-> budget'.faults, changes |-> budget'.changes]
        /\ budget'.faults = budget.faults - n
    BY CallsAssumption DEF LedgerInv, LedgerShape, FlushFails
  <1>2. buffer' = buffer /\ buffer \subseteq Events /\ written \in [Events -> Nat]
    BY DEF LedgerInv, LedgerShape, FlushFails
  <1>3. /\ written' \in [Events -> Nat]
        /\ \A e \in Events : \/ written'[e] = written[e]
                             \/ e \in buffer /\ written'[e] = written[e] + 1
    <2>1. CASE UNCHANGED written
      BY <2>1, <1>2
    <2>2. CASE written' = Plus(Lines("usage"))
      <3>1. Lines("usage") \in SUBSET Events /\ Lines("usage") \subseteq buffer
        BY <1>2 DEF Lines
      <3> QED
        BY <1>2, <2>2, <3>1, PlusAdds DEF LedgerInv
    <2> QED
      BY <2>1, <2>2 DEF FlushFails
  <1>4. LedgerShape' /\ ExitFlushed'
    BY <1>1, <1>2, <1>3 DEF LedgerShape, ExitFlushed
  <1>5. LedgerCounts'
    <2> SUFFICES ASSUME NEW r \in ModelRuns
                 PROVE  /\ ~Recorded(r) => Outcome(r) \notin buffer /\ written'[Outcome(r)] = 0
                        /\ Recorded(r) => Outcome(r) \in buffer \/ written'[Outcome(r)] > 0
                        /\ Outcome(r) \in buffer => written'[Outcome(r)] <= MaxFailedFlushes - budget'.faults
                        /\ written'[Outcome(r)] <= 1 + MaxFailedFlushes - budget'.faults
      BY <1>2 DEF LedgerCounts, SameRecorded, Outcome
    <2>1. Outcome(r) \in Events /\ written[Outcome(r)] \in Nat
      BY OutcomesAreEvents DEF LedgerInv, LedgerShape
    <2>2. \/ written'[Outcome(r)] = written[Outcome(r)]
          \/ Outcome(r) \in buffer /\ written'[Outcome(r)] = written[Outcome(r)] + 1
      BY <1>3, <2>1
    <2> QED
      BY <1>1, <2>1, <2>2 DEF LedgerInv, LedgerCounts
  <1> QED
    BY <1>4, <1>5 DEF LedgerInv, SameRecorded

\* A scheduled flush fails, and the one of the exit hook does not.
LEMMA FailedThenFlushedKeeps ==
  ASSUME LedgerInv, SameRecorded, budget.faults >= 1, budget' = Spend, buffer' = {},
         NEW usage \in SUBSET buffer,
         written' = [e \in DOMAIN written |-> Plus(buffer)[e] + IF e \in usage THEN 1 ELSE 0]
  PROVE  LedgerInv'
  <1>1. /\ budget.faults \in 0..MaxFailedFlushes /\ MaxFailedFlushes \in Nat
        /\ budget' = [faults |-> budget'.faults, changes |-> budget'.changes]
        /\ budget'.faults = budget.faults - 1
        /\ buffer \in SUBSET Events /\ DOMAIN written = Events /\ \A e \in Events : written[e] \in Nat
    BY CallsAssumption DEF LedgerInv, LedgerShape, Spend
  <1>2. \A e \in Events : Plus(buffer)[e] = written[e] + IF e \in buffer THEN 1 ELSE 0
    BY <1>1, PlusAdds DEF LedgerInv
  <1>3. /\ written' \in [Events -> Nat]
        /\ \A e \in Events : /\ e \in buffer => written'[e] \in {written[e] + 1, written[e] + 2}
                             /\ e \notin buffer => written'[e] = written[e]
    BY <1>1, <1>2
  <1>4. LedgerShape' /\ ExitFlushed'
    BY <1>1, <1>3 DEF LedgerShape, ExitFlushed
  <1>5. LedgerCounts'
    <2> SUFFICES ASSUME NEW r \in ModelRuns
                 PROVE  /\ ~Recorded(r) => written'[Outcome(r)] = 0
                        /\ Recorded(r) => written'[Outcome(r)] > 0
                        /\ written'[Outcome(r)] <= 1 + MaxFailedFlushes - budget'.faults
      BY DEF LedgerCounts, SameRecorded, Outcome
    <2>1. Outcome(r) \in Events /\ written[Outcome(r)] \in Nat
      BY OutcomesAreEvents DEF LedgerInv, LedgerShape
    <2>2. CASE Outcome(r) \in buffer
      BY <1>1, <1>3, <2>1, <2>2 DEF LedgerInv, LedgerCounts
    <2>3. CASE Outcome(r) \notin buffer
      BY <1>1, <1>3, <2>1, <2>3 DEF LedgerInv, LedgerCounts
    <2> QED
      BY <2>2, <2>3
  <1> QED
    BY <1>4, <1>5 DEF LedgerInv, SameRecorded

\* The warning of a legacy helper is no outcome.
LEMMA WarnKeeps ==
  ASSUME LedgerInv, SameRecorded, Up, UNCHANGED budget, NEW r \in ModelRuns, NEW routed, Warn(r, routed)
  PROVE  LedgerInv'
  <1>0. Up' /\ UNCHANGED <<written, process>>
    BY DEF Warn, ledgerVars, Up
  <1>1. buffer \subseteq buffer' /\ buffer' \subseteq buffer \cup {<<f, r, "warning">> : f \in Files}
    BY DEF Warn, Record, ledgerVars
  <1>2. \A s : Outcome(s) \in buffer' <=> Outcome(s) \in buffer
    BY <1>1 DEF Outcome
  <1>3. LedgerShape' /\ ExitFlushed'
    BY <1>0, <1>1 DEF LedgerInv, LedgerShape, ExitFlushed, Events
  <1>4. LedgerCounts'
    BY <1>0, <1>2 DEF LedgerInv, LedgerCounts, SameRecorded, Outcome
  <1> QED
    BY <1>3, <1>4 DEF LedgerInv, SameRecorded

\* The outcome of a run is recorded with its end.
LEMMA RecordKeeps ==
  ASSUME LedgerInv, Up, UNCHANGED <<written, process, budget>>, NEW r \in ModelRuns, ~Recorded(r),
         NEW billable, Record(r, "outcome", billable),
         NEW how \in {"done", "failed"}, NEW billed, End(r, how, billed)
  PROVE  LedgerInv'
  <1>1. /\ RunsShape' /\ Recorded(r)'
        /\ \A s \in ModelRuns : s # r => (Recorded(s)' <=> Recorded(s))
    BY EndSteps, BecomesRecords DEF LedgerInv
  <1>2. /\ buffer \subseteq buffer' /\ buffer' \subseteq buffer \cup {<<f, r, "outcome">> : f \in Files}
        /\ Outcome(r) \in buffer'
    BY DEF Record, Files, Outcome
  <1>3. \A s : s # r => (Outcome(s) \in buffer' <=> Outcome(s) \in buffer)
    BY <1>2 DEF Outcome
  <1>4. LedgerShape' /\ ExitFlushed'
    BY <1>2 DEF LedgerInv, LedgerShape, ExitFlushed, Events, Up
  <1>5. LedgerCounts'
    <2> SUFFICES ASSUME NEW s \in ModelRuns
                 PROVE  /\ ~Recorded(s)' => Outcome(s) \notin buffer' /\ written[Outcome(s)] = 0
                        /\ Recorded(s)' => Outcome(s) \in buffer' \/ written[Outcome(s)] > 0
                        /\ Outcome(s) \in buffer' => written[Outcome(s)] <= MaxFailedFlushes - budget.faults
                        /\ written[Outcome(s)] <= 1 + MaxFailedFlushes - budget.faults
      BY DEF LedgerCounts, Outcome
    <2>1. CASE s = r
      <3>1. written[Outcome(r)] = 0 /\ budget.faults \in 0..MaxFailedFlushes /\ MaxFailedFlushes \in Nat
        BY CallsAssumption DEF LedgerInv, LedgerCounts, LedgerShape
      <3> QED
        BY <2>1, <1>1, <1>2, <3>1
    <2>2. CASE s # r
      BY <2>2, <1>1, <1>3 DEF LedgerInv, LedgerCounts
    <2> QED
      BY <2>1, <2>2
  <1> QED
    BY <1>1, <1>4, <1>5 DEF LedgerInv

LEMMA RunStepKeepsLedger ==
  ASSUME LedgerInv, NEW r \in ModelRuns, RunStep(r)
  PROVE  LedgerInv'
  <1>0. RunsShape /\ LedgerShape /\ Up /\ Up' /\ UNCHANGED process
    <2>1. RunsShape /\ LedgerShape
      BY DEF LedgerInv
    <2>2. CASE BeginCall(r)
      BY <2>1, <2>2 DEF BeginCall, Warn, ledgerVars, Up
    <2>3. CASE Discovered(r) \/ Rescanned(r) \/ DeadlinePasses(r) \/ NoCandidate(r)
      BY <2>1, <2>3 DEF Discovered, Rescanned, NoCandidate, DeadlinePasses, ledgerVars, Up
    <2>4. CASE Start(r) \/ Blocked(r)
      BY <2>1, <2>4 DEF Start, Blocked, Up
    <2>5. CASE Answerless(r)
      BY <2>1, <2>5 DEF Answerless, ledgerVars, Up
    <2>6. CASE Succeed(r) \/ Notified(r)
      BY <2>1, <2>6 DEF Succeed, Notified, Up
    <2> QED
      BY <2>2, <2>3, <2>4, <2>5, <2>6 DEF RunStep
  <1>0a. ASSUME NEW x, NEW p, Becomes(r, x, p), p \notin {"done", "failed"}, ~Recorded(r)
         PROVE  SameRecorded
    BY <1>0, <1>0a, BecomesRecords DEF SameRecorded
  <1>0b. UNCHANGED budget => budget'.faults = budget.faults
                             /\ budget' = [faults |-> budget'.faults, changes |-> budget'.changes]
    BY <1>0 DEF LedgerShape
  <1>1. CASE BeginCall(r)
    <2>1. PICK routed : Warn(r, routed)
      BY <1>1 DEF BeginCall
    <2>2. UNCHANGED budget /\ ~Recorded(r)
      BY <1>1 DEF BeginCall, Recorded
    <2>3. SameRecorded
      BY <1>0, <1>0a, <1>1, <2>2, BeginSteps DEF Begins
    <2> QED
      BY <1>0, <2>1, <2>2, <2>3, WarnKeeps
  <1>2. CASE Discovered(r)
    <2>1. SameRecorded
      BY <1>0, <1>0a, <1>2, DiscoveredSteps DEF Discovered, Recorded
    <2> QED
      BY <1>0b, <1>2, <2>1, QuietKeeps DEF Discovered, ledgerVars
  <1>3. CASE Start(r)
    <2>1. SameRecorded
      BY <1>0, <1>0a, <1>3, StartSteps DEF Recorded
    <2>2. UNCHANGED <<buffer, written>> \/ FlushOk
      BY <1>3 DEF Start, ReadSummary
    <2>3. UNCHANGED <<budget, process>>
      BY <1>3 DEF Start
    <2> QED
      BY <1>0b, <2>1, <2>2, <2>3, QuietKeeps, FlushKeeps
  <1>4. CASE Blocked(r)
    <2>1. Fails(r, "fatal") /\ ~Recorded(r)
      BY <1>4 DEF Blocked, Recorded
    <2>2. SameRecorded
      BY <1>0, <1>0a, <2>1, FailsSteps
    <2>3. \/ UNCHANGED <<buffer, written, budget>>
          \/ FlushOk /\ UNCHANGED budget
          \/ FlushFails(1) /\ budget' = Spend
      BY <1>4 DEF Blocked, ReadSummary
    <2> QED
      BY <1>0, <1>0b, <2>2, <2>3, QuietKeeps, FlushKeeps, FailedFlushKeeps DEF Spend
  <1>5. CASE Succeed(r)
    <2>1. \E billed : Record(r, "outcome", billed) /\ End(r, "done", billed)
      BY <1>5 DEF Succeed
    <2>2. ~Recorded(r) /\ UNCHANGED <<written, process, budget>>
      BY <1>5 DEF Succeed, Recorded
    <2> QED
      BY <1>0, <2>1, <2>2, RecordKeeps
  <1>6. CASE Answerless(r)
    <2>1. PICK kind : Fails(r, kind)
      BY <1>6 DEF Answerless
    <2>2. SameRecorded
      BY <1>0, <1>0a, <1>6, <2>1, FailsSteps DEF Answerless, Recorded
    <2> QED
      BY <1>0b, <1>6, <2>2, QuietKeeps DEF Answerless, ledgerVars
  <1>7. CASE NoCandidate(r)
    <2>1. End(r, "refused", FALSE) /\ ~Recorded(r)
      BY <1>7 DEF NoCandidate, Recorded
    <2>2. SameRecorded
      BY <1>0a, <2>1, EndSteps
    <2> QED
      BY <1>0b, <1>7, <2>2, QuietKeeps DEF NoCandidate, ledgerVars
  <1>8. CASE Rescanned(r)
    <2>1. PICK retry : Move(r, retry)
      BY <1>8 DEF Rescanned
    <2>2. SameRecorded
      BY <1>0, <1>0a, <1>8, <2>1, MoveSteps DEF Rescanned, Recorded
    <2> QED
      BY <1>0b, <1>8, <2>2, QuietKeeps DEF Rescanned, ledgerVars
  <1>9. CASE Notified(r)
    <2>1. \E billed : Record(r, "outcome", billed)
      BY <1>9 DEF Notified
    <2>2. ~Recorded(r) /\ UNCHANGED <<written, process, budget>> /\ End(r, "failed", FALSE)
      BY <1>9 DEF Notified, Recorded
    <2> QED
      BY <1>0, <2>1, <2>2, RecordKeeps
  <1>10. CASE DeadlinePasses(r)
    <2>1. SameRecorded
      BY <1>0, <1>0a, <1>10, DeadlineSteps DEF DeadlinePasses, Recorded
    <2> QED
      BY <1>0b, <1>10, <2>1, QuietKeeps DEF DeadlinePasses, ledgerVars
  <1> QED
    BY <1>1, <1>2, <1>3, <1>4, <1>5, <1>6, <1>7, <1>8, <1>9, <1>10 DEF RunStep

LEMMA LedgerNext == LedgerInv /\ [CallsNext]_callVars => LedgerInv'
  <1> SUFFICES ASSUME LedgerInv, [CallsNext]_callVars PROVE LedgerInv'
    OBVIOUS
  <1>0. UNCHANGED <<stage, run>> => SameRecorded
    BY DEF LedgerInv, RunsShape, RunShape, SameRecorded, Recorded
  <1>1. CASE \E r \in ModelRuns : RunStep(r)
    BY <1>1, RunStepKeepsLedger
  <1>2. CASE ScheduledFlush
    BY <1>0, <1>2, FlushKeeps DEF ScheduledFlush
  <1>3. CASE ScheduledFlushFails
    <2>1. SameRecorded
      BY <1>0, <1>3 DEF ScheduledFlushFails
    <2>2. CASE FlushFails(2) /\ budget' = [budget EXCEPT !.faults = @ - 2]
      BY <2>1, <2>2, FailedFlushKeeps
    <2>3. CASE /\ budget.faults >= 1 /\ budget' = Spend /\ buffer' = {}
               /\ \E usage \in {{}, IF Lines("activity") = {} THEN {} ELSE Lines("usage")} :
                    written' = [e \in DOMAIN written |-> Plus(buffer)[e] + IF e \in usage THEN 1 ELSE 0]
      <3>1. PICK usage \in {{}, IF Lines("activity") = {} THEN {} ELSE Lines("usage")} :
                    written' = [e \in DOMAIN written |-> Plus(buffer)[e] + IF e \in usage THEN 1 ELSE 0]
        BY <2>3
      <3>2. usage \in SUBSET buffer
        BY DEF Lines
      <3> QED
        BY <2>1, <2>3, <3>1, <3>2, FailedThenFlushedKeeps
    <2> QED
      BY <1>3, <2>2, <2>3 DEF ScheduledFlushFails
  <1>4. CASE Exit \/ Signal
    <2>1. SameRecorded
      BY <1>0, <1>4 DEF Exit, Signal
    <2>2. HookFlush
      BY <1>4 DEF Exit, Signal
    <2> QED
      BY <2>1, <2>2, FlushKeeps, FailedFlushKeeps DEF HookFlush, Spend
  <1>5. CASE SummaryExpires
    <2>1. SameRecorded /\ UNCHANGED <<buffer, written, process, budget>>
      BY <1>0, <1>5 DEF SummaryExpires, ledgerVars
    <2> QED
      BY <2>1, QuietKeeps DEF LedgerInv, LedgerShape
  <1>6. CASE OthersChangeEligible
    <2>1. SameRecorded /\ UNCHANGED <<buffer, written, process>> /\ budget' = [budget EXCEPT !.changes = @ - 1]
      BY <1>0, <1>6 DEF OthersChangeEligible, ledgerVars
    <2>2. budget = [faults |-> budget.faults, changes |-> budget.changes]
      BY DEF LedgerInv, LedgerShape
    <2>3. budget'.faults = budget.faults /\ budget' = [faults |-> budget'.faults, changes |-> budget'.changes]
      BY <2>1, <2>2
    <2> QED
      BY <2>1, <2>3, QuietKeeps
  <1>7. CASE UNCHANGED callVars
    <2>1. SameRecorded /\ UNCHANGED <<buffer, written, process, budget>>
      BY <1>0, <1>7 DEF callVars
    <2> QED
      BY <2>1, QuietKeeps DEF LedgerInv, LedgerShape
  <1> QED
    BY <1>1, <1>2, <1>3, <1>4, <1>5, <1>6, <1>7 DEF CallsNext

LEMMA LedgerStarts == CallsInit => LedgerInv
  <1> SUFFICES ASSUME CallsInit PROVE LedgerInv
    OBVIOUS
  <1>1. /\ buffer = {} /\ written = [e \in Events |-> 0] /\ Up
        /\ budget = [faults |-> MaxFailedFlushes, changes |-> MaxChanges] /\ \A r \in ModelRuns : stage[r] = "idle"
    BY DEF CallsInit, Events, Up
  <1>2. LedgerShape /\ ExitFlushed /\ RunsShape
    BY <1>1, RunsStart, CallsAssumption DEF LedgerShape, ExitFlushed
  <1>3. LedgerCounts
    BY <1>1, OutcomesAreEvents, CallsAssumption DEF LedgerCounts, Recorded
  <1> QED
    BY <1>2, <1>3 DEF LedgerInv

LEMMA LedgerKeepsEvents == LedgerInv => EventsKept
  <1> SUFFICES ASSUME LedgerInv, NEW r \in ModelRuns, stage[r] \in {"done", "failed"}
               PROVE  /\ written[Outcome(r)] > 0 \/ Outcome(r) \in buffer
                      /\ written[Outcome(r)] <= 1 + MaxFailedFlushes - budget.faults
                      /\ ~Up /\ budget.faults = MaxFailedFlushes => written[Outcome(r)] = 1
    BY DEF EventsKept, Outcome
  <1>1. Recorded(r) /\ written[Outcome(r)] \in Nat /\ budget.faults \in 0..MaxFailedFlushes /\ MaxFailedFlushes \in Nat
    BY OutcomesAreEvents, CallsAssumption DEF Recorded, LedgerInv, LedgerShape
  <1> QED
    BY <1>1 DEF LedgerInv, LedgerCounts, ExitFlushed

\* The outcome of every run is in its ledger file or still buffered, written at
\* most once more than flushes failed, and a process that exits with its
\* flushes intact leaves it there exactly once: one half of SpendIsCounted
\* (flushBufferedWrites, the exit hooks of myos-usage-ledger.js).
THEOREM EventsAlwaysKept == CallsSpec => []EventsKept
  BY LedgerStarts, LedgerNext, LedgerKeepsEvents, PTL DEF CallsSpec

-----------------------------------------------------------------------------
(* The cap. *)

\* The cost read before a model is asked, cached or not, covers the runs paid for.
CacheCovers == \A cost \in summary : cost \in Nat /\ Cardinality(Paid) <= cost

\* What a step that ends no run with a bill does to the cache.
CacheFits ==
    \/ summary' \in {summary, {}}
    \/ summary = {} /\ FlushOk /\ summary' = {Cost(written')}

LEMMA PaidIsFinite == IsFiniteSet(Paid) /\ Cardinality(Paid) \in Nat
  <1>1. IsFiniteSet(Paid)
    BY CallsAssumption, FS_Subset DEF Paid
  <1> QED
    BY <1>1, FS_CardinalityType

\* A ledger that has a line of every run paid for costs as many at least.
LEMMA CostCovers ==
  ASSUME NEW w \in [Events -> Nat], NEW most \in Nat, \A r \in ModelRuns : w[Outcome(r)] <= most,
         \A r \in Paid : w[Outcome(r)] > 0
  PROVE  Cost(w) \in Nat /\ Cardinality(Paid) <= Cost(w)
  <1>0. \A r \in ModelRuns : w[Outcome(r)] \in Nat
    BY OutcomesAreEvents
  <1>1. BilledLines(w) \subseteq ModelRuns \X (1..most)
    <2> SUFFICES ASSUME NEW r \in ModelRuns, NEW line \in {r} \X (1..w[Outcome(r)])
                 PROVE  line \in ModelRuns \X (1..most)
      BY DEF BilledLines, Outcome
    <2>1. w[Outcome(r)] \in Nat /\ w[Outcome(r)] <= most
      BY <1>0
    <2>2. 1..w[Outcome(r)] \subseteq 1..most
      BY <2>1
    <2> QED
      BY <2>2
  <1>2. IsFiniteSet(ModelRuns \X (1..most))
    <2>1. IsFiniteSet(1..most)
      BY FS_Interval
    <2> QED
      BY <2>1, CallsAssumption, FS_Product
  <1>3. IsFiniteSet(BilledLines(w)) /\ Cost(w) \in Nat
    BY <1>1, <1>2, FS_Subset, FS_CardinalityType DEF Cost
  <1>4. Paid \X {1} \subseteq BilledLines(w)
    BY <1>0 DEF BilledLines, Outcome, Paid
  <1>5. Cardinality(Paid \X {1}) = Cardinality(Paid) * 1
    <2>1. IsFiniteSet({1}) /\ Cardinality({1}) = 1
      BY FS_Singleton
    <2> QED
      BY <2>1, PaidIsFinite, FS_Product
  <1>6. Cardinality(Paid \X {1}) <= Cost(w)
    BY <1>3, <1>4, FS_Subset DEF Cost
  <1> QED
    BY <1>3, <1>5, <1>6, PaidIsFinite

\* After a flush that ended well the ledger has them all.
LEMMA FlushedCost ==
  ASSUME LedgerInv, LedgerInv', FlushOk
  PROVE  Cost(written') \in Nat /\ Cardinality(Paid) <= Cost(written')
  <1>1. written' \in [Events -> Nat] /\ MaxFailedFlushes \in Nat /\ budget'.faults \in 0..MaxFailedFlushes
    BY CallsAssumption DEF LedgerInv, LedgerShape
  <1>2. \A r \in ModelRuns : written'[Outcome(r)] \in Nat
    BY <1>1, OutcomesAreEvents
  <1>3. \A r \in ModelRuns : written'[Outcome(r)] <= 1 + MaxFailedFlushes
    <2>1. \A r \in ModelRuns : written'[Outcome(r)] <= 1 + MaxFailedFlushes - budget'.faults
      BY DEF LedgerInv, LedgerCounts, Outcome
    <2> QED
      BY <1>1, <1>2, <2>1
  <1>4. ASSUME NEW r \in Paid PROVE written'[Outcome(r)] > 0
    <2>1. r \in ModelRuns /\ Recorded(r) /\ Outcome(r) \in Events
      BY OutcomesAreEvents DEF Paid, Recorded
    <2>2. Outcome(r) \in buffer \/ written[Outcome(r)] > 0
      BY <2>1 DEF LedgerInv, LedgerCounts
    <2>3. written'[Outcome(r)] = written[Outcome(r)] + IF Outcome(r) \in buffer THEN 1 ELSE 0
      BY <2>1, PlusAdds DEF LedgerInv, LedgerShape, FlushOk
    <2>4. written[Outcome(r)] \in Nat
      BY <2>1 DEF LedgerInv, LedgerShape
    <2> QED
      BY <2>2, <2>3, <2>4
  <1> QED
    BY <1>1, <1>3, <1>4, CostCovers

\* What a run that reads the summary is told.
LEMMA ReadCovers ==
  ASSUME LedgerInv, LedgerInv', CacheCovers, NEW cost, ReadSummary(cost)
  PROVE  /\ cost \in Nat /\ Cardinality(Paid) <= cost
         /\ summary' = {cost}
  BY FlushedCost DEF ReadSummary, CacheCovers

LEMMA CoversStays ==
  ASSUME LedgerInv, LedgerInv', CacheCovers, CacheFits, Paid' \subseteq Paid \/ summary' = {}
  PROVE  CacheCovers'
  <1>1. ASSUME NEW cost \in summary' PROVE cost \in Nat /\ Cardinality(Paid) <= cost
    BY <1>1, FlushedCost DEF CacheFits, CacheCovers
  <1>2. CASE summary' = {}
    BY <1>2 DEF CacheCovers
  <1>3. CASE Paid' \subseteq Paid
    <2>1. IsFiniteSet(Paid') /\ Cardinality(Paid') \in Nat /\ Cardinality(Paid') <= Cardinality(Paid)
      BY <1>3, PaidIsFinite, FS_Subset, FS_CardinalityType
    <2> QED
      BY <1>1, <2>1, PaidIsFinite DEF CacheCovers
  <1> QED
    BY <1>2, <1>3

\* A step that does not end its run with an answer pays for none.
LEMMA BecomesPays ==
  ASSUME RunsShape, NEW r \in ModelRuns, NEW x, NEW p, Becomes(r, x, p), p # "done"
  PROVE  Paid' \subseteq Paid
  BY BecomesWhat DEF Paid

LEMMA RunStepCovers ==
  ASSUME LedgerInv, LedgerInv', CacheCovers, NEW r \in ModelRuns, RunStep(r)
  PROVE  CacheCovers' /\ CapSeesFinished
  <1>0. RunsShape
    BY DEF LedgerInv
  <1>1. ASSUME NEW x, NEW p, Becomes(r, x, p), p # "provider" \/ stage[r] = p PROVE CapSeesFinished
    BY <1>0, <1>1, BecomesWhat DEF CapSeesFinished
  <1>2. ASSUME UNCHANGED summary, NEW x, NEW p, Becomes(r, x, p), p # "done", p # "provider" \/ stage[r] = p
        PROVE  CacheCovers' /\ CapSeesFinished
    <2>1. Paid' \subseteq Paid
      BY <1>0, <1>2, BecomesPays
    <2> QED
      BY <1>1, <1>2, <2>1, CoversStays DEF CacheFits
  <1>3. CASE BeginCall(r)
    <2>1. \E x, p : Becomes(r, x, p) /\ p \in {"refused", "attempt", "discover"}
      BY <1>0, <1>3, BeginSteps DEF Begins
    <2>2. UNCHANGED summary
      BY <1>3 DEF BeginCall
    <2> QED
      BY <1>2, <2>1, <2>2
  <1>4. CASE Discovered(r)
    BY <1>0, <1>2, <1>4, DiscoveredSteps DEF Discovered
  <1>5. CASE Start(r)
    <2>1. PICK x : Becomes(r, x, "provider")
      BY <1>0, <1>5, StartSteps
    <2>2. Paid' \subseteq Paid
      BY <1>0, <2>1, BecomesPays
    <2>3. UNCHANGED summary \/ \E cost : ReadSummary(cost)
      BY <1>5 DEF Start
    <2>4. CacheCovers'
      BY <2>2, <2>3, CoversStays DEF CacheFits, ReadSummary
    <2>5. ASSUME NEW s \in ModelRuns, stage[s] = "attempt", stage'[s] = "provider", Model(Head(run[s].cands))
          PROVE  Cardinality(Paid) + 1 <= Cap
      <3>1. s = r
        BY <1>0, <2>1, <2>5, BecomesWhat
      <3>2. PICK cost \in Costs : ReadSummary(cost) /\ cost + 1 <= Cap
        BY <1>5, <2>5, <3>1 DEF Start
      <3>3. cost \in Nat /\ Cardinality(Paid) <= cost
        BY <3>2, ReadCovers
      <3> QED
        BY <3>2, <3>3, PaidIsFinite, CallsAssumption
    <2> QED
      BY <2>4, <2>5 DEF CapSeesFinished
  <1>6. CASE Blocked(r)
    <2>1. PICK x, p : Becomes(r, x, p) /\ p \in {"attempt", "notify", "rescan"}
      BY <1>0, <1>6, FailsSteps DEF Blocked
    <2>2. Paid' \subseteq Paid
      BY <1>0, <2>1, BecomesPays
    <2>3. UNCHANGED summary \/ \E cost : ReadSummary(cost)
      BY <1>6 DEF Blocked
    <2>4. CacheCovers'
      BY <2>2, <2>3, CoversStays DEF CacheFits, ReadSummary
    <2> QED
      BY <1>1, <2>1, <2>4
  <1>7. CASE Succeed(r) \/ Notified(r)
    <2>1. PICK x, p : Becomes(r, x, p) /\ p \in {"done", "failed"}
      BY <1>7, EndSteps DEF Succeed, Notified
    <2>2. summary' = {}
      BY <1>7 DEF Succeed, Notified
    <2> QED
      BY <1>1, <2>1, <2>2 DEF CacheCovers
  <1>8. CASE Answerless(r)
    <2>1. UNCHANGED summary /\ \E kind : Fails(r, kind)
      BY <1>8 DEF Answerless
    <2> QED
      BY <1>0, <1>2, <2>1, FailsSteps
  <1>9. CASE NoCandidate(r)
    <2>1. UNCHANGED summary /\ \E x : Becomes(r, x, "refused")
      BY <1>9, EndSteps DEF NoCandidate
    <2> QED
      BY <1>2, <2>1
  <1>10. CASE Rescanned(r)
    <2>1. UNCHANGED summary /\ \E retry : Move(r, retry)
      BY <1>10 DEF Rescanned
    <2> QED
      BY <1>0, <1>2, <2>1, MoveSteps
  <1>11. CASE DeadlinePasses(r)
    <2>1. UNCHANGED summary /\ stage[r] # "done"
      BY <1>11 DEF DeadlinePasses
    <2> QED
      BY <1>0, <1>2, <1>11, <2>1, DeadlineSteps
  <1> QED
    BY <1>3, <1>4, <1>5, <1>6, <1>7, <1>8, <1>9, <1>10, <1>11 DEF RunStep

LEMMA CapNext ==
  ASSUME LedgerInv, LedgerInv', CacheCovers, [CallsNext]_callVars
  PROVE  CacheCovers' /\ CapSeesFinished
  <1>1. CASE \E r \in ModelRuns : RunStep(r)
    BY <1>1, RunStepCovers
  <1>2. CASE ~\E r \in ModelRuns : RunStep(r)
    <2>1. UNCHANGED <<stage, run>> /\ (UNCHANGED summary \/ summary' = {})
      BY <1>2 DEF CallsNext, callVars, ScheduledFlush, ScheduledFlushFails, Exit, Signal, SummaryExpires,
         OthersChangeEligible
    <2>2. Paid' = Paid
      BY <2>1 DEF Paid
    <2> QED
      BY <2>1, <2>2, CoversStays DEF CacheFits, CapSeesFinished
  <1> QED
    BY <1>1, <1>2

\* What calls cost is neither lost by the ledger nor missed by the cap, however
\* the ledger is buffered, cached or retried (readSpendSummaryCached and
\* enforceDailyCaps of llm-call.js, flushUsageEventsSync of the ledger).
THEOREM SpendIsAlwaysCounted == CallsSpec => SpendIsCounted
  <1>1. CallsInit => LedgerInv /\ CacheCovers
    BY LedgerStarts DEF CallsInit, CacheCovers
  <1>2. LedgerInv /\ CacheCovers /\ [CallsNext]_callVars => (LedgerInv /\ CacheCovers)'
    BY LedgerNext, CapNext
  <1>3. LedgerInv' => EventsKept'
    BY LedgerKeepsEvents, PTL
  <1>4. LedgerInv /\ CacheCovers /\ [CallsNext]_callVars => CapSeesFinished /\ EventsKept'
    BY <1>3, LedgerNext, CapNext
  <1> QED
    BY <1>1, <1>2, <1>4, PTL DEF CallsSpec, SpendIsCounted

----------------------------------------------------------------------------
(***************************************************************************)
(* The sidecars of the prompt hooks, for any prompts, plans, roles that    *)
(* deliver, caps and number of failures: no result is shown twice but for  *)
(* a spoiled save, the cap is passed by the lanes of dead hooks at most,   *)
(* what is shown is whole, and what is marked was shown or lost with its   *)
(* hook.                                                                   *)
(***************************************************************************)

\* Where a hook holds a copy of the manifest that may say more than the file.
Copying == Saving \cup {"spawning"}
\* Where it has not started a lane yet, and where it has results to show.
Early == {"begin", "marking", "markOpen", "planning"}
Reporting == HookPlaces \ (HookOver \cup {"begin"})

\* A manifest, and a hook.
Manifests == [is : {"absent", "torn", "whole"}, delivered : SUBSET HookLanes, dispatched : SUBSET Sidecars]
HookStates == [prompt : {0} \cup Prompts, at : HookPlaces, ready : SUBSET Sidecars, copy : Manifests,
    lanes : Seq(HookLanes)]

HookShape ==
    /\ HookTypeOK
    /\ hook \in HookStates
    /\ trouble \in [spoiled : Nat, died : Nat, dropped : SUBSET HookLanes]

\* What the manifest says, or will say if nothing goes wrong.
Told == IF hook.at \in Copying THEN hook.copy ELSE Loaded
LanesReady == {r[2] : r \in hook.ready}

CopyFits ==
    /\ hook.at \in Copying => hook.copy.is = "whole"
    /\ hook.at = "marking" =>
         /\ hook.copy.dispatched = Loaded.dispatched
         /\ hook.copy.delivered = Loaded.delivered \cup LanesReady
         /\ LanesReady \cap Loaded.delivered = {}
    /\ hook.at \in {"spawning", "recording"} => hook.copy.delivered = Loaded.delivered
    /\ hook.at \in {"markOpen", "recordOpen"} => Loaded.delivered = {}

\* The results a hook shows are whole, of earlier prompts, and one per lane.
ReadyFits ==
    /\ \A r, q \in hook.ready : r[2] = q[2] => r = q
    /\ \A r \in hook.ready : sidecar[r] = "wrote" /\ r[1] < hook.prompt
    /\ hook.at = "begin" => hook.ready = {}
    /\ \A l \in HookLanes : result[l].whole => result[l].by \in Prompts /\ sidecar[<<result[l].by, l>>] = "wrote"

\* A lane is started by its hook, once.
RunsFit ==
    /\ hook.prompt = 0 => hook.at \in HookOver
    /\ \A r \in Sidecars : sidecar[r] # "none" =>
         r[1] <= hook.prompt /\ (hook.at \in Early => r[1] < hook.prompt)
    /\ hook.at = "spawning" =>
         /\ hook.lanes # <<>>
         /\ \A i \in 1..Len(hook.lanes) : sidecar[<<hook.prompt, hook.lanes[i]>>] = "none"
         /\ \A i, j \in 1..Len(hook.lanes) : hook.lanes[i] = hook.lanes[j] => i = j

\* A lane was reported once, but for spoiled saves, if it is marked, and not
\* at all otherwise.
ShownOf(l) == {s \in shown : s[2][2] = l}
ReportsCount ==
    \A l \in HookLanes :
        /\ IsFiniteSet(ShownOf(l))
        /\ Cardinality(ShownOf(l)) + Flag(hook.at \in Reporting /\ l \in LanesReady)
             <= trouble.spoiled + Flag(l \in Told.delivered)

Accounted(l) ==
    \/ l \in trouble.dropped
    \/ \E s \in shown : s[2][2] = l
    \/ hook.at \notin HookOver /\ l \in LanesReady

MarksKnown == \A l \in Loaded.delivered \cup Told.delivered : Accounted(l)

\* While every save succeeds: what was started and will not be recorded is lost
\* with hooks that died, and what is recorded leaves room for what is to come.
Started == {r \in Sidecars : sidecar[r] # "none"}
Coming == IF hook.at = "spawning" THEN Len(hook.lanes) ELSE 0
Own == hook.copy.dispatched \ Loaded.dispatched

\* The copy of a hook that starts lanes: what the file says, and lanes of its
\* own prompt, two at most with those to come.
SpawnsFit ==
    hook.at \in {"spawning", "recording"} =>
        /\ Loaded.dispatched \subseteq hook.copy.dispatched
        /\ \A r \in Own : r[1] = hook.prompt
        /\ Cardinality(Own) + Coming <= LanesPerPrompt

FilesAreFinite == IsFiniteSet(manifest.dispatched) /\ IsFiniteSet(hook.copy.dispatched) /\ IsFiniteSet(Started)

RunsCount ==
    trouble.spoiled = 0 =>
        /\ manifest.is = "torn" => hook.at \in {"markOpen", "recordOpen"}
        /\ Cardinality(Started \ Told.dispatched) <= LanesPerPrompt * trouble.died
        /\ Cardinality(Recent(Told.dispatched)) + Coming <= HourlyCap
        /\ SpawnsFit

\* The inductive invariant.
HookInv ==
    /\ HookShape /\ CopyFits /\ ReadyFits /\ RunsFit
    /\ ReportsAreWhole /\ ReportsCount /\ MarksKnown /\ FilesAreFinite /\ RunsCount

\* What the gate lets through is a sequence of lanes of the plan, none twice.
LEMMA GatedLanes ==
    ASSUME NEW p \in LanePlans, NEW lanes \in Gated(p)
    PROVE  /\ lanes \in Seq(HookLanes)
           /\ \A i, j \in 1..Len(lanes) : lanes[i] = lanes[j] => i = j
<1> DEFINE kept == {i \in 1..Len(p) : p[i] \in Deliverable}
           count == IF Cardinality(kept) < LanesPerPrompt THEN Cardinality(kept) ELSE LanesPerPrompt
           Before(n) == {i \in kept : i < n}
<1>1. p \in Seq(HookLanes) /\ LanesPerPrompt \in Nat /\ Len(p) \in Nat
  BY HookAssumption
<1>2. count \in Nat
  <2>1. IsFiniteSet(1..Len(p))
    BY <1>1, FS_Interval
  <2>2. Cardinality(kept) \in Nat
    BY <2>1, FS_Subset, FS_CardinalityType
  <2> QED BY <1>1, <2>2
<1>3. PICK f \in [1..count -> kept] :
        /\ \A k \in 1..count : Cardinality(Before(f[k])) = k - 1
        /\ lanes = [k \in 1..count |-> p[f[k]]]
  BY DEF Gated
<1>4. \A k \in 1..count : f[k] \in 1..Len(p)
  BY <1>3
<1> HIDE DEF count, kept, Before
<1>5. lanes \in Seq(HookLanes) /\ Len(lanes) = count
  <2>1. \A k \in 1..count : p[f[k]] \in HookLanes
    BY <1>1, <1>4, ElementOfSeq
  <2>2. lanes \in [1..count -> HookLanes]
    BY <1>3, <2>1
  <2> QED BY <1>2, <2>2, IsASeq, LenProperties
<1>6. ASSUME NEW i \in 1..count, NEW j \in 1..count, lanes[i] = lanes[j] PROVE i = j
  <2>1. p[f[i]] = p[f[j]]
    BY <1>3, <1>6
  <2>2. DOMAIN p = 1..Len(p)
    BY <1>1
  <2>3. f[i] = f[j]
    BY <1>4, <2>1, <2>2, HookAssumption
  <2>4. i - 1 = j - 1
    BY <1>3, <2>3
  <2> QED BY <1>2, <2>4
<1> QED BY <1>5, <1>6

\* The first n lanes, cut off at the end of the plan.
LEMMA ChosenLanes ==
    ASSUME NEW lanes \in Seq(HookLanes), NEW n \in Nat,
           \A i, j \in 1..Len(lanes) : lanes[i] = lanes[j] => i = j
    PROVE  LET chosen == SubSeq(lanes, 1, IF Len(lanes) < n THEN Len(lanes) ELSE n)
           IN  /\ chosen \in Seq(HookLanes) /\ Len(chosen) <= n
               /\ \A i, j \in 1..Len(chosen) : chosen[i] = chosen[j] => i = j
<1> DEFINE m == IF Len(lanes) < n THEN Len(lanes) ELSE n
           chosen == SubSeq(lanes, 1, m)
<1>1. m \in Nat /\ m <= n /\ m <= Len(lanes) /\ Len(lanes) \in Nat
  BY LenProperties
<1> HIDE DEF m
<1>2. chosen \in Seq(HookLanes) /\ Len(chosen) = m
  <2>1. \A i \in 1..m : lanes[i] \in HookLanes
    BY <1>1, ElementOfSeq
  <2> QED BY <1>1, <2>1, SubSeqProperties
<1>3. \A i \in 1..m : chosen[i] = lanes[i]
  BY <1>1, SubSeqProperties
<1>4. \A i, j \in 1..m : chosen[i] = chosen[j] => i = j
  BY <1>1, <1>3
<1> QED BY <1>1, <1>2, <1>4 DEF m

\* The allowance leaves the count of the hour within the cap.
LEMMA AllowanceFacts ==
    ASSUME NEW copy, IsFiniteSet(copy.dispatched)
    PROVE  /\ Allowance(copy) \in Nat /\ Allowance(copy) <= LanesPerPrompt
           /\ IsFiniteSet(Recent(copy.dispatched)) /\ Cardinality(Recent(copy.dispatched)) \in Nat
           /\ Cardinality(Recent(copy.dispatched)) <= HourlyCap
                => Cardinality(Recent(copy.dispatched)) + Allowance(copy) <= HourlyCap
<1>1. LanesPerPrompt \in Nat /\ HourlyCap \in Nat
  BY HookAssumption
<1>2. Recent(copy.dispatched) \in SUBSET copy.dispatched
  BY DEF Recent
<1>3. IsFiniteSet(Recent(copy.dispatched)) /\ Cardinality(Recent(copy.dispatched)) \in Nat
  BY <1>2, FS_Subset, FS_CardinalityType
<1> QED BY <1>1, <1>3 DEF Allowance

\* The lanes a hook goes on to start fit the allowance.
LEMMA PlannedLanes ==
    ASSUME FilesAreFinite, NEW lanes \in {<<>>} \cup UNION {Gated(p) : p \in LanePlans}
    PROVE  LET allowed == Allowance(Loaded)
               chosen == SubSeq(lanes, 1, IF Len(lanes) < allowed THEN Len(lanes) ELSE allowed)
           IN  /\ chosen \in Seq(HookLanes) /\ Len(chosen) <= allowed
               /\ \A i, j \in 1..Len(chosen) : chosen[i] = chosen[j] => i = j
<1>1. lanes \in Seq(HookLanes) /\ \A i, j \in 1..Len(lanes) : lanes[i] = lanes[j] => i = j
  <2>1. CASE lanes = <<>>
    BY <2>1, EmptySeq
  <2>2. CASE lanes \in UNION {Gated(p) : p \in LanePlans}
    <3>1. PICK p \in LanePlans : lanes \in Gated(p)
      BY <2>2
    <3> QED BY <3>1, GatedLanes
  <2> QED BY <2>1, <2>2
<1>2. Allowance(Loaded) \in Nat
  <2>1. IsFiniteSet(Loaded.dispatched)
    BY FS_EmptySet DEF Loaded, FilesAreFinite, Empty
  <2> QED BY <2>1, AllowanceFacts
<1> QED BY <1>1, <1>2, ChosenLanes

\* What a hook reads is a whole manifest, and the one of the file if it parses.
LEMMA LoadedFacts ==
    ASSUME HookShape
    PROVE  /\ manifest \in Manifests /\ Loaded \in Manifests /\ Told \in Manifests /\ hook.copy \in Manifests
           /\ Loaded.is = "whole"
           /\ manifest.is = "whole" => Loaded = manifest
           /\ manifest.is # "whole" => Loaded.delivered = {} /\ Loaded.dispatched = {}
<1>1. manifest \in Manifests /\ hook.copy \in Manifests
  BY DEF HookShape, HookTypeOK, Manifests, HookStates
<1>2. /\ Loaded \in Manifests /\ Loaded.is = "whole"
      /\ manifest.is = "whole" => Loaded = manifest
      /\ manifest.is # "whole" => Loaded.delivered = {} /\ Loaded.dispatched = {}
  BY <1>1 DEF Loaded, Empty, Manifests
<1> QED BY <1>1, <1>2 DEF Told

\* Results that are ready are whole, one per lane, unmarked, and of earlier
\* prompts.
LEMMA ReadyFacts ==
    ASSUME HookShape, ReadyFits, RunsFit, hook.at = "begin"
    PROVE  /\ Ready \subseteq Sidecars
           /\ \A r, q \in Ready : r[2] = q[2] => r = q
           /\ \A r \in Ready : r[2] \in HookLanes /\ r[2] \notin Loaded.delivered
           /\ \A r \in Ready : sidecar[r] = "wrote" /\ r[1] < hook.prompt
<1>1. \A r \in Ready : r \in Sidecars /\ result[r[2]] = [by |-> r[1], whole |-> TRUE] /\ r[2] \notin Loaded.delivered
  BY DEF Ready
<1>2. \A r \in Sidecars : r = <<r[1], r[2]>> /\ r[2] \in HookLanes
  BY DEF Sidecars
<1>3. ASSUME NEW r \in Ready PROVE result[r[2]].by = r[1] /\ result[r[2]].whole = TRUE
  <2>1. result[r[2]] = [by |-> r[1], whole |-> TRUE]
    BY <1>1
  <2> QED BY <2>1
<1>4. ASSUME NEW r \in Ready PROVE sidecar[r] = "wrote"
  <2>1. r[2] \in HookLanes /\ r = <<r[1], r[2]>>
    BY <1>1, <1>2
  <2>2. result[r[2]].by = r[1] /\ result[r[2]].whole
    BY <1>3
  <2>3. sidecar[<<result[r[2]].by, r[2]>>] = "wrote"
    BY <2>1, <2>2 DEF ReadyFits
  <2> QED BY <2>1, <2>2, <2>3
<1>5. \A r \in Ready : r[1] < hook.prompt
  BY <1>1, <1>4 DEF RunsFit, Early
<1>6. ASSUME NEW r \in Ready, NEW q \in Ready, r[2] = q[2] PROVE r = q
  <2>1. r[1] = q[1]
    <3>1. result[r[2]].by = r[1]
      BY <1>3
    <3>2. result[q[2]].by = q[1]
      BY <1>3
    <3>3. result[r[2]].by = result[q[2]].by
      BY <1>6
    <3> QED BY <3>1, <3>2, <3>3
  <2>2. r = <<r[1], r[2]>> /\ q = <<q[1], q[2]>>
    BY <1>1, <1>2
  <2> QED BY <1>6, <2>1, <2>2
<1> QED BY <1>1, <1>2, <1>4, <1>5, <1>6

\* The sidecars and the clock, which leave the hook and its manifest alone.
Aside == (\E r \in Sidecars : StartWriting(r) \/ EndWriting(r) \/ Vanish(r)) \/ HourPasses

\* Every step keeps the shape.
LEMMA ShapeStays == HookShape /\ HookInv /\ HookNext => HookShape'
<1> SUFFICES ASSUME HookShape, HookInv, HookNext PROVE HookShape'
  OBVIOUS
<1> USE DEF HookInv
<1>1. /\ manifest \in Manifests /\ Loaded \in Manifests /\ hook \in HookStates /\ Loaded.is = "whole"
      /\ {MaxPrompts, LanesPerPrompt, HourlyCap, MaxTrouble} \subseteq Nat
  BY LoadedFacts, HookAssumption DEF HookShape
<1>2. HookShape <=>
        /\ manifest \in Manifests /\ hook \in HookStates
        /\ trouble \in [spoiled : Nat, died : Nat, dropped : SUBSET HookLanes]
        /\ result \in [HookLanes -> [by : {0} \cup Prompts, whole : BOOLEAN]]
        /\ sidecar \in [Sidecars -> {"none", "running", "writing", "wrote", "gone"}]
        /\ shown \subseteq Prompts \X Sidecars /\ aged \in {0} \cup Prompts
        /\ trouble.spoiled + trouble.died <= MaxTrouble
  BY DEF HookShape, HookTypeOK, HookStates, Manifests
<1>3. (HookShape <=>
        /\ manifest \in Manifests /\ hook \in HookStates
        /\ trouble \in [spoiled : Nat, died : Nat, dropped : SUBSET HookLanes]
        /\ result \in [HookLanes -> [by : {0} \cup Prompts, whole : BOOLEAN]]
        /\ sidecar \in [Sidecars -> {"none", "running", "writing", "wrote", "gone"}]
        /\ shown \subseteq Prompts \X Sidecars /\ aged \in {0} \cup Prompts
        /\ trouble.spoiled + trouble.died <= MaxTrouble)'
  BY DEF HookShape, HookTypeOK, HookStates, Manifests
<1>4. CASE Submit
  <2>1. hook.prompt + 1 \in Prompts
    BY <1>1, <1>4 DEF Submit, HookStates, Prompts
  <2>2. hook' \in HookStates
    BY <1>4, <2>1, EmptySeq DEF Submit, HookStates, HookPlaces, Manifests, Empty
  <2> QED BY <1>2, <1>3, <1>4, <2>2 DEF Submit
<1>5. CASE Collect
  <2>1. Ready \subseteq Sidecars /\ \A r \in Ready : r[2] \in HookLanes
    BY <1>5, ReadyFacts DEF Collect
  <2>2. [Loaded EXCEPT !.delivered = @ \cup {r[2] : r \in Ready}] \in Manifests
    BY <1>1, <2>1 DEF Manifests
  <2>3. hook' \in HookStates
    BY <1>1, <1>5, <2>1, <2>2 DEF Collect, HookStates, HookPlaces, Saving
  <2> QED BY <1>2, <1>3, <1>5, <2>3 DEF Collect
<1>6. CASE OpenManifest
  <2>1. hook' \in HookStates
    BY <1>1, <1>6 DEF OpenManifest, HookStates, HookPlaces, Saving
  <2> QED BY <1>2, <1>3, <1>6, <2>1 DEF OpenManifest, TornManifest, Empty, Manifests
<1>7. CASE FillManifest
  <2>1. hook' \in HookStates /\ hook.copy \in Manifests
    BY <1>1, <1>7 DEF FillManifest, HookStates, HookPlaces, After
  <2> QED BY <1>2, <1>3, <1>7, <2>1 DEF FillManifest
<1>8. CASE SaveFails
  <2>1. hook' \in HookStates
    BY <1>1, <1>8 DEF SaveFails, HookStates, HookPlaces, After
  <2>2. trouble' \in [spoiled : Nat, died : Nat,
      dropped : SUBSET HookLanes] /\ trouble'.spoiled + trouble'.died <= MaxTrouble
    BY <1>1, <1>2, <1>8 DEF SaveFails, Troubled
  <2> QED BY <1>2, <1>3, <1>8, <2>1, <2>2 DEF SaveFails
<1>9. CASE Plan
  <2>1. PICK lanes \in {<<>>} \cup UNION {Gated(p) : p \in LanePlans} :
          LET allowed == Allowance(Loaded)
              chosen == SubSeq(lanes, 1, IF Len(lanes) < allowed THEN Len(lanes) ELSE allowed)
          IN hook' = [hook EXCEPT !.lanes = chosen, !.copy = Loaded,
                                  !.at = IF chosen = <<>> THEN "answering" ELSE "spawning"]
    BY <1>9 DEF Plan
  <2>4. SubSeq(lanes, 1, IF Len(lanes) < Allowance(Loaded) THEN Len(lanes) ELSE Allowance(Loaded)) \in Seq(HookLanes)
    BY PlannedLanes
  <2>5. hook' \in HookStates
    BY <1>1, <2>1, <2>4 DEF HookStates, HookPlaces
  <2> QED BY <1>2, <1>3, <1>9, <2>5 DEF Plan
<1>10. CASE PlanThrows
  <2>1. hook' \in HookStates
    BY <1>1, <1>10 DEF PlanThrows, HookStates, HookPlaces, HookOver
  <2>2. {r[2] : r \in hook.ready} \subseteq HookLanes
    BY <1>1 DEF HookStates, Sidecars
  <2>3. trouble' \in [spoiled : Nat, died : Nat,
      dropped : SUBSET HookLanes] /\ trouble'.spoiled + trouble'.died <= MaxTrouble
    <3> DEFINE more == trouble.dropped \cup {r[2] : r \in hook.ready}
    <3>1. more \subseteq HookLanes /\ trouble.spoiled \in Nat /\ trouble.died \in Nat
      BY <1>2, <2>2
    <3>2. trouble' = [trouble EXCEPT !.died = @ + 1, !.dropped = more] /\ ~Troubled
      BY <1>10 DEF PlanThrows
    <3> HIDE DEF more
    <3>3. trouble.spoiled + trouble.died < MaxTrouble
      BY <1>1, <3>1, <3>2 DEF Troubled
    <3>4. trouble \in [spoiled : Nat, died : Nat, dropped : SUBSET HookLanes]
      BY <1>2
    <3>5. trouble'.spoiled = trouble.spoiled /\ trouble'.died = trouble.died + 1 /\ trouble'.dropped = more
      BY <3>2, <3>4
    <3>6. trouble' \in [spoiled : Nat, died : Nat, dropped : SUBSET HookLanes]
      <4>1. trouble' = [spoiled |-> trouble.spoiled, died |-> trouble.died + 1, dropped |-> more]
        BY <3>2, <3>4
      <4>2. trouble.died + 1 \in Nat
        BY <3>1
      <4> QED BY <3>1, <4>1, <4>2
    <3> QED BY <1>1, <3>1, <3>3, <3>5, <3>6
  <2> QED BY <1>2, <1>3, <1>10, <2>1, <2>3 DEF PlanThrows
<1>11. CASE SpawnLane
  <2>1. hook.lanes \in Seq(HookLanes) /\ hook.lanes # <<>>
    BY <1>1, <1>11 DEF SpawnLane, RunsFit, HookStates
  <2>2. Head(hook.lanes) \in HookLanes /\ Tail(hook.lanes) \in Seq(HookLanes)
    BY <2>1, HeadTailProperties
  <2>3. hook.prompt \in Prompts
    BY <1>1, <1>11 DEF SpawnLane, RunsFit, HookOver, HookStates
  <2> DEFINE starting == <<hook.prompt, Head(hook.lanes)>>
             copy == [hook.copy EXCEPT !.dispatched = @ \cup {starting}]
  <2>4. starting \in Sidecars /\ copy \in Manifests
    BY <1>1, <2>2, <2>3 DEF Sidecars, Manifests, HookStates
  <2>5. Spawned(copy, Tail(hook.lanes)) \in HookPlaces
    BY DEF Spawned, HookPlaces, Saving
  <2>6. /\ sidecar' = [sidecar EXCEPT ![starting] = "running"]
        /\ hook' = [hook EXCEPT !.lanes = Tail(@), !.copy = copy, !.at = Spawned(copy, Tail(hook.lanes))]
        /\ UNCHANGED <<manifest, result, shown, aged, trouble>>
    BY <1>11 DEF SpawnLane
  <2> HIDE DEF starting, copy
  <2>7. hook' \in HookStates
    BY <1>1, <2>2, <2>4, <2>5, <2>6 DEF HookStates
  <2> QED BY <1>2, <1>3, <2>4, <2>6, <2>7
<1>12. CASE SpawnFails
  <2>1. hook.lanes \in Seq(HookLanes) /\ hook.lanes # <<>>
    BY <1>1, <1>12 DEF SpawnFails, RunsFit, HookStates
  <2>2. Tail(hook.lanes) \in Seq(HookLanes)
    BY <2>1, HeadTailProperties
  <2>3. Spawned(hook.copy, Tail(hook.lanes)) \in HookPlaces
    BY DEF Spawned, HookPlaces, Saving
  <2>4. hook' \in HookStates
    BY <1>1, <1>12, <2>2, <2>3 DEF SpawnFails, HookStates
  <2> QED BY <1>2, <1>3, <1>12, <2>4 DEF SpawnFails
<1>13. CASE Answer
  <2>1. hook' \in HookStates
    BY <1>1, <1>13 DEF Answer, HookStates, HookPlaces, HookOver
  <2>2. hook.prompt \in Prompts /\ hook.ready \subseteq Sidecars
    BY <1>1, <1>13 DEF Answer, RunsFit, HookOver, HookStates
  <2> QED BY <1>2, <1>3, <1>13, <2>1, <2>2 DEF Answer
<1>14. CASE HookKilled
  <2>1. hook' \in HookStates
    BY <1>1, <1>14 DEF HookKilled, HookStates, HookPlaces, HookOver
  <2>2. {r[2] : r \in IF hook.at \in {"begin", "marking", "markOpen"} THEN {} ELSE hook.ready} \subseteq HookLanes
    BY <1>1 DEF HookStates, Sidecars
  <2>3. trouble' \in [spoiled : Nat, died : Nat,
      dropped : SUBSET HookLanes] /\ trouble'.spoiled + trouble'.died <= MaxTrouble
    BY <1>1, <1>2, <1>14, <2>2 DEF HookKilled, Troubled
  <2> QED BY <1>2, <1>3, <1>14, <2>1, <2>3 DEF HookKilled
<1>15. CASE Aside
  <2>1. ASSUME NEW r \in Sidecars, StartWriting(r) \/ EndWriting(r) \/ Vanish(r) PROVE HookShape'
    <3>1. r[1] \in Prompts /\ r[2] \in HookLanes
      BY DEF Sidecars
    <3>2. UNCHANGED <<manifest, hook, shown, aged, trouble>>
      BY <2>1 DEF StartWriting, EndWriting, Vanish
    <3>3. /\ result' \in [HookLanes -> [by : {0} \cup Prompts, whole : BOOLEAN]]
          /\ sidecar' \in [Sidecars -> {"none", "running", "writing", "wrote", "gone"}]
      <4>1. CASE StartWriting(r)
        BY <1>2, <3>1, <4>1 DEF StartWriting
      <4>2. CASE EndWriting(r)
        <5>1. PICK whole \in BOOLEAN : result' = [result EXCEPT ![r[2]] = [by |-> r[1], whole |-> whole]]
          BY <4>2 DEF EndWriting
        <5> QED BY <1>2, <3>1, <4>2, <5>1 DEF EndWriting
      <4>3. CASE Vanish(r)
        BY <1>2, <3>1, <4>3 DEF Vanish
      <4> QED BY <2>1, <4>1, <4>2, <4>3
    <3> QED BY <1>2, <1>3, <3>2, <3>3
  <2>2. CASE HourPasses
    <3>1. aged' \in {0} \cup Prompts
      <4>1. hook.prompt \in {0} \cup Prompts /\ aged \in {0} \cup Prompts
        BY <1>1, <1>2 DEF HookStates
      <4>2. aged < hook.prompt /\ aged' = aged + 1
        BY <2>2 DEF HourPasses
      <4>3. MaxPrompts \in Nat
        BY HookAssumption
      <4> QED BY <4>1, <4>2, <4>3 DEF Prompts
    <3> QED BY <1>2, <1>3, <2>2, <3>1 DEF HourPasses
  <2> QED BY <1>15, <2>1, <2>2 DEF Aside
<1> QED BY <1>4, <1>5, <1>6, <1>7, <1>8, <1>9, <1>10, <1>11, <1>12, <1>13, <1>14, <1>15 DEF HookNext, Aside

\* A lane was started, or could not be.
LEMMA SpawnFacts ==
    ASSUME HookShape, SpawnLane \/ SpawnFails
    PROVE  /\ hook.at = "spawning" /\ hook'.at \in {"spawning", "recording", "answering"}
           /\ hook'.ready = hook.ready /\ hook'.prompt = hook.prompt /\ UNCHANGED <<manifest, shown, trouble, aged>>
           /\ hook'.copy.is = hook.copy.is /\ hook'.copy.delivered = hook.copy.delivered
           /\ Loaded' = Loaded
<1>1. hook \in HookStates /\ hook.copy \in Manifests
  BY DEF HookShape, HookStates
<1>2. CASE SpawnLane
  <2>1. hook.at = "spawning" /\ UNCHANGED <<manifest, shown, trouble, aged>>
    BY <1>2 DEF SpawnLane
  <2>2. \E d : hook' = [hook EXCEPT !.lanes = Tail(@), !.copy = [hook.copy EXCEPT !.dispatched = d],
                                   !.at = Spawned([hook.copy EXCEPT !.dispatched = d], Tail(hook.lanes))]
    BY <1>2 DEF SpawnLane
  <2>3. PICK d : hook' = [hook EXCEPT !.lanes = Tail(@), !.copy = [hook.copy EXCEPT !.dispatched = d],
                                     !.at = Spawned([hook.copy EXCEPT !.dispatched = d], Tail(hook.lanes))]
    BY <2>2
  <2>4. hook'.copy = [hook.copy EXCEPT !.dispatched = d] /\ hook'.ready = hook.ready /\ hook'.prompt = hook.prompt
    BY <1>1, <2>3 DEF HookStates
  <2>5. hook'.at \in {"spawning", "recording", "answering"}
    BY <1>1, <2>3 DEF HookStates, Spawned
  <2> QED BY <1>1, <2>1, <2>4, <2>5 DEF Manifests, Loaded
<1>3. CASE SpawnFails
  BY <1>1, <1>3 DEF SpawnFails, Spawned, HookStates, Loaded
<1> QED BY <1>2, <1>3

\* What a copy of the manifest says of marks agrees with the file.
LEMMA CopyStays == HookInv /\ HookNext => CopyFits'
<1> SUFFICES ASSUME HookInv, HookNext PROVE CopyFits'
  OBVIOUS
<1>1. HookShape /\ CopyFits /\ ReadyFits /\ RunsFit /\ Loaded.is = "whole" /\ hook \in HookStates
  BY LoadedFacts DEF HookInv, HookShape
<1> USE DEF CopyFits, Copying, Saving
<1>2. CASE Submit
  BY <1>2 DEF Submit
<1>3. CASE Collect
  <2>1. \A r \in Ready : r[2] \notin Loaded.delivered
    BY <1>1, <1>3, ReadyFacts DEF Collect
  <2> DEFINE lanes == {r[2] : r \in Ready}
             copy == [Loaded EXCEPT !.delivered = @ \cup lanes]
  <2>2. hook' = [hook EXCEPT !.ready = Ready, !.copy = copy, !.at = IF Ready = {} THEN "planning" ELSE "marking"]
    BY <1>3 DEF Collect
  <2>3. hook'.at \in {"planning", "marking"} /\ hook'.copy = copy /\ hook'.ready = Ready
    BY <1>1, <2>2 DEF HookStates
  <2>4. LanesReady' = lanes /\ Loaded' = Loaded
    BY <1>3, <2>3 DEF LanesReady, Collect, Loaded
  <2>5. copy.is = "whole" /\ copy.dispatched = Loaded.dispatched /\ copy.delivered = Loaded.delivered \cup lanes
    BY <1>1, LoadedFacts DEF Manifests
  <2> QED BY <2>1, <2>3, <2>4, <2>5
<1>4. CASE OpenManifest
  <2>1. hook'.at \in {"markOpen", "recordOpen"} /\ hook'.copy = hook.copy /\ manifest' = TornManifest
    BY <1>1, <1>4 DEF OpenManifest, HookStates
  <2>2. Loaded'.delivered = {}
    BY <2>1 DEF Loaded, TornManifest, Empty
  <2> QED BY <1>1, <1>4, <2>1, <2>2 DEF OpenManifest
<1>5. CASE FillManifest \/ SaveFails
  BY <1>1, <1>5 DEF FillManifest, SaveFails, After, HookStates
<1>6. CASE Plan
  BY <1>1, <1>6 DEF Plan, HookStates, Loaded
<1>7. CASE PlanThrows \/ Answer \/ HookKilled
  BY <1>1, <1>7 DEF PlanThrows, Answer, HookKilled, HookStates
<1>8. CASE SpawnLane
  <2>1. /\ Loaded' = Loaded /\ hook'.at \in {"spawning", "recording", "answering"}
        /\ hook'.copy.is = hook.copy.is /\ hook'.copy.delivered = hook.copy.delivered /\ hook.at = "spawning"
    BY <1>1, <1>8 DEF SpawnLane, Spawned, HookStates, Loaded, Manifests
  <2> QED BY <1>1, <2>1
<1>9. CASE SpawnFails
  BY <1>1, <1>9 DEF SpawnFails, Spawned, HookStates, Loaded
<1>10. CASE Aside
  BY <1>1, <1>10 DEF Aside, StartWriting, EndWriting, Vanish, HourPasses, Loaded, LanesReady
<1> QED BY <1>2, <1>3, <1>4, <1>5, <1>6, <1>7, <1>8, <1>9, <1>10 DEF HookNext, Aside

\* What is ready stays whole: a sidecar that wrote does nothing more, and no
\* later one of the lane is taken for it.
LEMMA ReadyStays == HookInv /\ HookNext => ReadyFits'
<1> SUFFICES ASSUME HookInv, HookNext PROVE ReadyFits'
  OBVIOUS
<1>1. HookShape /\ ReadyFits /\ RunsFit /\ hook \in HookStates
  BY DEF HookInv, HookShape
<1>2. CASE Collect
  <2>1. hook'.ready = Ready /\ hook'.at # "begin" /\ hook'.prompt = hook.prompt /\ UNCHANGED <<sidecar, result>>
    BY <1>1, <1>2 DEF Collect, HookStates
  <2>2. /\ \A r, q \in Ready : r[2] = q[2] => r = q
        /\ \A r \in Ready : sidecar[r] = "wrote" /\ r[1] < hook.prompt
    BY <1>1, <1>2, ReadyFacts DEF Collect
  <2> QED BY <1>1, <2>1, <2>2 DEF ReadyFits
<1>3. CASE Submit
  BY <1>1, <1>3 DEF Submit, ReadyFits
<1>4. ASSUME UNCHANGED <<result, sidecar>>, hook'.ready = hook.ready, hook'.prompt = hook.prompt,
             hook'.at # "begin"
      PROVE  ReadyFits'
  BY <1>1, <1>4 DEF ReadyFits
<1>5. CASE OpenManifest \/ FillManifest \/ SaveFails \/ Plan \/ PlanThrows \/ SpawnFails \/ Answer \/ HookKilled
  <2>1. UNCHANGED <<result, sidecar>> /\ hook'.ready = hook.ready /\ hook'.prompt = hook.prompt
    BY <1>1, <1>5
        DEF OpenManifest, FillManifest, SaveFails, Plan, PlanThrows, SpawnFails, Answer, HookKilled, HookStates
  <2>2. hook'.at # "begin"
    BY <1>1, <1>5
        DEF OpenManifest, FillManifest, SaveFails, Plan, PlanThrows, SpawnFails, Answer, HookKilled, HookStates,
            After, Spawned
  <2> QED BY <1>4, <2>1, <2>2
<1>6. ASSUME NEW r \in Sidecars, sidecar[r] # "wrote", UNCHANGED hook,
             \A q \in Sidecars \ {r} : sidecar'[q] = sidecar[q],
             \A l \in HookLanes :
                \/ result'[l] = result[l]
                \/ l = r[2] /\ (result'[l].whole => result'[l].by = r[1] /\ sidecar'[r] = "wrote")
      PROVE  ReadyFits'
  <2>1. r = <<r[1], r[2]>> /\ r[1] \in Prompts
    BY DEF Sidecars
  <2>2. \A q \in hook.ready : q \in Sidecars /\ q # r
    BY <1>1, <1>6 DEF ReadyFits, HookStates
  <2>3. ASSUME NEW l \in HookLanes, result'[l].whole
        PROVE  result'[l].by \in Prompts /\ sidecar'[<<result'[l].by, l>>] = "wrote"
    <3>1. CASE result'[l] = result[l]
      <4>1. result[l].by \in Prompts /\ sidecar[<<result[l].by, l>>] = "wrote"
        BY <1>1, <2>3, <3>1 DEF ReadyFits
      <4>2. <<result[l].by, l>> \in Sidecars /\ <<result[l].by, l>> # r
        BY <1>6, <4>1 DEF Sidecars
      <4> QED BY <1>6, <3>1, <4>1, <4>2
    <3>2. CASE l = r[2] /\ result'[l].by = r[1] /\ sidecar'[r] = "wrote"
      BY <2>1, <3>2
    <3> QED BY <1>6, <2>3, <3>1, <3>2
  <2> QED BY <1>1, <1>6, <2>2, <2>3 DEF ReadyFits
<1>7. ASSUME NEW r \in Sidecars, StartWriting(r) \/ EndWriting(r) \/ Vanish(r) PROVE ReadyFits'
  <2>1. r[1] \in Prompts /\ r[2] \in HookLanes
    BY DEF Sidecars
  <2>2. /\ sidecar \in [Sidecars -> {"none", "running", "writing", "wrote", "gone"}]
        /\ result \in [HookLanes -> [by : {0} \cup Prompts, whole : BOOLEAN]]
    BY <1>1 DEF HookShape, HookTypeOK
  <2>3. UNCHANGED hook /\ sidecar[r] # "wrote" /\ \A q \in Sidecars \ {r} : sidecar'[q] = sidecar[q]
    BY <1>7, <2>2 DEF StartWriting, EndWriting, Vanish
  <2>4. ASSUME NEW l \in HookLanes
        PROVE  \/ result'[l] = result[l]
               \/ l = r[2] /\ (result'[l].whole => result'[l].by = r[1] /\ sidecar'[r] = "wrote")
    <3>1. CASE StartWriting(r)
      BY <2>1, <2>2, <3>1 DEF StartWriting
    <3>2. CASE EndWriting(r)
      <4>1. PICK whole \in BOOLEAN : result' = [result EXCEPT ![r[2]] = [by |-> r[1], whole |-> whole]]
        BY <3>2 DEF EndWriting
      <4> QED BY <2>1, <2>2, <3>2, <4>1 DEF EndWriting
    <3>3. CASE Vanish(r)
      BY <3>3 DEF Vanish
    <3> QED BY <1>7, <3>1, <3>2, <3>3
  <2> QED BY <1>6, <2>3, <2>4
<1>8. CASE HourPasses
  BY <1>1, <1>8 DEF HourPasses, ReadyFits
<1>9. CASE SpawnLane
  <2> DEFINE starting == <<hook.prompt, Head(hook.lanes)>>
  <2>1. hook.lanes \in Seq(HookLanes) /\ hook.lanes # <<>> /\ sidecar[<<hook.prompt, hook.lanes[1]>>] = "none"
    <3>1. hook.lanes \in Seq(HookLanes) /\ hook.lanes # <<>>
      BY <1>1, <1>9 DEF SpawnLane, RunsFit, HookStates
    <3>2. 1 \in 1..Len(hook.lanes)
      BY <3>1, LenProperties, EmptySeq
    <3> QED BY <1>1, <1>9, <3>1, <3>2 DEF SpawnLane, RunsFit
  <2>2. sidecar[starting] = "none"
    BY <2>1, HeadTailProperties
  <2>3. /\ sidecar' = [sidecar EXCEPT ![starting] = "running"] /\ result' = result
        /\ hook'.ready = hook.ready /\ hook'.prompt = hook.prompt /\ hook'.at # "begin"
    BY <1>1, <1>9 DEF SpawnLane, HookStates, Spawned
  <2>4. sidecar \in [Sidecars -> {"none", "running", "writing", "wrote", "gone"}]
    BY <1>1 DEF HookShape, HookTypeOK
  <2>5. \A r \in Sidecars : sidecar[r] = "wrote" => sidecar'[r] = "wrote"
    BY <2>2, <2>3, <2>4
  <2>6. \A r \in hook.ready : r \in Sidecars
    BY <1>1 DEF HookStates
  <2>7. \A l \in HookLanes : result[l].by \in Prompts => <<result[l].by, l>> \in Sidecars
    BY DEF Sidecars
  <2> QED BY <1>1, <2>3, <2>5, <2>6, <2>7 DEF ReadyFits
<1> QED BY <1>2, <1>3, <1>5, <1>7, <1>8, <1>9 DEF HookNext

\* A lane that is still to come has not been started by this prompt.
LEMMA RunsStay == HookInv /\ HookNext => RunsFit'
<1> SUFFICES ASSUME HookInv, HookNext PROVE RunsFit'
  OBVIOUS
<1>1. HookShape /\ RunsFit /\ hook \in HookStates /\ {MaxPrompts} \subseteq Nat
  BY HookAssumption DEF HookInv, HookShape
<1>2. /\ sidecar \in [Sidecars -> {"none", "running", "writing", "wrote", "gone"}]
      /\ \A r \in Sidecars : r[1] \in Nat
  BY <1>1 DEF HookShape, HookTypeOK, Sidecars, Prompts
<1>3. CASE Submit
  <2>1. \A r \in Sidecars : sidecar[r] # "none" => r[1] < hook.prompt + 1
    BY <1>1, <1>2 DEF RunsFit, HookStates, Prompts
  <2> QED BY <1>1, <1>2, <1>3, <2>1 DEF Submit, RunsFit, HookStates, Prompts
<1>4. ASSUME UNCHANGED sidecar, hook'.prompt = hook.prompt, hook'.at # "spawning",
             hook.at \in HookOver => hook'.at \in HookOver, hook'.at \in Early => hook.at \in Early
      PROVE  RunsFit'
  BY <1>1, <1>4 DEF RunsFit
<1>5. CASE Collect \/ OpenManifest \/ FillManifest \/ SaveFails \/ PlanThrows \/ Answer \/ HookKilled
  <2>1. UNCHANGED sidecar /\ hook'.prompt = hook.prompt /\ hook.at \notin HookOver
    BY <1>1, <1>5
        DEF Collect, OpenManifest, FillManifest, SaveFails, PlanThrows, Answer, HookKilled, HookStates, HookOver,
            Saving
  <2>2. hook'.at # "spawning" /\ (hook'.at \in Early => hook.at \in Early)
    BY <1>1, <1>5
        DEF Collect, OpenManifest, FillManifest, SaveFails, PlanThrows, Answer, HookKilled, HookStates, After,
            Early, Saving
  <2> QED BY <1>4, <2>1, <2>2
<1>6. CASE Plan
  <2>1. PICK lanes \in {<<>>} \cup UNION {Gated(p) : p \in LanePlans} :
          LET allowed == Allowance(Loaded)
              chosen == SubSeq(lanes, 1, IF Len(lanes) < allowed THEN Len(lanes) ELSE allowed)
          IN hook' = [hook EXCEPT !.lanes = chosen, !.copy = Loaded,
                                  !.at = IF chosen = <<>> THEN "answering" ELSE "spawning"]
    BY <1>6 DEF Plan
  <2> DEFINE chosen == SubSeq(lanes, 1, IF Len(lanes) < Allowance(Loaded) THEN Len(lanes) ELSE Allowance(Loaded))
  <2>2. chosen \in Seq(HookLanes) /\ \A i, j \in 1..Len(chosen) : chosen[i] = chosen[j] => i = j
    BY PlannedLanes DEF HookInv
  <2>3. hook' = [hook EXCEPT !.lanes = chosen, !.copy = Loaded,
      !.at = IF chosen = <<>> THEN "answering" ELSE "spawning"]
    BY <2>1
  <2> HIDE DEF chosen
  <2>4. /\ hook'.prompt = hook.prompt /\ hook'.lanes = chosen /\ hook'.at \in {"answering", "spawning"}
        /\ hook'.at = "spawning" => chosen # <<>>
    BY <1>1, <2>3 DEF HookStates
  <2>5. hook.at = "planning" /\ UNCHANGED sidecar
    BY <1>6 DEF Plan
  <2>6. hook.prompt \in Prompts
    BY <1>1, <2>5 DEF RunsFit, HookOver, HookStates
  <2>7. \A i \in 1..Len(chosen) : <<hook.prompt, chosen[i]>> \in Sidecars
    BY <2>2, <2>6, ElementOfSeq DEF Sidecars
  <2>8. \A i \in 1..Len(chosen) : sidecar[<<hook.prompt, chosen[i]>>] = "none"
    <3> SUFFICES ASSUME NEW i \in 1..Len(chosen) PROVE sidecar[<<hook.prompt, chosen[i]>>] = "none"
      OBVIOUS
    <3>1. ~(hook.prompt < hook.prompt) /\ <<hook.prompt, chosen[i]>>[1] = hook.prompt
      BY <2>6 DEF Prompts
    <3> QED BY <1>1, <2>5, <2>7, <3>1 DEF RunsFit, Early
  <2> QED BY <1>1, <2>2, <2>4, <2>5, <2>8 DEF RunsFit, Early, HookOver
<1>7. ASSUME hook.at = "spawning", hook'.prompt = hook.prompt, hook'.lanes = Tail(hook.lanes),
             hook'.at \in {"spawning", "recording", "answering"}, hook'.at = "spawning" => Tail(hook.lanes) # <<>>,
             NEW starting \in Sidecars, starting = <<hook.prompt, hook.lanes[1]>>,
             \A r \in Sidecars \ {starting} : sidecar'[r] = sidecar[r]
      PROVE  RunsFit'
  <2> DEFINE rest == Tail(hook.lanes)
  <2>1. /\ hook.lanes \in Seq(HookLanes) /\ hook.lanes # <<>> /\ hook.prompt \in Prompts
        /\ \A i \in 1..Len(hook.lanes) : sidecar[<<hook.prompt, hook.lanes[i]>>] = "none"
        /\ \A i, j \in 1..Len(hook.lanes) : hook.lanes[i] = hook.lanes[j] => i = j
    BY <1>1, <1>7 DEF RunsFit, HookStates, HookOver
  <2>2. /\ rest \in Seq(HookLanes) /\ Len(rest) = Len(hook.lanes) - 1 /\ Len(rest) \in Nat
        /\ \A i \in 1..Len(rest) : rest[i] = hook.lanes[i + 1]
    BY <2>1, HeadTailProperties, LenProperties
  <2> HIDE DEF rest
  <2>3. \A i \in 1..Len(rest) : i + 1 \in 1..Len(hook.lanes) /\ 1 \in 1..Len(hook.lanes) /\ i + 1 # 1
    BY <2>2
  <2>4. ASSUME NEW i \in 1..Len(rest) PROVE sidecar'[<<hook.prompt, rest[i]>>] = "none"
    <3>1. rest[i] # hook.lanes[1] /\ rest[i] \in HookLanes
      BY <2>1, <2>2, <2>3, ElementOfSeq
    <3>2. <<hook.prompt, rest[i]>> \in Sidecars \ {starting}
      BY <1>7, <2>1, <3>1 DEF Sidecars
    <3> QED BY <1>7, <2>1, <2>2, <2>3, <3>2
  <2>5. ASSUME NEW i \in 1..Len(rest), NEW j \in 1..Len(rest), rest[i] = rest[j] PROVE i = j
    <3>1. i + 1 = j + 1
      BY <2>1, <2>2, <2>3, <2>5
    <3> QED BY <2>2, <3>1
  <2>6. \A r \in Sidecars : sidecar'[r] # "none" => r[1] <= hook.prompt
    <3>1. starting[1] = hook.prompt /\ hook.prompt <= hook.prompt
      BY <1>7, <2>1 DEF Prompts
    <3> QED BY <1>1, <1>7, <3>1 DEF RunsFit
  <2>7. hook'.lanes = rest /\ hook'.at \notin Early /\ hook.prompt # 0
    BY <1>1, <1>7 DEF rest, Early, RunsFit, HookOver
  <2>8. hook'.at = "spawning" => rest # <<>>
    BY <1>7 DEF rest
  <2> QED BY <1>7, <2>4, <2>5, <2>6, <2>7, <2>8 DEF RunsFit
<1>8. CASE SpawnLane \/ SpawnFails
  <2>1. hook.at = "spawning" /\ hook.lanes \in Seq(HookLanes) /\ hook.lanes # <<>> /\ hook.prompt \in Prompts
    BY <1>1, <1>8 DEF SpawnLane, SpawnFails, RunsFit, HookOver, HookStates
  <2>2. Head(hook.lanes) = hook.lanes[1] /\ Head(hook.lanes) \in HookLanes
    BY <2>1, HeadTailProperties
  <2> DEFINE starting == <<hook.prompt, hook.lanes[1]>>
  <2>3. starting \in Sidecars
    BY <2>1, <2>2 DEF Sidecars
  <2>4. hook'.prompt = hook.prompt /\ hook'.lanes = Tail(hook.lanes)
    BY <1>1, <1>8 DEF SpawnLane, SpawnFails, HookStates
  <2>5. hook'.at \in {"spawning", "recording", "answering"} /\ (hook'.at = "spawning" => Tail(hook.lanes) # <<>>)
    BY <1>1, <1>8 DEF SpawnLane, SpawnFails, Spawned, HookStates
  <2>6. \A r \in Sidecars \ {starting} : sidecar'[r] = sidecar[r]
    BY <1>2, <1>8, <2>2 DEF SpawnLane, SpawnFails
  <2> QED BY <1>7, <2>1, <2>3, <2>4, <2>5, <2>6
<1>9. ASSUME NEW r \in Sidecars, StartWriting(r) \/ EndWriting(r) \/ Vanish(r) PROVE RunsFit'
  <2>1. UNCHANGED hook /\ sidecar[r] # "none" /\ \A q \in Sidecars \ {r} : sidecar'[q] = sidecar[q]
    BY <1>2, <1>9 DEF StartWriting, EndWriting, Vanish
  <2>2. \A q \in Sidecars : sidecar'[q] # "none" => sidecar[q] # "none"
    BY <2>1
  <2>3. ASSUME hook.at = "spawning", NEW i \in 1..Len(hook.lanes)
        PROVE  sidecar'[<<hook.prompt, hook.lanes[i]>>] = "none"
    <3>1. <<hook.prompt, hook.lanes[i]>> \in Sidecars
      BY <1>1, <2>3, ElementOfSeq DEF Sidecars, RunsFit, HookOver, HookStates
    <3> QED BY <1>1, <2>2, <2>3, <3>1 DEF RunsFit
  <2> QED BY <1>1, <2>1, <2>2, <2>3 DEF RunsFit
<1>10. CASE HourPasses
  BY <1>1, <1>10 DEF HourPasses, RunsFit
<1> QED BY <1>3, <1>5, <1>6, <1>8, <1>9, <1>10 DEF HookNext

\* What a step may do to what is reported of a lane: nothing, or start to
\* report and mark it, or give up what was to be reported, or spoil a save.
LEMMA BooksBalance ==
    ASSUME NEW c \in Nat, NEW spoiled \in Nat, NEW more \in Nat,
           NEW P \in BOOLEAN, NEW Q \in BOOLEAN, NEW M \in BOOLEAN, NEW N \in BOOLEAN,
           c + Flag(P) <= spoiled + Flag(M),
           \/ more = spoiled + 1 /\ (Q => P)
           \/ more = spoiled /\ (Q => P) /\ (M => N)
           \/ more = spoiled /\ P /\ ~Q
           \/ more = spoiled /\ ~M /\ N
    PROVE  c + Flag(Q) <= more + Flag(N)
BY DEF Flag

\* A lane is reported once more only after a save was spoiled.
LEMMA ReportsStay == HookInv /\ HookNext => ReportsCount'
<1> SUFFICES ASSUME HookInv, HookNext, NEW l \in HookLanes
             PROVE  /\ IsFiniteSet(ShownOf(l)')
                    /\ Cardinality(ShownOf(l)') + Flag(hook'.at \in Reporting /\ l \in LanesReady')
                         <= trouble'.spoiled + Flag(l \in Told'.delivered)
  BY DEF ReportsCount
<1> DEFINE c == Cardinality(ShownOf(l))
           P == hook.at \in Reporting /\ l \in LanesReady
           Q == hook'.at \in Reporting /\ l \in LanesReady'
           M == l \in Told.delivered
           N == l \in Told'.delivered
<1>1. /\ HookShape /\ CopyFits /\ ReadyFits /\ RunsFit /\ hook \in HookStates
      /\ trouble \in [spoiled : Nat, died : Nat, dropped : SUBSET HookLanes]
      /\ trouble' \in [spoiled : Nat, died : Nat, dropped : SUBSET HookLanes]
  BY ShapeStays DEF HookInv, HookShape
<1>2. IsFiniteSet(ShownOf(l)) /\ c \in Nat /\ c + Flag(P) <= trouble.spoiled + Flag(M)
  BY FS_CardinalityType DEF HookInv, ReportsCount
<1>3. trouble.spoiled \in Nat /\ trouble'.spoiled \in Nat
  BY <1>1
<1>4. ASSUME UNCHANGED shown,
             \/ trouble'.spoiled = trouble.spoiled + 1 /\ (Q => P)
             \/ trouble'.spoiled = trouble.spoiled /\ (Q => P) /\ (M => N)
             \/ trouble'.spoiled = trouble.spoiled /\ P /\ ~Q
             \/ trouble'.spoiled = trouble.spoiled /\ ~M /\ N
      PROVE  /\ IsFiniteSet(ShownOf(l)')
             /\ Cardinality(ShownOf(l)') + Flag(Q) <= trouble'.spoiled + Flag(N)
  <2>1. ShownOf(l)' = ShownOf(l)
    BY <1>4 DEF ShownOf
  <2>2. P \in BOOLEAN /\ Q \in BOOLEAN /\ M \in BOOLEAN /\ N \in BOOLEAN
    OBVIOUS
  <2> HIDE DEF P, Q, M, N, c
  <2>3. c + Flag(Q) <= trouble'.spoiled + Flag(N)
    BY <1>2, <1>3, <1>4, <2>2, BooksBalance
  <2> QED BY <1>2, <2>1, <2>3 DEF c
<1>5. CASE Submit
  <2>1. ~Q /\ N = M /\ UNCHANGED <<shown, trouble>>
    BY <1>5 DEF Submit, Reporting, HookOver, Told, Copying, Saving, Loaded
  <2> QED BY <1>4, <2>1
<1>6. CASE Collect
  <2>1. /\ hook'.ready = Ready /\ UNCHANGED <<manifest, shown, trouble>>
        /\ hook'.at = IF Ready = {} THEN "planning" ELSE "marking"
        /\ hook'.copy = [Loaded EXCEPT !.delivered = @ \cup {r[2] : r \in Ready}]
        /\ hook.at = "begin"
    BY <1>1, <1>6 DEF Collect, HookStates
  <2>2. Loaded' = Loaded /\ Told = Loaded /\ LanesReady' = {r[2] : r \in Ready} /\ Loaded.delivered \subseteq HookLanes
    BY <1>1, <2>1, LoadedFacts DEF Loaded, Told, Copying, Saving, LanesReady, Manifests
  <2>3. \A r \in Ready : r[2] \notin Loaded.delivered
    BY <1>1, <2>1, ReadyFacts
  <2>4. CASE Ready = {}
    <3>1. Told' = Loaded /\ ~Q
      BY <2>1, <2>2, <2>4 DEF Told, Copying, Saving
    <3> QED BY <1>4, <2>1, <2>2, <3>1
  <2>5. CASE Ready # {}
    <3>1. Told' = hook'.copy
      BY <2>1, <2>5 DEF Told, Copying, Saving
    <3>2. Told'.delivered = Loaded.delivered \cup {r[2] : r \in Ready}
      BY <1>1, <2>1, <3>1, LoadedFacts DEF Manifests
    <3>3. CASE l \in {r[2] : r \in Ready}
      BY <1>4, <2>1, <2>2, <2>3, <3>2, <3>3
    <3>4. CASE l \notin {r[2] : r \in Ready}
      BY <1>4, <2>1, <2>2, <3>2, <3>4
    <3> QED BY <3>3, <3>4
  <2> QED BY <2>4, <2>5
<1>7. CASE OpenManifest
  <2>1. /\ hook.at \in {"marking", "recording"} /\ hook'.at \in {"markOpen", "recordOpen"}
        /\ hook'.copy = hook.copy /\ hook'.ready = hook.ready /\ UNCHANGED <<shown, trouble>>
    BY <1>1, <1>7 DEF OpenManifest, HookStates
  <2>2. Told' = hook.copy /\ Told = hook.copy /\ (Q => P)
    BY <2>1 DEF Told, Copying, Saving, LanesReady, Reporting, HookOver, HookPlaces
  <2> QED BY <1>4, <2>1, <2>2
<1>8. CASE FillManifest
  <2>1. /\ hook.at \in {"markOpen", "recordOpen"} /\ hook'.at \in {"planning", "answering"}
        /\ manifest' = hook.copy /\ hook'.ready = hook.ready /\ UNCHANGED <<shown, trouble>>
    BY <1>1, <1>8 DEF FillManifest, HookStates, After
  <2>2. Told' = hook.copy /\ Told = hook.copy /\ (Q => P)
    BY <1>1, <2>1 DEF Told, Copying, Saving, LanesReady, Reporting, HookOver, HookPlaces, Loaded, CopyFits
  <2> QED BY <1>4, <2>1, <2>2
<1>9. CASE SaveFails
  <2>1. /\ hook.at \in Saving /\ hook'.ready = hook.ready /\ UNCHANGED shown
        /\ trouble'.spoiled = trouble.spoiled + 1
    BY <1>1, <1>9 DEF SaveFails, HookStates
  <2>2. Q => P
    BY <2>1 DEF LanesReady, Reporting, HookOver, HookPlaces, Saving
  <2> QED BY <1>4, <2>1, <2>2
<1>10. CASE Plan
  <2>1. /\ hook.at = "planning" /\ hook'.at \in {"answering", "spawning"} /\ hook'.copy = Loaded
        /\ hook'.ready = hook.ready /\ UNCHANGED <<manifest, shown, trouble>>
    BY <1>1, <1>10 DEF Plan, HookStates
  <2>2. Told' = Loaded /\ Told = Loaded /\ (Q => P)
    BY <2>1 DEF Told, Copying, Saving, LanesReady, Reporting, HookOver, HookPlaces, Loaded
  <2> QED BY <1>4, <2>1, <2>2
<1>11. CASE PlanThrows
  <2>1. /\ hook.at = "planning" /\ hook'.at = "threw" /\ UNCHANGED <<manifest, shown>>
        /\ trouble'.spoiled = trouble.spoiled
    BY <1>1, <1>11 DEF PlanThrows, HookStates
  <2>2. ~Q /\ Told' = Told
    BY <2>1 DEF Told, Copying, Saving, Reporting, HookOver, Loaded
  <2> QED BY <1>4, <2>1, <2>2
<1>12. CASE SpawnLane \/ SpawnFails
  <2>1. /\ hook.at = "spawning" /\ hook'.at \in {"spawning", "recording", "answering"}
        /\ hook'.ready = hook.ready /\ UNCHANGED <<manifest, shown, trouble>>
        /\ hook'.copy.delivered = hook.copy.delivered
    BY <1>1, <1>12, SpawnFacts
  <2>2. Told'.delivered = Told.delivered /\ (Q => P)
    BY <1>1, <2>1 DEF Told, Copying, Saving, LanesReady, Reporting, HookOver, HookPlaces, Loaded, CopyFits
  <2> QED BY <1>4, <2>1, <2>2
<1>13. CASE HookKilled
  <2>1. hook'.at = "killed" /\ UNCHANGED <<manifest, shown>> /\ ~Q /\ Told' = Loaded
    BY <1>1, <1>13 DEF HookKilled, HookStates, Reporting, HookOver, Told, Copying, Saving, Loaded
  <2>2. CASE hook.at \in {"markOpen", "recordOpen"}
    <3>1. trouble'.spoiled = trouble.spoiled + 1
      BY <1>3, <1>13, <2>2 DEF HookKilled
    <3> QED BY <1>4, <2>1, <3>1
  <2>3. CASE hook.at \notin {"markOpen", "recordOpen"}
    <3>1. trouble'.spoiled = trouble.spoiled
      BY <1>3, <1>13, <2>3 DEF HookKilled
    <3>2. CASE hook.at = "marking"
      <4>1. M => l \in Loaded.delivered \/ P
        BY <1>1, <3>2 DEF Told, Copying, Saving, CopyFits, Reporting, HookOver, HookPlaces
      <4> QED BY <1>4, <2>1, <3>1, <4>1
    <3>3. CASE hook.at # "marking"
      <4>1. Told.delivered = Loaded.delivered
        BY <1>1, <2>3, <3>3 DEF Told, Copying, Saving, CopyFits
      <4> QED BY <1>4, <2>1, <3>1, <4>1
    <3> QED BY <3>2, <3>3
  <2> QED BY <2>2, <2>3
<1>14. CASE Aside
  <2>1. UNCHANGED <<manifest, hook, shown, trouble>>
    BY <1>14 DEF Aside, StartWriting, EndWriting, Vanish, HourPasses
  <2>2. Told' = Told /\ LanesReady' = LanesReady
    BY <2>1 DEF Told, Loaded, LanesReady
  <2> QED BY <1>4, <2>1, <2>2
<1>15. CASE Answer
  <2>1. /\ hook.at = "answering" /\ hook'.at = "answered" /\ UNCHANGED <<manifest, trouble>>
        /\ shown' = shown \cup ({hook.prompt} \X hook.ready)
    BY <1>1, <1>15 DEF Answer, HookStates
  <2>2. ~Q /\ Told' = Told
    BY <2>1 DEF Told, Copying, Saving, Reporting, HookOver, Loaded
  <2>3. CASE l \notin LanesReady
    <3>1. ShownOf(l)' = ShownOf(l)
      BY <2>1, <2>3 DEF ShownOf, LanesReady
    <3> QED BY <1>2, <1>3, <2>1, <2>2, <2>3, <3>1 DEF Flag
  <2>4. CASE l \in LanesReady
    <3>1. PICK r \in hook.ready : r[2] = l
      BY <2>4 DEF LanesReady
    <3>2. \A q \in hook.ready : q[2] = l => q = r
      BY <1>1, <3>1 DEF ReadyFits
    <3>3. ShownOf(l)' = ShownOf(l) \cup {<<hook.prompt, r>>}
      BY <2>1, <3>1, <3>2 DEF ShownOf
    <3>4. IsFiniteSet(ShownOf(l)') /\ Cardinality(ShownOf(l)') <= c + 1 /\ Cardinality(ShownOf(l)') \in Nat
      <4>1. /\ IsFiniteSet(ShownOf(l) \cup {<<hook.prompt, r>>})
            /\ Cardinality(ShownOf(l) \cup {<<hook.prompt, r>>}) \in {c, c + 1}
        BY <1>2, FS_AddElement
      <4> HIDE DEF c
      <4> QED BY <1>2, <3>3, <4>1
    <3>5. P /\ UNCHANGED trouble
      BY <2>1, <2>4 DEF Reporting, HookOver, HookPlaces
    <3>6. Flag(P) = 1 /\ Flag(Q) = 0 /\ Flag(N) = Flag(M) /\ Flag(M) \in Nat
      BY <2>2, <3>5 DEF Flag
    <3>8. c + 1 <= trouble.spoiled + Flag(M)
      BY <1>2, <3>6
    <3>9. Cardinality(ShownOf(l)') <= trouble.spoiled + Flag(M)
      <4> HIDE DEF P, Q, M, N, c
      <4> QED BY <1>2, <1>3, <3>4, <3>6, <3>8
    <3>7. Cardinality(ShownOf(l)') + Flag(Q) <= trouble'.spoiled + Flag(N)
      <4> HIDE DEF P, Q, M, N, c
      <4>1. Cardinality(ShownOf(l)') + 0 <= trouble.spoiled + Flag(M)
        BY <3>4, <3>9
      <4> QED BY <3>5, <3>6, <4>1
    <3> QED BY <3>4, <3>7
  <2> QED BY <2>3, <2>4
<1> QED BY <1>5, <1>6, <1>7, <1>8, <1>9, <1>10, <1>11, <1>12, <1>13, <1>14, <1>15 DEF HookNext, Aside

\* A mark is followed by its report, unless the hook dies.
LEMMA MarksStay == HookInv /\ HookNext => MarksKnown'
<1> SUFFICES ASSUME HookInv, HookNext, NEW l \in Loaded'.delivered \cup Told'.delivered
             PROVE  Accounted(l)'
  BY DEF MarksKnown
<1>1. /\ HookShape /\ CopyFits /\ ReadyFits /\ RunsFit /\ hook \in HookStates
      /\ trouble \in [spoiled : Nat, died : Nat, dropped : SUBSET HookLanes]
      /\ l \in Loaded.delivered \cup Told.delivered => Accounted(l)
  BY DEF HookInv, HookShape, MarksKnown
<1>2. CASE Submit
  <2>1. l \in Loaded.delivered /\ hook.at \in HookOver /\ UNCHANGED <<shown, trouble>>
    BY <1>2 DEF Submit, Told, Copying, Saving, Loaded
  <2> QED BY <1>1, <2>1 DEF Accounted
<1>3. CASE Collect
  <2>1. /\ hook'.ready = Ready /\ UNCHANGED <<manifest, shown, trouble>> /\ hook'.at \in {"planning", "marking"}
        /\ hook'.copy = [Loaded EXCEPT !.delivered = @ \cup {r[2] : r \in Ready}]
        /\ hook.at = "begin"
    BY <1>1, <1>3 DEF Collect, HookStates
  <2>2. Loaded' = Loaded /\ LanesReady' = {r[2] : r \in Ready} /\ LanesReady = {} /\ hook'.at \notin HookOver
    BY <1>1, <2>1 DEF Loaded, LanesReady, ReadyFits, HookOver
  <2>3. Told'.delivered \subseteq Loaded.delivered \cup LanesReady'
    BY <1>1, <2>1, <2>2, LoadedFacts DEF Told, Manifests
  <2> QED BY <1>1, <2>1, <2>2, <2>3 DEF Accounted
<1>4. ASSUME UNCHANGED <<shown, trouble>>, hook'.ready = hook.ready, hook'.at \notin HookOver,
             Loaded'.delivered \cup Told'.delivered \subseteq Loaded.delivered \cup Told.delivered
      PROVE  Accounted(l)'
  BY <1>1, <1>4 DEF Accounted, LanesReady
<1>5. CASE OpenManifest
  <2>1. /\ hook.at \in {"marking", "recording"} /\ hook'.at \in {"markOpen", "recordOpen"} /\ manifest' = TornManifest
        /\ hook'.copy = hook.copy /\ hook'.ready = hook.ready /\ UNCHANGED <<shown, trouble>>
    BY <1>1, <1>5 DEF OpenManifest, HookStates
  <2>2. Told' = hook.copy /\ Told = hook.copy /\ Loaded'.delivered = {}
    BY <2>1 DEF Told, Copying, Saving, Loaded, TornManifest, Empty
  <2> QED BY <1>4, <2>1, <2>2 DEF HookOver
<1>6. CASE FillManifest
  <2>1. /\ hook.at \in {"markOpen", "recordOpen"} /\ hook'.at \in {"planning", "answering"}
        /\ manifest' = hook.copy /\ hook'.ready = hook.ready /\ UNCHANGED <<shown, trouble>>
    BY <1>1, <1>6 DEF FillManifest, HookStates, After
  <2>2. Told' = hook.copy /\ Told = hook.copy /\ Loaded' = hook.copy
    BY <1>1, <2>1 DEF Told, Copying, Saving, Loaded, CopyFits
  <2> QED BY <1>4, <2>1, <2>2 DEF HookOver
<1>7. CASE SaveFails
  <2>1. /\ hook'.at \in {"planning", "answering"} /\ hook'.ready = hook.ready /\ UNCHANGED <<manifest, shown>>
        /\ trouble'.dropped = trouble.dropped /\ hook.at \in Saving
    BY <1>1, <1>7 DEF SaveFails, HookStates, After
  <2>2. Told' = Loaded /\ Loaded' = Loaded /\ hook'.at \notin HookOver /\ LanesReady' = LanesReady
    BY <2>1 DEF Told, Copying, Saving, Loaded, HookOver, LanesReady
  <2> QED BY <1>1, <2>1, <2>2 DEF Accounted
<1>8. CASE Plan
  <2>1. /\ hook'.at \in {"answering", "spawning"} /\ hook'.copy = Loaded
        /\ hook'.ready = hook.ready /\ UNCHANGED <<manifest, shown, trouble>>
    BY <1>1, <1>8 DEF Plan, HookStates
  <2>2. Told' = Loaded /\ Loaded' = Loaded
    BY <2>1 DEF Told, Loaded
  <2> QED BY <1>4, <2>1, <2>2 DEF HookOver
<1>9. CASE PlanThrows
  <2>1. /\ hook.at = "planning" /\ hook'.at = "threw" /\ UNCHANGED <<manifest, shown>>
        /\ trouble'.dropped = trouble.dropped \cup LanesReady
    BY <1>1, <1>9 DEF PlanThrows, HookStates, LanesReady
  <2>2. l \in Loaded.delivered
    BY <2>1 DEF Told, Copying, Saving, Loaded
  <2> QED BY <1>1, <2>1, <2>2 DEF Accounted
<1>10. CASE SpawnLane \/ SpawnFails
  <2>1. /\ hook.at = "spawning" /\ hook'.at \in {"spawning", "recording", "answering"}
        /\ hook'.ready = hook.ready /\ UNCHANGED <<manifest, shown, trouble>>
        /\ hook'.copy.delivered = hook.copy.delivered
    BY <1>1, <1>10, SpawnFacts
  <2>2. Told'.delivered = Loaded.delivered /\ Loaded' = Loaded
    BY <1>1, <2>1 DEF Told, Loaded, CopyFits
  <2> QED BY <1>4, <2>1, <2>2 DEF HookOver
<1>11. CASE Answer
  <2>1. /\ hook.at = "answering" /\ hook'.at = "answered" /\ UNCHANGED <<manifest, trouble>>
        /\ shown' = shown \cup ({hook.prompt} \X hook.ready)
    BY <1>1, <1>11 DEF Answer, HookStates
  <2>2. l \in Loaded.delivered
    BY <2>1 DEF Told, Copying, Saving, Loaded
  <2>3. CASE l \in LanesReady
    <3>1. PICK r \in hook.ready : r[2] = l
      BY <2>3 DEF LanesReady
    <3>2. <<hook.prompt, r>> \in shown' /\ <<hook.prompt, r>>[2][2] = l
      BY <2>1, <3>1
    <3> QED BY <3>2 DEF Accounted
  <2>4. CASE l \notin LanesReady
    BY <1>1, <2>1, <2>2, <2>4 DEF Accounted
  <2> QED BY <2>3, <2>4
<1>12. CASE HookKilled
  <2>1. hook'.at = "killed" /\ UNCHANGED <<manifest, shown>> /\ l \in Loaded.delivered
    BY <1>1, <1>12 DEF HookKilled, HookStates, Told, Copying, Saving, Loaded
  <2>2. trouble'.dropped = trouble.dropped \cup
          {r[2] : r \in IF hook.at \in {"begin", "marking", "markOpen"} THEN {} ELSE hook.ready}
    BY <1>12 DEF HookKilled
  <2>3. CASE hook.at \in {"begin", "marking"}
    <3>1. l \notin LanesReady
      BY <1>1, <2>1, <2>3 DEF CopyFits, ReadyFits, LanesReady
    <3> QED BY <1>1, <2>1, <2>2, <3>1 DEF Accounted
  <2>4. CASE hook.at \notin {"begin", "marking", "markOpen"}
    BY <1>1, <2>1, <2>2, <2>4 DEF Accounted, LanesReady
  <2>5. CASE hook.at = "markOpen"
    BY <1>1, <2>1, <2>5 DEF CopyFits
  <2> QED BY <2>3, <2>4, <2>5
<1>13. CASE Aside
  <2>1. UNCHANGED <<manifest, hook, shown, trouble>>
    BY <1>13 DEF Aside, StartWriting, EndWriting, Vanish, HourPasses
  <2> QED BY <1>1, <2>1 DEF Told, Loaded, Accounted, LanesReady
<1> QED BY <1>2, <1>3, <1>5, <1>6, <1>7, <1>8, <1>9, <1>10, <1>11, <1>12, <1>13 DEF HookNext, Aside

\* What was shown stays whole, and is of an earlier prompt.
LEMMA ShownStays == HookInv /\ HookNext => ReportsAreWhole'
<1> SUFFICES ASSUME HookInv, HookNext PROVE ReportsAreWhole'
  OBVIOUS
<1>1. HookShape /\ ReadyFits /\ RunsFit /\ ReportsAreWhole /\ hook \in HookStates
  BY DEF HookInv, HookShape
<1>2. shown \subseteq Prompts \X Sidecars /\ sidecar \in [Sidecars -> {"none", "running", "writing", "wrote", "gone"}]
      /\ hook.ready \subseteq Sidecars
  BY <1>1 DEF HookShape, HookTypeOK
<1>3. ASSUME shown' = shown, \A r \in Sidecars : sidecar[r] = "wrote" => sidecar'[r] = "wrote"
      PROVE  ReportsAreWhole'
  <2> SUFFICES ASSUME NEW s \in shown PROVE sidecar'[s[2]] = "wrote" /\ s[2][1] < s[1]
    BY <1>3 DEF ReportsAreWhole
  <2>1. s[2] \in Sidecars /\ sidecar[s[2]] = "wrote" /\ s[2][1] < s[1]
    BY <1>1, <1>2 DEF ReportsAreWhole
  <2> QED BY <1>3, <2>1
<1>4. CASE Submit \/ Collect \/ OpenManifest \/ FillManifest \/ SaveFails \/ Plan \/ PlanThrows \/ SpawnFails
           \/ HookKilled \/ HourPasses
  <2>1. shown' = shown /\ sidecar' = sidecar
    BY <1>4 DEF Submit, Collect, OpenManifest, FillManifest, SaveFails, Plan, PlanThrows, SpawnFails, HookKilled,
        HourPasses
  <2> QED BY <1>3, <2>1
<1>5. CASE SpawnLane
  <2>1. sidecar[<<hook.prompt, Head(hook.lanes)>>] = "none"
    <3>1. hook.lanes # <<>> /\ hook.lanes \in Seq(HookLanes) /\ hook.at = "spawning"
      BY <1>1, <1>5 DEF SpawnLane, RunsFit, HookShape, HookTypeOK
    <3>2. Head(hook.lanes) = hook.lanes[1] /\ 1 \in 1..Len(hook.lanes)
      BY <3>1, EmptySeq, LenProperties
    <3> QED BY <1>1, <3>1, <3>2 DEF RunsFit
  <2>2. shown' = shown /\ sidecar' = [sidecar EXCEPT ![<<hook.prompt, Head(hook.lanes)>>] = "running"]
    BY <1>5 DEF SpawnLane
  <2>3. \A r \in Sidecars : sidecar[r] = "wrote" => sidecar'[r] = "wrote"
    BY <1>2, <2>1, <2>2
  <2> QED BY <1>3, <2>2, <2>3
<1>6. CASE Answer
  <2>1. shown' = shown \cup ({hook.prompt} \X hook.ready) /\ sidecar' = sidecar
    BY <1>6 DEF Answer
  <2> SUFFICES ASSUME NEW s \in shown' PROVE sidecar[s[2]] = "wrote" /\ s[2][1] < s[1]
    BY <2>1 DEF ReportsAreWhole
  <2>2. CASE s \in shown
    BY <1>1, <2>2 DEF ReportsAreWhole
  <2>3. CASE s \in {hook.prompt} \X hook.ready
    BY <1>1, <2>3 DEF ReadyFits
  <2> QED BY <2>1, <2>2, <2>3
<1>7. ASSUME NEW q \in Sidecars, StartWriting(q) \/ EndWriting(q) \/ Vanish(q)
      PROVE  ReportsAreWhole'
  <2>1. /\ shown' = shown /\ sidecar[q] # "wrote"
        /\ \A r \in Sidecars : r # q => sidecar'[r] = sidecar[r]
    BY <1>2, <1>7 DEF StartWriting, EndWriting, Vanish
  <2> QED BY <1>3, <2>1
<1> QED BY <1>4, <1>5, <1>6, <1>7 DEF HookNext

\* The sets that are counted are finite.
LEMMA FilesStayFinite == HookInv /\ HookNext => FilesAreFinite'
<1> SUFFICES ASSUME HookInv, HookNext PROVE FilesAreFinite'
  OBVIOUS
<1>1. HookShape /\ FilesAreFinite /\ hook \in HookStates /\ hook.copy \in Manifests
  BY DEF HookInv, HookShape, HookStates
<1>2. /\ sidecar \in [Sidecars -> {"none", "running", "writing", "wrote", "gone"}]
      /\ IsFiniteSet({}) /\ IsFiniteSet(Loaded.dispatched)
  BY <1>1, FS_EmptySet DEF HookShape, HookTypeOK, FilesAreFinite, Loaded, Empty
<1>3. ASSUME UNCHANGED sidecar PROVE IsFiniteSet(Started')
  BY <1>1, <1>3 DEF FilesAreFinite, Started
<1>4. CASE Submit
  BY <1>1, <1>2, <1>3, <1>4 DEF Submit, FilesAreFinite, Empty
<1>5. CASE Collect
  <2>1. hook'.copy.dispatched = Loaded.dispatched
    BY <1>1, <1>5, LoadedFacts DEF Collect, HookStates, Manifests
  <2> QED BY <1>1, <1>2, <1>3, <1>5, <2>1 DEF Collect, FilesAreFinite
<1>6. CASE OpenManifest \/ FillManifest \/ SaveFails \/ PlanThrows \/ Answer \/ HookKilled \/ SpawnFails
  <2>1. hook'.copy = hook.copy /\ UNCHANGED sidecar /\ manifest' \in {manifest, hook.copy, TornManifest}
    BY <1>1, <1>6 DEF OpenManifest, FillManifest, SaveFails, PlanThrows, Answer, HookKilled, SpawnFails, HookStates
  <2> QED BY <1>1, <1>2, <1>3, <2>1 DEF FilesAreFinite, TornManifest, Empty
<1>7. CASE Plan
  <2>1. hook'.copy = Loaded
    BY <1>1, <1>7 DEF Plan, HookStates
  <2> QED BY <1>1, <1>2, <1>3, <1>7, <2>1 DEF Plan, FilesAreFinite
<1>8. CASE SpawnLane
  <2> DEFINE starting == <<hook.prompt, Head(hook.lanes)>>
  <2>1. hook'.copy = [hook.copy EXCEPT !.dispatched = @ \cup {starting}] /\ sidecar' = [sidecar EXCEPT ![starting] = "running"]
        /\ UNCHANGED manifest
    BY <1>1, <1>8 DEF SpawnLane, HookStates
  <2>2. hook'.copy.dispatched = hook.copy.dispatched \cup {starting}
    BY <1>1, <2>1 DEF Manifests
  <2> HIDE DEF starting
  <2>3. Started' \in SUBSET (Started \cup {starting})
    BY <1>2, <2>1 DEF Started
  <2>4. IsFiniteSet(Started \cup {starting}) /\ IsFiniteSet(hook.copy.dispatched \cup {starting})
    BY <1>1, FS_AddElement DEF FilesAreFinite
  <2> QED BY <1>1, <2>1, <2>2, <2>3, <2>4, FS_Subset DEF FilesAreFinite
<1>9. CASE Aside
  <2>1. UNCHANGED <<manifest, hook>>
    BY <1>9 DEF Aside, StartWriting, EndWriting, Vanish, HourPasses
  <2>2. Started' \in SUBSET Started
    BY <1>2, <1>9 DEF Aside, StartWriting, EndWriting, Vanish, HourPasses, Started
  <2> QED BY <1>1, <2>1, <2>2, FS_Subset DEF FilesAreFinite
<1> QED BY <1>4, <1>5, <1>6, <1>7, <1>8, <1>9 DEF HookNext, Aside

\* Sizes of subsets, of unions, and of a set with one more element.
LEMMA Fewer ==
    ASSUME NEW S, IsFiniteSet(S), NEW T \in SUBSET S
    PROVE  IsFiniteSet(T) /\ Cardinality(T) \in Nat /\ Cardinality(S) \in Nat /\ Cardinality(T) <= Cardinality(S)
BY FS_Subset, FS_CardinalityType

LEMMA Together ==
    ASSUME NEW S, IsFiniteSet(S), NEW R, IsFiniteSet(R), NEW T \in SUBSET (S \cup R)
    PROVE  /\ IsFiniteSet(T) /\ Cardinality(T) \in Nat /\ Cardinality(S) \in Nat /\ Cardinality(R) \in Nat
           /\ Cardinality(T) <= Cardinality(S) + Cardinality(R)
<1>1. /\ IsFiniteSet(S \cup R) /\ Cardinality(S) \in Nat /\ Cardinality(R) \in Nat
      /\ Cardinality(S \cup R) = Cardinality(S) + Cardinality(R) - Cardinality(S \cap R)
  BY FS_Union, FS_CardinalityType
<1>2. Cardinality(S \cap R) \in Nat
  BY FS_Intersection, FS_CardinalityType
<1>3. IsFiniteSet(T) /\ Cardinality(T) \in Nat /\ Cardinality(T) <= Cardinality(S \cup R)
  BY <1>1, Fewer
<1> QED BY <1>1, <1>2, <1>3

LEMMA Singly ==
    ASSUME NEW S, IsFiniteSet(S), NEW x, NEW T \in SUBSET (S \cup {x})
    PROVE  /\ IsFiniteSet(T) /\ Cardinality(T) \in Nat /\ Cardinality(S) \in Nat
           /\ Cardinality(T) <= Cardinality(S) + 1
<1>1. IsFiniteSet({x}) /\ Cardinality({x}) = 1
  BY FS_Singleton
<1> QED BY <1>1, Together

LEMMA Times == ASSUME NEW a \in Nat, NEW b \in Nat PROVE a * b \in Nat /\ a * (b + 1) = a * b + a
OBVIOUS

\* What the hook has told of its lanes, as long as saves succeed.
LostFits == Cardinality(Started \ Told.dispatched) <= LanesPerPrompt * trouble.died
CapFits == Cardinality(Recent(Told.dispatched)) + Coming <= HourlyCap

\* The sets of RunsCount are finite and their sizes are numbers.
LEMMA CountFacts ==
    ASSUME HookInv
    PROVE  /\ IsFiniteSet(Told.dispatched) /\ IsFiniteSet(Loaded.dispatched) /\ IsFiniteSet(hook.copy.dispatched)
           /\ IsFiniteSet(Recent(Told.dispatched)) /\ Cardinality(Recent(Told.dispatched)) \in Nat
           /\ IsFiniteSet(Started) /\ IsFiniteSet(Started \ Told.dispatched) /\ IsFiniteSet(Own) /\ Cardinality(Own) \in Nat
           /\ Coming \in Nat /\ LanesPerPrompt \in Nat /\ HourlyCap \in Nat
           /\ trouble \in [spoiled : Nat, died : Nat, dropped : SUBSET HookLanes]
           /\ hook \in HookStates /\ hook.copy \in Manifests
<1>1. /\ HookShape /\ FilesAreFinite /\ hook \in HookStates /\ hook.copy \in Manifests
      /\ trouble \in [spoiled : Nat, died : Nat, dropped : SUBSET HookLanes]
  BY DEF HookInv, HookShape, HookStates
<1>2. IsFiniteSet(Loaded.dispatched) /\ IsFiniteSet(hook.copy.dispatched) /\ IsFiniteSet(Started)
  BY <1>1, FS_EmptySet DEF FilesAreFinite, Loaded, Empty
<1>3. IsFiniteSet(Told.dispatched)
  BY <1>2 DEF Told
<1>4. Coming \in Nat
  BY <1>1, LenProperties DEF Coming, HookStates
<1>5. /\ Recent(Told.dispatched) \in SUBSET Told.dispatched
      /\ Started \ Told.dispatched \in SUBSET Started /\ Own \in SUBSET hook.copy.dispatched
  BY DEF Recent, Own
<1> QED BY <1>1, <1>2, <1>3, <1>4, <1>5, Fewer, HookAssumption

\* While every save succeeds, the lanes that are not recorded are those of hooks
\* that died, and what is recorded leaves room in the hour for what is to come.
LEMMA RunsCountStays == HookInv /\ HookNext => RunsCount'
<1> SUFFICES ASSUME HookInv, HookNext, trouble'.spoiled = 0
             PROVE  /\ manifest'.is = "torn" => hook'.at \in {"markOpen", "recordOpen"}
                    /\ LostFits' /\ CapFits' /\ SpawnsFit'
  BY DEF RunsCount, LostFits, CapFits
<1> DEFINE lost == Cardinality(Started \ Told.dispatched)
           died == trouble.died
           LPP == LanesPerPrompt
<1>1. /\ HookShape /\ CopyFits /\ RunsFit /\ RunsCount /\ hook \in HookStates /\ hook.copy \in Manifests
      /\ trouble \in [spoiled : Nat, died : Nat, dropped : SUBSET HookLanes]
      /\ trouble' \in [spoiled : Nat, died : Nat, dropped : SUBSET HookLanes]
      /\ Loaded \in Manifests
  BY CountFacts, ShapeStays, LoadedFacts DEF HookInv, HookShape
<1>2. trouble.spoiled = 0 /\ ~SaveFails
  <2>1. trouble' = trouble \/ SaveFails \/ PlanThrows \/ HookKilled
    BY DEF HookNext, Submit, Collect, OpenManifest, FillManifest, Plan, SpawnLane, SpawnFails,
           Answer, StartWriting, EndWriting, Vanish, HourPasses
  <2>2. trouble.spoiled \in Nat
    BY <1>1
  <2>3. CASE trouble' = trouble /\ ~SaveFails
    BY <2>3
  <2>4. ~SaveFails
    BY <1>1, <2>2 DEF SaveFails
  <2>5. CASE PlanThrows
    BY <1>1, <2>4, <2>5 DEF PlanThrows
  <2>6. CASE HookKilled
    BY <1>1, <2>2, <2>4, <2>6 DEF HookKilled
  <2> QED BY <2>1, <2>3, <2>4, <2>5, <2>6
<1>3. /\ manifest.is = "torn" => hook.at \in {"markOpen", "recordOpen"}
      /\ LostFits /\ CapFits /\ SpawnsFit
  BY <1>1, <1>2 DEF RunsCount, LostFits, CapFits
<1>4. ASSUME Started' \ Told'.dispatched \subseteq Started \ Told.dispatched, trouble'.died \in {died, died + 1}
      PROVE  LostFits'
  <2>1. Cardinality(Started' \ Told'.dispatched) \in Nat /\ lost \in Nat /\ Cardinality(Started' \ Told'.dispatched) <= lost
    BY <1>4, CountFacts, Fewer
  <2>2. died \in Nat /\ LPP \in Nat
    BY <1>1, CountFacts
  <2>3. LPP * trouble'.died \in Nat /\ LPP * died \in Nat /\ LPP * died <= LPP * trouble'.died
    <3>1. LPP * died \in Nat /\ LPP * (died + 1) = LPP * died + LPP
      BY <2>2, Times
    <3> QED BY <1>4, <2>2, <3>1
  <2>4. lost <= LPP * died
    BY <1>3 DEF LostFits
  <2> HIDE DEF lost, died
  <2> QED BY <2>1, <2>2, <2>3, <2>4 DEF LostFits
<1>5. ASSUME Recent(Told.dispatched)' \subseteq Recent(Told.dispatched), Coming' \in Nat, Coming' <= Coming
      PROVE  CapFits'
  <2>1. /\ Cardinality(Recent(Told.dispatched)') \in Nat
        /\ Cardinality(Recent(Told.dispatched)') <= Cardinality(Recent(Told.dispatched))
    BY <1>5, CountFacts, Fewer
  <2>2. Cardinality(Recent(Told.dispatched)) \in Nat /\ Coming \in Nat /\ HourlyCap \in Nat
    BY CountFacts
  <2>3. Cardinality(Recent(Told.dispatched)') + Coming' <= HourlyCap
    BY <1>3, <1>5, <2>1, <2>2 DEF CapFits
  <2> QED BY <2>3 DEF CapFits
<1>6. ASSUME Told'.dispatched = Told.dispatched, UNCHANGED <<sidecar, aged>>, trouble'.died \in {died, died + 1},
             hook'.at \notin {"spawning", "recording"},
             manifest'.is = "torn" => hook'.at \in {"markOpen", "recordOpen"}
      PROVE  /\ manifest'.is = "torn" => hook'.at \in {"markOpen", "recordOpen"}
             /\ LostFits' /\ CapFits' /\ SpawnsFit'
  <2>1. Started' = Started /\ Recent(Told.dispatched)' = Recent(Told.dispatched) /\ Coming' = 0 /\ SpawnsFit'
    BY <1>6 DEF Started, Recent, Coming, SpawnsFit
  <2>2. Coming' \in Nat /\ Coming' <= Coming
    BY <2>1, CountFacts
  <2> QED BY <1>4, <1>5, <1>6, <2>1, <2>2
<1>7. CASE Submit \/ Answer
  <2>1. Told'.dispatched = Told.dispatched /\ UNCHANGED <<sidecar, aged, manifest, trouble>>
    BY <1>1, <1>7 DEF Submit, Answer, HookStates, Told, Copying, Saving, HookOver, Loaded
  <2>2. hook'.at \in {"begin", "answered"} /\ hook.at \notin {"markOpen", "recordOpen"}
    BY <1>1, <1>7 DEF Submit, Answer, HookStates, HookOver
  <2> QED BY <1>3, <1>6, <2>1, <2>2
<1>8. CASE Collect
  <2>1. hook'.at \in {"planning", "marking"} /\ hook.at = "begin" /\ UNCHANGED <<sidecar, aged, manifest, trouble>>
    BY <1>1, <1>8 DEF Collect, HookStates
  <2>2. hook'.copy.dispatched = Loaded.dispatched
    BY <1>1, <1>8 DEF Collect, HookStates, Manifests
  <2>3. Told'.dispatched = Told.dispatched
    BY <2>1, <2>2 DEF Told, Copying, Saving, Loaded
  <2> QED BY <1>3, <1>6, <2>1, <2>3
<1>9. CASE OpenManifest \/ FillManifest
  <2>1. /\ hook'.copy = hook.copy /\ UNCHANGED <<sidecar, aged, trouble>>
        /\ \/ hook.at \in {"marking", "recording"} /\ hook'.at \in {"markOpen", "recordOpen"}
           \/ /\ hook.at \in {"markOpen", "recordOpen"} /\ hook'.at \in {"planning", "answering"}
              /\ manifest' = hook.copy
    BY <1>1, <1>9 DEF OpenManifest, FillManifest, HookStates, After
  <2>2. hook.at \in {"markOpen", "recordOpen"} => hook.copy.is = "whole"
    BY <1>1 DEF CopyFits, Copying, Saving
  <2>3. Told'.dispatched = Told.dispatched
    BY <2>1, <2>2 DEF Told, Copying, Saving, Loaded
  <2> QED BY <1>6, <2>1, <2>2, <2>3
<1>10. CASE PlanThrows
  <2>1. hook'.at = "threw" /\ hook.at = "planning" /\ UNCHANGED <<sidecar, aged,
      manifest>> /\ trouble'.died = died + 1
    BY <1>1, <1>10 DEF PlanThrows, HookStates
  <2>2. Told'.dispatched = Told.dispatched
    BY <2>1 DEF Told, Copying, Saving, Loaded
  <2> QED BY <1>3, <1>6, <2>1, <2>2
<1>11. CASE Plan
  <2>1. PICK lanes \in {<<>>} \cup UNION {Gated(p) : p \in LanePlans} :
          LET allowed == Allowance(Loaded)
              chosen == SubSeq(lanes, 1, IF Len(lanes) < allowed THEN Len(lanes) ELSE allowed)
          IN hook' = [hook EXCEPT !.lanes = chosen, !.copy = Loaded,
                                  !.at = IF chosen = <<>> THEN "answering" ELSE "spawning"]
    BY <1>11 DEF Plan
  <2> DEFINE chosen == SubSeq(lanes, 1, IF Len(lanes) < Allowance(Loaded) THEN Len(lanes) ELSE Allowance(Loaded))
  <2>2. chosen \in Seq(HookLanes) /\ Len(chosen) <= Allowance(Loaded)
    BY PlannedLanes DEF HookInv
  <2>3. hook' = [hook EXCEPT !.lanes = chosen, !.copy = Loaded,
      !.at = IF chosen = <<>> THEN "answering" ELSE "spawning"]
    BY <2>1
  <2> HIDE DEF chosen
  <2>4. /\ hook'.lanes = chosen /\ hook'.at \in {"answering", "spawning"} /\ hook'.copy = Loaded
        /\ hook.at = "planning" /\ UNCHANGED <<sidecar, aged, manifest, trouble>>
    BY <1>1, <1>11, <2>3 DEF HookStates, Plan
  <2>5. Told' = Loaded /\ Told = Loaded /\ Loaded' = Loaded
    BY <2>4 DEF Told, Copying, Saving, Loaded
  <2>6. LostFits'
    <3>1. Started' = Started
      BY <2>4 DEF Started
    <3> QED BY <1>4, <2>4, <2>5, <3>1
  <2>7. /\ Allowance(Loaded) \in Nat /\ Allowance(Loaded) <= LPP /\ Cardinality(Recent(Loaded.dispatched)) \in Nat
        /\ Cardinality(Recent(Loaded.dispatched)) <= HourlyCap
             => Cardinality(Recent(Loaded.dispatched)) + Allowance(Loaded) <= HourlyCap
    BY CountFacts, AllowanceFacts
  <2>8. Cardinality(Recent(Loaded.dispatched)) <= HourlyCap
    BY <1>3, <2>4, <2>5, <2>7 DEF CapFits, Coming
  <2>9. Coming' \in Nat /\ Coming' <= Allowance(Loaded)
    BY <2>2, <2>4, <2>7, LenProperties DEF Coming
  <2>10. CapFits'
    <3>1. Recent(Told.dispatched)' = Recent(Loaded.dispatched)
      BY <2>4, <2>5 DEF Recent
    <3>2. HourlyCap \in Nat
      BY CountFacts
    <3>3. Cardinality(Recent(Loaded.dispatched)) + Coming' <= HourlyCap
      BY <2>7, <2>8, <2>9, <3>2
    <3> QED BY <3>1, <3>3 DEF CapFits
  <2>11. SpawnsFit'
    <3>1. Own' = {} /\ Cardinality({}) = 0
      BY <2>4, <2>5, FS_EmptySet DEF Own
    <3>2. LPP \in Nat /\ Coming' <= LPP
      BY <2>7, <2>9, CountFacts
    <3>3. Cardinality(Own') + Coming' <= LPP
      BY <2>9, <3>1, <3>2
    <3> QED BY <2>4, <2>5, <3>1, <3>3 DEF SpawnsFit
  <2> QED BY <1>3, <2>4, <2>6, <2>10, <2>11
<1>12. CASE SpawnLane
  <2> DEFINE starting == <<hook.prompt, Head(hook.lanes)>>
             rest == Tail(hook.lanes)
  <2>1. /\ hook.at = "spawning" /\ hook.lanes \in Seq(HookLanes) /\ hook.lanes # <<>>
        /\ hook'.lanes = rest /\ hook'.prompt = hook.prompt /\ UNCHANGED <<aged, manifest,
            trouble>> /\ Loaded' = Loaded
        /\ sidecar' = [sidecar EXCEPT ![starting] = "running"]
    BY <1>1, <1>12, SpawnFacts DEF SpawnLane, HookStates, RunsFit
  <2>2. hook'.copy = [hook.copy EXCEPT !.dispatched = @ \cup {starting}]
        /\ hook'.at = Spawned([hook.copy EXCEPT !.dispatched = @ \cup {starting}], rest)
    BY <1>1, <1>12 DEF SpawnLane, HookStates
  <2>3. hook'.copy.dispatched = hook.copy.dispatched \cup {starting} /\ starting[1] = hook.prompt
    BY <1>1, <2>2 DEF Manifests
  <2>4. hook'.at = IF rest # <<>> THEN "spawning" ELSE "recording"
    <3>1. \E r \in [hook.copy EXCEPT !.dispatched = @ \cup {starting}].dispatched : r[1] = hook.prompt
      BY <2>2, <2>3
    <3> QED BY <2>2, <3>1 DEF Spawned
  <2>5. Len(rest) = Len(hook.lanes) - 1 /\ Len(rest) \in Nat /\ Len(hook.lanes) \in Nat
    BY <2>1, HeadTailProperties, LenProperties
  <2>6. Coming \in Nat /\ Coming' \in Nat /\ Coming = Coming' + 1
    <3>1. Coming' = Len(rest)
      <4>1. CASE rest = <<>>
        BY <2>4, <4>1, EmptySeq DEF Coming
      <4>2. CASE rest # <<>>
        BY <2>1, <2>4, <4>2 DEF Coming
      <4> QED BY <4>1, <4>2
    <3> QED BY <2>1, <2>5, <3>1 DEF Coming
  <2> HIDE DEF starting, rest
  <2>7. Told'.dispatched = hook.copy.dispatched \cup {starting} /\ Told.dispatched = hook.copy.dispatched
    BY <2>1, <2>3, <2>4 DEF Told, Copying, Saving
  <2>8. LostFits'
    <3>1. Started' \subseteq Started \cup {starting}
      BY <2>1, CountFacts DEF Started
    <3>2. Started' \ Told'.dispatched \subseteq Started \ Told.dispatched
      BY <2>7, <3>1
    <3> QED BY <1>4, <2>1, <3>2
  <2>9. CapFits'
    <3>1. Recent(Told.dispatched)' \subseteq Recent(Told.dispatched) \cup {starting}
      BY <2>1, <2>7 DEF Recent
    <3>2. /\ Cardinality(Recent(Told.dispatched)') \in Nat /\ Cardinality(Recent(Told.dispatched)) \in Nat
          /\ Cardinality(Recent(Told.dispatched)') <= Cardinality(Recent(Told.dispatched)) + 1
      BY <3>1, CountFacts, Singly
    <3>3. Cardinality(Recent(Told.dispatched)) + Coming <= HourlyCap /\ HourlyCap \in Nat
      BY <1>3, CountFacts DEF CapFits
    <3>4. Cardinality(Recent(Told.dispatched)') + Coming' <= HourlyCap
      BY <2>6, <3>2, <3>3
    <3> QED BY <3>4 DEF CapFits
  <2>10. SpawnsFit'
    <3>1. /\ Loaded.dispatched \subseteq hook.copy.dispatched /\ \A r \in Own : r[1] = hook.prompt
          /\ Cardinality(Own) + Coming <= LPP
      BY <1>3, <2>1 DEF SpawnsFit
    <3>2. Own' \subseteq Own \cup {starting}
      BY <2>1, <2>3 DEF Own
    <3>3. Cardinality(Own') \in Nat /\ Cardinality(Own) \in Nat /\ Cardinality(Own') <= Cardinality(Own) + 1 /\ LPP \in Nat
      BY <3>2, CountFacts, Singly
    <3>4. Cardinality(Own') + Coming' <= LPP
      BY <2>6, <3>1, <3>3
    <3>5. \A r \in Own' : r[1] = hook.prompt
      BY <2>3, <3>1, <3>2
    <3> QED BY <2>1, <2>3, <3>1, <3>4, <3>5 DEF SpawnsFit
  <2> QED BY <1>3, <2>1, <2>8, <2>9, <2>10
<1>13. CASE SpawnFails
  <2> DEFINE rest == Tail(hook.lanes)
  <2>1. /\ hook.at = "spawning" /\ hook.lanes \in Seq(HookLanes) /\ hook.lanes # <<>>
        /\ hook'.lanes = rest /\ hook'.prompt = hook.prompt /\ UNCHANGED <<sidecar, aged, manifest, trouble>>
        /\ Loaded' = Loaded /\ hook'.copy = hook.copy
    BY <1>1, <1>13, SpawnFacts DEF SpawnFails, HookStates, RunsFit
  <2>2. /\ hook'.at \in {"spawning", "recording", "answering"} /\ (hook'.at = "spawning" => rest # <<>>)
        /\ hook'.at = "answering" => \A r \in hook.copy.dispatched : r[1] # hook.prompt
    BY <1>1, <1>13 DEF SpawnFails, Spawned, HookStates
  <2>3. Len(rest) = Len(hook.lanes) - 1 /\ Len(rest) \in Nat /\ Len(hook.lanes) \in Nat
    BY <2>1, HeadTailProperties, LenProperties
  <2>4. Coming \in Nat /\ Coming' \in Nat /\ Coming' <= Coming
    BY <2>1, <2>3 DEF Coming
  <2>5. /\ Loaded.dispatched \subseteq hook.copy.dispatched /\ \A r \in Own : r[1] = hook.prompt
        /\ Cardinality(Own) + Coming <= LPP
    BY <1>3, <2>1 DEF SpawnsFit
  <2>6. Told'.dispatched = Told.dispatched
    <3>1. CASE hook'.at = "answering"
      <4>1. Own = {}
        BY <2>2, <2>5, <3>1 DEF Own
      <4>2. hook.copy.dispatched = Loaded.dispatched
        BY <2>5, <4>1 DEF Own
      <4> QED BY <2>1, <3>1, <4>2 DEF Told, Copying, Saving
    <3>2. CASE hook'.at # "answering"
      BY <2>1, <2>2, <3>2 DEF Told, Copying, Saving
    <3> QED BY <3>1, <3>2
  <2>7. Started' = Started /\ Recent(Told.dispatched)' = Recent(Told.dispatched) /\ Own' = Own
    BY <2>1, <2>6 DEF Started, Recent, Own
  <2>8. Cardinality(Own') + Coming' <= LPP
    BY <2>4, <2>5, <2>7, CountFacts
  <2>9. SpawnsFit'
    BY <2>1, <2>5, <2>7, <2>8 DEF SpawnsFit
  <2> QED BY <1>3, <1>4, <1>5, <2>1, <2>4, <2>6, <2>7, <2>9
<1>14. CASE HookKilled
  <2>1. hook'.at = "killed" /\ UNCHANGED <<sidecar, aged, manifest>> /\ Told' = Loaded /\ Loaded' = Loaded
    BY <1>1, <1>14 DEF HookKilled, HookStates, HookOver, Told, Copying, Saving, Loaded
  <2>2. hook.at \notin {"markOpen", "recordOpen"} /\ trouble'.died = died + 1
    BY <1>1, <1>14 DEF HookKilled
  <2>3. CASE hook.at \notin {"spawning", "recording"}
    <3>1. Told.dispatched = Loaded.dispatched
      BY <1>1, <2>2, <2>3 DEF Told, Copying, Saving, CopyFits
    <3> QED BY <1>3, <1>6, <2>1, <2>2, <3>1
  <2>4. CASE hook.at \in {"spawning", "recording"}
    <3>1. /\ Loaded.dispatched \subseteq hook.copy.dispatched /\ Told.dispatched = hook.copy.dispatched
          /\ Cardinality(Own) + Coming <= LPP
      BY <1>3, <2>4 DEF SpawnsFit, Told, Copying, Saving
    <3>2. Started' \ Told'.dispatched \subseteq (Started \ Told.dispatched) \cup Own
      BY <2>1, <3>1 DEF Started, Own
    <3>3. /\ Cardinality(Started' \ Told'.dispatched) \in Nat /\ lost \in Nat /\ Cardinality(Own) \in Nat
          /\ Cardinality(Started' \ Told'.dispatched) <= lost + Cardinality(Own)
      BY <3>2, CountFacts, Together
    <3>4. LostFits'
      <4>1. died \in Nat /\ LPP \in Nat /\ Coming \in Nat /\ lost <= LPP * died
        BY <1>1, <1>3, CountFacts DEF LostFits
      <4>2. LPP * died \in Nat /\ LPP * (died + 1) = LPP * died + LPP
        BY <4>1, Times
      <4> HIDE DEF lost, died, LPP
      <4>3. Cardinality(Started' \ Told'.dispatched) <= LPP * trouble'.died
        BY <2>2, <3>1, <3>3, <4>1, <4>2
      <4> QED BY <4>3 DEF LostFits, LPP
    <3>5. CapFits'
      <4>1. Recent(Told.dispatched)' \subseteq Recent(Told.dispatched)
        BY <2>1, <3>1 DEF Recent
      <4>2. Coming' = 0 /\ Coming' \in Nat /\ Coming' <= Coming
        BY <2>1, CountFacts DEF Coming
      <4> QED BY <1>5, <4>1, <4>2
    <3>6. SpawnsFit'
      BY <2>1 DEF SpawnsFit
    <3> QED BY <1>3, <2>1, <2>2, <3>4, <3>5, <3>6
  <2> QED BY <2>3, <2>4
<1>15. CASE Aside
  <2>1. UNCHANGED <<manifest, hook, trouble>> /\ Started' \subseteq Started
    BY <1>15, CountFacts, <1>1 DEF Aside, StartWriting, EndWriting, Vanish, HourPasses, Started, HookShape, HookTypeOK
  <2>2. Told' = Told /\ Loaded' = Loaded /\ Own' = Own /\ Coming' = Coming
    BY <2>1 DEF Told, Loaded, Own, Coming
  <2>3. Recent(Told.dispatched)' \subseteq Recent(Told.dispatched)
    <3>1. aged \in Nat /\ (aged' = aged \/ aged' = aged + 1)
      <4>1. aged \in {0} \cup Prompts
        BY <1>1 DEF HookShape, HookTypeOK
      <4>2. aged' = aged \/ aged' = aged + 1
        BY <1>15 DEF Aside, StartWriting, EndWriting, Vanish, HourPasses
      <4> QED BY <4>1, <4>2 DEF Prompts
    <3>2. Told.dispatched \subseteq Sidecars /\ \A r \in Sidecars : r[1] \in Nat
      BY <1>1, LoadedFacts DEF Manifests, Sidecars, Prompts
    <3> QED BY <2>2, <3>1, <3>2 DEF Recent
  <2>4. SpawnsFit'
    BY <1>3, <2>1, <2>2 DEF SpawnsFit
  <2>5. Coming' \in Nat /\ Coming' <= Coming
    BY <2>2, CountFacts
  <2>6. LostFits'
    BY <1>4, <2>1, <2>2
  <2>7. CapFits'
    BY <1>5, <2>3, <2>5
  <2> QED BY <1>3, <2>1, <2>4, <2>6, <2>7
<1> QED BY <1>2, <1>7, <1>8, <1>9, <1>10, <1>11, <1>12, <1>13, <1>14, <1>15 DEF HookNext, Aside

\* Nothing has run, nothing is marked.
LEMMA HookInitHolds == HookInit => HookInv
<1> SUFFICES ASSUME HookInit PROVE HookInv
  OBVIOUS
<1>1. {MaxPrompts, LanesPerPrompt, HourlyCap, MaxTrouble} \subseteq Nat
  BY HookAssumption
<1>2. Empty \in Manifests /\ hook \in HookStates
  BY EmptySeq DEF HookInit, Empty, Manifests, HookStates, HookPlaces, HookOver
<1>3. HookShape
  BY <1>1, <1>2, EmptySeq DEF HookInit, HookShape, HookTypeOK, Manifests, HookStates
<1>4. Loaded.delivered = {} /\ Loaded.dispatched = {} /\ Told = Loaded
  BY DEF HookInit, Loaded, Told, Empty, Copying, Saving
<1>5. CopyFits /\ ReadyFits /\ RunsFit /\ MarksKnown
  BY <1>4 DEF HookInit, CopyFits, ReadyFits, RunsFit, MarksKnown, Copying, Saving, HookOver
<1>6. ReportsCount
  <2>1. \A l \in HookLanes : ShownOf(l) = {}
    BY DEF HookInit, ShownOf
  <2>2. hook.at \notin Reporting /\ trouble.spoiled = 0
    BY DEF HookInit, Reporting, HookOver
  <2> QED BY <1>4, <2>1, <2>2, FS_EmptySet DEF ReportsCount, Flag
<1>7. Started = {} /\ IsFiniteSet({}) /\ Cardinality({}) = 0
  BY FS_EmptySet DEF HookInit, Started
<1>8. FilesAreFinite
  BY <1>7 DEF HookInit, FilesAreFinite, Empty
<1>9. RunsCount
  <2>1. Started \ Told.dispatched = {} /\ Recent(Told.dispatched) = {} /\ Coming = 0 /\ SpawnsFit /\ manifest.is # "torn"
    BY <1>4, <1>7 DEF HookInit, Recent, Coming, SpawnsFit, Empty
  <2>2. trouble.died = 0 /\ LanesPerPrompt * 0 = 0
    BY <1>1 DEF HookInit
  <2> QED BY <1>1, <1>7, <2>1, <2>2 DEF RunsCount
<1>10. ReportsAreWhole
  BY DEF HookInit, ReportsAreWhole
<1> QED BY <1>3, <1>5, <1>6, <1>8, <1>9, <1>10 DEF HookInv

\* The invariant is inductive.
LEMMA HookStep == HookInv /\ [HookNext]_hookVars => HookInv'
<1> SUFFICES ASSUME HookInv, [HookNext]_hookVars PROVE HookInv'
  OBVIOUS
<1>1. CASE HookNext
  BY <1>1, ShapeStays, CopyStays, ReadyStays, RunsStay, ShownStays, ReportsStay, MarksStay, FilesStayFinite,
      RunsCountStays DEF HookInv
<1>2. CASE UNCHANGED hookVars
  <2>1. /\ Loaded' = Loaded /\ Told' = Told /\ Own' = Own /\ Coming' = Coming /\ LanesReady' = LanesReady
        /\ Started' = Started /\ Recent(Told.dispatched)' = Recent(Told.dispatched)
    BY <1>2 DEF hookVars, Loaded, Told, Own, Coming, LanesReady, Started, Recent
  <2>2. HookShape' /\ CopyFits' /\ ReadyFits' /\ RunsFit' /\ FilesAreFinite'
    BY <1>2, <2>1 DEF hookVars, HookInv, HookShape, HookTypeOK, CopyFits, ReadyFits, RunsFit, FilesAreFinite
  <2>6. ReportsAreWhole'
    BY <1>2 DEF hookVars, HookInv, ReportsAreWhole
  <2>3. MarksKnown'
    BY <1>2, <2>1 DEF hookVars, HookInv, MarksKnown, Accounted
  <2>4. ReportsCount'
    <3>1. \A l : ShownOf(l)' = ShownOf(l)
      BY <1>2 DEF hookVars, ShownOf
    <3> QED BY <1>2, <2>1, <3>1 DEF hookVars, HookInv, ReportsCount
  <2>5. RunsCount'
    BY <1>2, <2>1 DEF hookVars, HookInv, RunsCount, SpawnsFit
  <2> QED BY <2>2, <2>3, <2>4, <2>5, <2>6 DEF HookInv
<1> QED BY <1>1, <1>2

\* What the invariant says of reports, counts and marks is what hooks owe.
LEMMA HookInvHolds == HookInv => HooksHold
<1> SUFFICES ASSUME HookInv PROVE HooksHold
  OBVIOUS
<1>1. HookShape /\ hook \in HookStates /\ trouble \in [spoiled : Nat, died : Nat, dropped : SUBSET HookLanes]
  BY DEF HookInv, HookShape
<1>2. ReportedOnce
  <2> SUFFICES ASSUME NEW l \in HookLanes PROVE Cardinality(ShownOf(l)) <= 1 + trouble.spoiled
    BY DEF ReportedOnce, ShownOf
  <2>1. /\ Cardinality(ShownOf(l)) \in Nat /\ trouble.spoiled \in Nat
        /\ Cardinality(ShownOf(l)) + Flag(hook.at \in Reporting /\ l \in LanesReady)
              <= trouble.spoiled + Flag(l \in Told.delivered)
    BY <1>1, FS_CardinalityType DEF HookInv, ReportsCount
  <2>2. Flag(hook.at \in Reporting /\ l \in LanesReady) \in {0, 1} /\ Flag(l \in Told.delivered) \in {0, 1}
    BY DEF Flag
  <2> QED BY <2>1, <2>2
<1>3. CapKept
  <2> SUFFICES ASSUME trouble.spoiled = 0
               PROVE  Cardinality(Recent(Started)) <= HourlyCap + LanesPerPrompt * trouble.died
    BY DEF CapKept, Started
  <2>1. /\ Cardinality(Started \ Told.dispatched) <= LanesPerPrompt * trouble.died
        /\ Cardinality(Recent(Told.dispatched)) + Coming <= HourlyCap
    BY DEF HookInv, RunsCount
  <2>2. Recent(Started) \subseteq Recent(Told.dispatched) \cup (Started \ Told.dispatched)
    BY DEF Recent
  <2>3. /\ Cardinality(Recent(Started)) \in Nat /\ Cardinality(Started \ Told.dispatched) \in Nat
        /\ Cardinality(Recent(Told.dispatched)) \in Nat
        /\ Cardinality(Recent(Started)) <= Cardinality(Recent(Told.dispatched)) + Cardinality(Started \ Told.dispatched)
    BY <2>2, CountFacts, Together
  <2>4. Coming \in Nat /\ HourlyCap \in Nat /\ LanesPerPrompt * trouble.died \in Nat
    BY <1>1, CountFacts, Times
  <2> QED BY <2>1, <2>3, <2>4
<1>4. ReportsAreWhole
  BY DEF HookInv
<1>5. MarksAreReports
  BY DEF HookInv, MarksKnown, Accounted, MarksAreReports, LanesReady
<1> QED BY <1>1, <1>2, <1>3, <1>4, <1>5 DEF HooksHold, HookShape

\* Whatever dies between the steps of a hook: a result is shown once but for
\* spoiled saves, the hourly cap is exceeded by the lanes of dead hooks at most,
\* what is shown is whole, and a lane that is marked was reported or its hook died.
THEOREM HooksAlwaysHold == HookSpec => []HooksHold
BY HookInitHolds, HookStep, HookInvHolds, PTL DEF HookSpec

=============================================================================

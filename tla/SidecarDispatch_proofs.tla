------------------------ MODULE SidecarDispatch_proofs ------------------------
(***************************************************************************)
(* A dispatch with any plan of sidecars, any registry and any limit: a     *)
(* writer hands back what was captured, the answer does not hide what it   *)
(* lacks, and every run, however it ends, gives its slot back.             *)
(***************************************************************************)
EXTENDS SidecarDispatch, FiniteSetTheorems, TLAPS

\* The part of the types that the promises rest on.
Types ==
    /\ dispatch \in Stages
    /\ started \in 0..Len(Order)
    /\ place \in [Tasks -> Places] /\ outcome \in [Tasks -> Outcomes] /\ result \in [Tasks -> Statuses]
    /\ gathered \subseteq Tasks /\ persisted \subseteq Tasks

\* A patch is captured by the step that finishes its task, and a task that has
\* not started has no outcome.
TaskInv ==
    /\ \A t \in Tasks : place[t] # "finished" => t \notin captured
    /\ \A t \in Tasks : place[t] = "unstarted" => outcome[t] = "none"
    /\ \A i \in (started + 1)..Len(Order) : place[Order[i]] = "unstarted"
    /\ dispatch = "gate" => started = 0
    /\ dispatch = "mapping" => started < Len(Order)
    /\ WriterHandsBack

\* From the moment the request is dispatched the required results are there,
\* and in the file unless it could not be written.
CallerInv ==
    /\ dispatch # "gate" => Required \subseteq gathered
    /\ dispatch \in {"dispatching", "grace", "answered", "closed"} =>
          gathered \subseteq Finished /\ (unsaved \/ gathered \subseteq persisted)
    /\ AnswerIsHonest

Promised == Types /\ TaskInv /\ CallerInv

\* The semaphore of the tasks, with what is proved of it.
Pool == INSTANCE SidecarSlots_proofs
            WITH Calls <- Tasks, MaxOf <- [t \in Tasks |-> Limit], pc <- slot

\* A task waits for its slot as long as it has none, and has it while it works.
SlotInv ==
    /\ Pool!IInv
    /\ \A t \in Tasks : slot[t] \in {"parked", "woken"} => place[t] = "waiting"
    /\ \A t \in Tasks : slot[t] = "holding" <=> place[t] \in {"running", "refreshing"}

IInv == Promised /\ SlotInv

LEMMA OrderFacts ==
    /\ Len(Order) \in Nat /\ (Order # <<>> => Len(Order) > 0)
    /\ \A i \in 1..Len(Order) : Order[i] \in Tasks
    /\ \A t \in Tasks : \E i \in 1..Len(Order) : t = Order[i]
BY PlanAssumption DEF PlanAssumption, Tasks

-----------------------------------------------------------------------------
\* The semaphore's proofs hold for the tasks of any plan.
LEMMA PoolAssumed == IsFiniteSet(Tasks) /\ [t \in Tasks |-> Limit] \in [Tasks -> 1..20]
<1>1. Tasks = {Order[i] : i \in 1..Len(Order)} /\ Len(Order) \in Nat
  BY PlanAssumption DEF PlanAssumption, Tasks
<1>2. IsFiniteSet(1..Len(Order))
  BY <1>1, FS_Interval
<1>3. Order \in Surjection(1..Len(Order), Tasks)
  BY <1>1, PlanAssumption DEF PlanAssumption, Surjection
<1>4. IsFiniteSet(Tasks)
  BY <1>2, <1>3, FS_Surjection
<1> QED
  BY <1>4, PlanAssumption DEF PlanAssumption

LEMMA PoolKept == ASSUME Pool!IInv, [Pool!Next]_(Pool!vars) PROVE Pool!IInv'
BY PoolAssumed, Pool!StepInv DEF IsFiniteSet, Pool!IsFiniteSet

\* What the semaphore's invariant says in the terms of the dispatch.
LEMMA PoolTells ==
    ASSUME Pool!IInv
    PROVE  Slots!CountsHolders /\ active <= Limit /\ Slots!WorkConserving
<1> USE PlanAssumption DEF Pool!IInv, PlanAssumption
<1>1. Slots!CountsHolders
  BY DEF Pool!CountsHolders, Slots!CountsHolders, Pool!At, Slots!At, Pool!Cardinality, Slots!Cardinality
<1>2. Slots!WorkConserving
  BY DEF Pool!WorkConserving, Slots!WorkConserving, Pool!At, Slots!At, Pool!Cardinality, Slots!Cardinality
<1>3. active <= Limit
  <2>1. Pool!HoldersWithin(Limit) = Pool!At("holding")
    BY DEF Pool!HoldersWithin, Pool!At
  <2> QED
    BY <2>1 DEF Pool!LimitRespected, Pool!CountsHolders
<1> QED
  BY <1>1, <1>2, <1>3

LEMMA InitInv == Init => IInv
<1> SUFFICES ASSUME Init PROVE IInv
  OBVIOUS
<1> USE OrderFacts DEF Init
<1>1. Types
  BY DEF Types, Stages, Places, Outcomes, Statuses
<1>2. TaskInv
  BY DEF TaskInv, WriterHandsBack, Finished
<1>3. CallerInv
  BY DEF CallerInv, AnswerIsHonest
<1>4. SlotInv
  <2>1. Pool!Init
    BY DEF Slots!Init, Pool!Init
  <2>2. Pool!IInv
    BY <2>1, PoolAssumed, Pool!InitInv DEF IsFiniteSet, Pool!IsFiniteSet
  <2> QED
    BY <2>2 DEF SlotInv, Slots!Init
<1> QED
  BY <1>1, <1>2, <1>3, <1>4 DEF Promised, IInv

-----------------------------------------------------------------------------
\* A task finishes as its writer may: what the caller has is not touched.
HandsBack(t) ==
    /\ result'[t] # "completed"
    /\ result'[t] = "needs-review" => t \in captured'
    /\ outcome'[t] = "cleanupFailed" => result'[t] = "failed" /\ t \notin captured'

LEMMA FinishInv ==
    ASSUME Promised, NEW t \in Tasks, NEW status \in Statuses, Settle(t, status),
           outcome' \in [Tasks -> Outcomes], \A q \in Tasks \ {t} : outcome'[q] = outcome[q],
           captured' \in {captured, captured \cup {t}},
           UNCHANGED <<dispatch, started, gathered, persisted, unsaved, answer>>,
           place[t] # "unstarted",
           t \in Writable => HandsBack(t)
    PROVE  Promised'
<1> USE DEF Promised, Types, Settle
<1>1. /\ place' \in [Tasks -> Places] /\ place'[t] = "finished" /\ result'[t] = status
      /\ \A q \in Tasks \ {t} : place'[q] = place[q] /\ result'[q] = result[q]
      /\ result' \in [Tasks -> Statuses]
  BY DEF Places
<1>2. Types'
  BY <1>1
<1>3. WriterHandsBack'
  BY <1>1 DEF TaskInv, WriterHandsBack, HandsBack, Finished
<1>4. TaskInv'
  <2>1. \A i \in (started + 1)..Len(Order) : Order[i] \in Tasks /\ Order[i] # t
    BY OrderFacts DEF TaskInv
  <2> QED
    BY <1>1, <1>3, <2>1 DEF TaskInv
<1>5. CallerInv'
  <2>1. Finished \subseteq Finished'
    BY <1>1 DEF Finished
  <2> QED
    BY <2>1 DEF CallerInv, AnswerIsHonest
<1> QED
  BY <1>2, <1>4, <1>5

LEMMA ConcludeInv ==
    ASSUME Promised, NEW t \in Tasks, NEW end \in Outcomes, Conclude(t, end),
           outcome' = [outcome EXCEPT ![t] = end],
           place[t] \in {"running", "refreshing"},
           UNCHANGED <<dispatch, started, gathered, persisted, unsaved, answer>>
    PROVE  Promised'
<1> PICK accepted \in BOOLEAN, collected \in BOOLEAN :
        LET ok == end = "ok" /\ accepted /\ (t \in Writable => collected)
        IN /\ captured' = IF t \in Writable /\ end # "cleanupFailed" /\ collected
                          THEN captured \cup {t} ELSE captured
           /\ Settle(t, CASE ~ok -> "failed"
                          [] ok /\ t \in Writable -> "needs-review"
                          [] OTHER -> "completed")
  BY DEF Conclude
<1> DEFINE ok == end = "ok" /\ accepted /\ (t \in Writable => collected)
           status == CASE ~ok -> "failed"
                       [] ok /\ t \in Writable -> "needs-review"
                       [] OTHER -> "completed"
<1>1. /\ status \in Statuses
      /\ ~ok => status = "failed"
      /\ ok /\ t \in Writable => status = "needs-review"
  BY DEF Statuses
<1>2. Settle(t, status)
  OBVIOUS
<1>3. outcome' \in [Tasks -> Outcomes] /\ outcome'[t] = end /\ \A q \in Tasks \ {t} : outcome'[q] = outcome[q]
  BY DEF Promised, Types
<1>4. t \notin captured /\ captured' \in {captured, captured \cup {t}}
  BY DEF Promised, TaskInv
<1>5. result'[t] = status
  BY <1>2 DEF Promised, Types, Settle
<1> HIDE DEF status
<1>6. t \in Writable => HandsBack(t)
  BY <1>1, <1>3, <1>4, <1>5 DEF HandsBack
<1> QED
  BY <1>1, <1>2, <1>3, <1>4, <1>6, FinishInv

-----------------------------------------------------------------------------
LEMMA GateInv == ASSUME Promised, GateClosed \/ GateOpen PROVE Promised'
<1> USE OrderFacts, PlanAssumption DEF Promised, Types
<1>1. \A t \in Tasks : place[t] = "unstarted"
  BY SMTT(30) DEF TaskInv, GateClosed, GateOpen
<1>2. CASE GateClosed
  <2>1. Types'
    BY <1>2 DEF GateClosed, Places, Statuses, Stages
  <2>2. \A t \in Tasks : outcome[t] = "none"
    BY <1>1 DEF TaskInv
  <2>3. TaskInv'
    BY <1>2, <2>2 DEF GateClosed, TaskInv, WriterHandsBack, Finished
  <2>4. CallerInv'
    BY <1>2 DEF GateClosed, CallerInv, AnswerIsHonest
  <2> QED
    BY <2>1, <2>3, <2>4
<1>3. CASE GateOpen
  <2>1. Types'
    BY <1>3 DEF GateOpen, tasks, Stages
  <2>2. TaskInv'
    BY <1>3 DEF GateOpen, tasks, TaskInv, WriterHandsBack, Finished
  <2>3. CallerInv'
    BY <1>3 DEF GateOpen, CallerInv, AnswerIsHonest
  <2> QED
    BY <2>1, <2>2, <2>3
<1> QED
  BY <1>2, <1>3

\* Each task is mapped once, from "unstarted".
LEMMA MapInv ==
    ASSUME Promised, NEW t \in Tasks, MapSkipped(t) \/ MapRefused(t) \/ MapRun(t)
    PROVE  Promised'
<1> USE OrderFacts, PlanAssumption DEF Promised, Types
<1>1. /\ dispatch = "mapping" /\ t = Order[started + 1] /\ started' = started + 1
      /\ dispatch' = IF started + 1 = Len(Order) THEN "required" ELSE "mapping"
      /\ UNCHANGED <<gathered, persisted, unsaved, answer, captured, outcome>>
  BY DEF MapSkipped, MapRefused, MapRun, Mapping
<1>2. started + 1 \in 1..Len(Order) /\ place[t] = "unstarted" /\ outcome[t] = "none" /\ t \notin captured
  BY SMTT(30), <1>1 DEF TaskInv
<1>3. /\ place' \in [Tasks -> Places] /\ result' \in [Tasks -> Statuses]
      /\ \A q \in Tasks \ {t} : place'[q] = place[q] /\ result'[q] = result[q]
      /\ place'[t] = "finished" => result'[t] \in {"skipped", "failed"}
  <2>1. ASSUME NEW status \in {"skipped", "failed"}, Settle(t, status) PROVE <1>3!:
    BY <2>1 DEF Settle, Places, Statuses
  <2>2. CASE MapSkipped(t) \/ MapRefused(t)
    BY <2>1, <2>2 DEF MapSkipped, MapRefused
  <2>3. CASE MapRun(t)
    BY <2>3 DEF MapRun, Places
  <2> QED
    BY <2>2, <2>3
<1>4. Types'
  <2>1. dispatch' \in Stages
    BY <1>1 DEF Stages
  <2> QED
    BY SMTT(30), <1>1, <1>2, <1>3, <2>1
<1>5. TaskInv'
  <2>1. \A i \in (started' + 1)..Len(Order) : Order[i] \in Tasks /\ Order[i] # t /\ place[Order[i]] = "unstarted"
    BY <1>1, <1>2 DEF TaskInv
  <2>2. WriterHandsBack'
    BY ZenonT(60), <1>1, <1>2, <1>3 DEF TaskInv, WriterHandsBack, Finished
  <2>3. dispatch' # "gate" /\ (dispatch' = "mapping" => started' < Len(Order))
    BY <1>1, <1>2
  <2>4. \A q \in Tasks :
             /\ place'[q] # "finished" => q \notin captured'
             /\ place'[q] = "unstarted" => outcome'[q] = "none"
    BY <1>1, <1>2, <1>3 DEF TaskInv
  <2>5. \A i \in (started' + 1)..Len(Order) : place'[Order[i]] = "unstarted"
    BY <1>3, <2>1
  <2> QED
    BY <2>2, <2>3, <2>4, <2>5 DEF TaskInv
<1>6. CallerInv'
  BY <1>1 DEF CallerInv, AnswerIsHonest
<1> QED
  BY <1>4, <1>5, <1>6

\* The steps of a task that leave it unfinished, and the other processes.
LEMMA UnderWayInv ==
    ASSUME Promised, SlotInv,
           \/ \E t \in Tasks : Woken(t) \/ Retry(t) \/ DeadlinePasses(t)
           \/ OthersChangeRegistry
    PROVE  Promised'
<1> USE DEF Promised, Types
<1>1. UNCHANGED <<outcome, captured, result, caller>>
  BY DEF Woken, Retry, DeadlinePasses, OthersChangeRegistry, tasks
<1>2. /\ place' \in [Tasks -> Places]
      /\ \A q \in Tasks : place'[q] # place[q] => place'[q] = "running" /\ place[q] \in {"waiting", "refreshing"}
  <2>1. ASSUME NEW t \in Tasks, Retry(t) PROVE <1>2!:
    BY <2>1 DEF Retry, Places
  <2>2. ASSUME NEW t \in Tasks, Woken(t) PROVE <1>2!:
    BY <2>2 DEF Woken, Places, SlotInv
  <2>3. ASSUME UNCHANGED place PROVE <1>2!:
    BY <2>3
  <2> QED
    BY <2>1, <2>2, <2>3 DEF DeadlinePasses, OthersChangeRegistry, tasks
<1>3. Types'
  BY <1>1, <1>2 DEF caller
<1>4. TaskInv'
  <2>1. \A q \in Tasks : (place'[q] = "finished" <=> place[q] = "finished") /\ (place[q] = "unstarted" <=> place'[q] = "unstarted")
    BY <1>2
  <2>2. \A i \in (started + 1)..Len(Order) : Order[i] \in Tasks
    BY OrderFacts
  <2>3. WriterHandsBack'
    BY <1>1, <2>1 DEF TaskInv, WriterHandsBack, Finished
  <2> QED
    BY <1>1, <2>1, <2>2, <2>3 DEF TaskInv, caller
<1>5. CallerInv'
  <2>1. Finished' = Finished
    BY <1>2 DEF Finished
  <2> QED
    BY <1>1, <2>1 DEF CallerInv, AnswerIsHonest, caller
<1> QED
  BY <1>3, <1>4, <1>5

LEMMA RunEndsInv ==
    ASSUME Promised, NEW t \in Tasks, NEW end \in Outcomes, RunEnds(t, end)
    PROVE  Promised'
<1>1. CASE Conclude(t, end)
  BY <1>1, ConcludeInv DEF RunEnds, caller
<1>2. CASE place' = [place EXCEPT ![t] = "refreshing"] /\ UNCHANGED <<slots, captured, result>>
  <2> USE <1>2 DEF Promised, Types, RunEnds, caller
  <2>1. Types'
    BY DEF Places
  <2>2. TaskInv'
    BY OrderFacts DEF TaskInv, WriterHandsBack, Finished
  <2>3. Finished' = Finished
    BY DEF Finished
  <2>4. CallerInv'
    BY <2>3 DEF CallerInv, AnswerIsHonest
  <2> QED
    BY <2>1, <2>2, <2>4
<1> QED
  BY <1>1, <1>2 DEF RunEnds

\* A rejected task has neither a result nor a patch, and what it may cost the
\* dispatch is that the process ends.
LEMMA RejectsInv ==
    ASSUME Promised, NEW t \in Tasks, Rejects(t)
    PROVE  Promised'
<1> USE DEF Promised, Types
<1>1. /\ place' = [place EXCEPT ![t] = "rejected"] /\ place[t] \in {"running", "refreshing"}
      /\ dispatch' \in {dispatch, "crashed"} /\ dispatch \notin {"gate", "mapping"}
      /\ UNCHANGED <<started, outcome, captured, result, gathered, persisted, unsaved, answer>>
  BY DEF Rejects, Async
<1>2. Types'
  BY <1>1 DEF Places, Stages
<1>3. Finished' = Finished
  BY <1>1 DEF Finished
<1>4. TaskInv'
  <2>1. \A i \in (started + 1)..Len(Order) : Order[i] \in Tasks /\ Order[i] # t
    BY <1>1, OrderFacts DEF TaskInv
  <2>2. WriterHandsBack'
    BY <1>1, <1>3 DEF TaskInv, WriterHandsBack, Finished
  <2> QED
    BY <1>1, <2>1, <2>2 DEF TaskInv
<1>5. CallerInv'
  BY <1>1, <1>3 DEF CallerInv, AnswerIsHonest
<1> QED
  BY <1>2, <1>4, <1>5

LEMMA CallerStepsInv ==
    ASSUME Promised, RequiredSettled \/ Dispatched \/ AllInGrace \/ GraceExpires \/ LatePersist
    PROVE  Promised'
<1> USE DEF Promised, Types
<1>1. /\ UNCHANGED <<tasks, started, gathered>> /\ Finished' = Finished
      /\ dispatch \in {"required", "dispatching", "grace", "answered"}
  BY DEF RequiredSettled, Dispatched, AllInGrace, GraceExpires, LatePersist, tasks, Finished
<1>2. dispatch' \in {"dispatching", "grace", "answered", "closed", "threw"}
  BY DEF RequiredSettled, Dispatched, AllInGrace, GraceExpires, LatePersist
<1>3. gathered \subseteq Finished /\ Required \subseteq gathered
  <2>1. dispatch = "required" => RequiredSettled
    BY <1>1 DEF Dispatched, AllInGrace, GraceExpires, LatePersist
  <2> QED
    BY <1>1, <2>1 DEF RequiredSettled, CallerInv
<1>4. ASSUME NEW results \in {gathered, Tasks}, Persist(results)
      PROVE  persisted' \subseteq Tasks /\ (unsaved' \/ gathered \subseteq persisted')
  BY <1>4 DEF Persist
<1>5. /\ persisted' \subseteq Tasks
      /\ dispatch' # "threw" => unsaved' \/ gathered \subseteq persisted'
  <2>1. CASE RequiredSettled \/ GraceExpires
    BY <1>4, <2>1 DEF RequiredSettled, GraceExpires
  <2>2. CASE AllInGrace
    BY <1>4, <2>2 DEF AllInGrace
  <2>3. CASE Dispatched
    BY <2>3 DEF Dispatched, CallerInv
  <2>4. CASE LatePersist
    BY <1>4, <2>4 DEF LatePersist, CallerInv
  <2> QED
    BY <2>1, <2>2, <2>3, <2>4
<1>6. Types' /\ TaskInv'
  BY <1>1, <1>2, <1>5 DEF tasks, TaskInv, WriterHandsBack, Finished, Stages
<1>7. AnswerIsHonest'
  <2> USE <1>1, <1>3, PlanAssumption DEF PlanAssumption, CallerInv, AnswerIsHonest
  <2>1. CASE RequiredSettled \/ Dispatched
    BY <2>1 DEF RequiredSettled, Dispatched
  <2>2. CASE AllInGrace
    BY <2>2 DEF AllInGrace, Persist
  <2>3. CASE GraceExpires
    BY <1>5, <2>3 DEF GraceExpires
  <2>4. CASE LatePersist
    <3>1. UNCHANGED answer /\ dispatch = "answered"
      BY <2>4 DEF LatePersist
    <3>2. answer.results \subseteq Tasks
      BY <3>1 DEF Finished
    <3>3. ~unsaved' => answer.results \subseteq persisted'
      BY <2>4, <3>1, <3>2 DEF LatePersist, Persist
    <3> QED
      BY <3>1, <3>3
  <2> QED
    BY <2>1, <2>2, <2>3, <2>4
<1> QED
  BY <1>1, <1>2, <1>3, <1>5, <1>6, <1>7 DEF CallerInv

-----------------------------------------------------------------------------
\* What every step of the dispatch is to the semaphore.
LEMMA SlotStep == ASSUME [Next]_vars PROVE [Pool!Next]_(Pool!vars)
<1> USE DEF Pool!vars
<1>1. ASSUME NEW t \in Tasks, Slots!Take(t) \/ Slots!Park(t) \/ Slots!Release(t) PROVE Pool!Next
  BY <1>1 DEF Pool!Next, Slots!Take, Pool!Take, Slots!Park, Pool!Park, Slots!Release, Pool!Release,
              Slots!Decremented, Pool!Decremented
<1>2. ASSUME NEW t \in Tasks, TaskStep(t) \/ DeadlinePasses(t) PROVE [Pool!Next]_(Pool!vars)
  <2>1. \/ Slots!Take(t) \/ Slots!Park(t) \/ Slots!Release(t)
        \/ UNCHANGED slots
    BY <1>2 DEF TaskStep, MapSkipped, MapRefused, MapRun, Woken, Retry, StopRetrying, Rejects, RunEnds, Conclude,
                DeadlinePasses
  <2> QED
    BY <1>1, <2>1 DEF slots
<1>3. UNCHANGED slots \/ \E t \in Tasks : TaskStep(t) \/ DeadlinePasses(t)
  BY DEF Next, vars, GateClosed, GateOpen, OthersChangeRegistry, RequiredSettled, Dispatched, AllInGrace,
         GraceExpires, LatePersist
<1> QED
  BY <1>2, <1>3 DEF slots

\* A release frees the slot of one task and wakes at most one that is parked.
LEMMA ReleaseDoes ==
    ASSUME Pool!IInv, NEW t \in Tasks, Slots!Release(t)
    PROVE  /\ slot[t] = "holding" /\ slot'[t] = "released"
           /\ \A q \in Tasks \ {t} :
                 slot'[q] = slot[q] \/ (slot[q] = "parked" /\ slot'[q] = "woken")
<1> USE DEF Pool!IInv, Pool!TypeOK, Pool!Places
<1>1. slot[t] = "holding" /\ slot \in [Tasks -> Pool!Places]
  BY DEF Slots!Release
<1>2. CASE waiters = <<>>
  BY <1>1, <1>2 DEF Slots!Release
<1>3. CASE waiters # <<>>
  <2>1. Head(waiters) = waiters[1] /\ 1 \in 1..Len(waiters) /\ Head(waiters) \in Tasks
    BY <1>3
  <2>2. slot[Head(waiters)] = "parked" /\ Head(waiters) # t
    BY <1>1, <2>1 DEF Pool!QueueIsParked, Pool!At
  <2>3. slot' = [slot EXCEPT ![t] = "released", ![Head(waiters)] = "woken"]
    BY <1>3 DEF Slots!Release
  <2> QED
    BY <1>1, <2>1, <2>2, <2>3
<1> QED
  BY <1>2, <1>3

\* A task that asks for a slot waits, one that works has it, and one that ends,
\* whatever the end, gives it back.
LEMMA SlotInvKept == ASSUME IInv, [Next]_vars PROVE SlotInv'
<1> USE DEF IInv, Promised, Types
<1>1. Pool!IInv'
  BY SlotStep, PoolKept DEF SlotInv
<1>2. Pool!IInv /\ slot \in [Tasks -> Pool!Places]
  BY DEF SlotInv, Pool!IInv, Pool!TypeOK
<1> DEFINE Works(p) == p \in {"running", "refreshing"}
           Follows == /\ \A q \in Tasks : slot[q] \in {"parked", "woken"} => place[q] = "waiting"
                      /\ \A q \in Tasks : slot[q] = "holding" <=> Works(place[q])
<1>3. Follows
  BY DEF SlotInv
<1>4. ASSUME UNCHANGED slots,
             \A q \in Tasks : place'[q] # place[q] =>
                 slot[q] \notin {"parked", "woken"} /\ (Works(place[q]) <=> Works(place'[q]))
      PROVE  Follows'
  BY <1>3, <1>4 DEF slots
<1>5. ASSUME NEW t \in Tasks,
             \/ Slots!Take(t) /\ place' = [place EXCEPT ![t] = "running"]
             \/ Slots!Park(t) /\ place' = [place EXCEPT ![t] = "waiting"]
      PROVE  Follows'
  BY <1>2, <1>3, <1>5 DEF Slots!Take, Slots!Park
<1>6. ASSUME NEW t \in Tasks, Slots!Release(t), \A q \in Tasks \ {t} : place'[q] = place[q],
             ~Works(place'[t])
      PROVE  Follows'
  BY <1>2, <1>3, <1>6, ReleaseDoes
<1>7. ASSUME NEW t \in Tasks, NEW end, Conclude(t, end) PROVE Follows'
  <2>1. PICK status : Settle(t, status)
    BY <1>7 DEF Conclude
  <2>2. Slots!Release(t) /\ ~Works(place'[t]) /\ \A q \in Tasks \ {t} : place'[q] = place[q]
    BY <1>7, <2>1 DEF Conclude, Settle
  <2> QED
    BY <1>6, <2>2
<1>8. ASSUME NEW t \in Tasks, TaskStep(t) \/ DeadlinePasses(t) PROVE Follows'
  <2>1. CASE MapSkipped(t) \/ MapRefused(t)
    <3>1. /\ UNCHANGED slots /\ place[t] = "unstarted" /\ place'[t] = "finished"
          /\ \A q \in Tasks \ {t} : place'[q] = place[q]
      BY <2>1, OrderFacts DEF MapSkipped, MapRefused, Mapping, TaskInv, Settle
    <3> QED
      BY <1>3, <1>4, <3>1
  <2>2. CASE MapRun(t)
    BY <1>5, <2>2 DEF MapRun
  <2>3. CASE Woken(t)
    <3>1. place = [place EXCEPT ![t] = "waiting"]
      BY <1>3, <2>3 DEF Woken
    <3> QED
      BY <1>5, <2>3, <3>1 DEF Woken
  <2>4. CASE Retry(t)
    BY <1>3, <1>4, <2>4 DEF Retry
  <2>5. CASE StopRetrying(t)
    BY <1>7, <2>5 DEF StopRetrying
  <2>6. CASE Rejects(t)
    BY <1>6, <2>6 DEF Rejects
  <2>7. ASSUME NEW end \in Ends, RunEnds(t, end) PROVE Follows'
    <3>1. CASE Conclude(t, end)
      BY <1>7, <3>1
    <3>2. CASE place' = [place EXCEPT ![t] = "refreshing"] /\ UNCHANGED slots
      BY <1>3, <1>4, <2>7, <3>2 DEF RunEnds
    <3> QED
      BY <2>7, <3>1, <3>2 DEF RunEnds
  <2>8. CASE DeadlinePasses(t)
    BY <1>4, <2>8 DEF DeadlinePasses
  <2> QED
    BY <1>8, <2>1, <2>2, <2>3, <2>4, <2>5, <2>6, <2>7, <2>8 DEF TaskStep
<1>9. ASSUME GateClosed PROVE Follows'
  <2>1. \A q \in Tasks : place[q] = "unstarted" /\ place'[q] = "finished"
    BY <1>9, OrderFacts DEF GateClosed, TaskInv
  <2>2. UNCHANGED slots
    BY <1>9 DEF GateClosed
  <2>3. \A q \in Tasks : slot[q] \notin {"parked", "woken"} /\ ~Works(place[q]) /\ ~Works(place'[q])
    BY <1>3, <2>1
  <2> QED
    BY <1>4, <2>2, <2>3
<1>10. ASSUME UNCHANGED <<slots, place>> PROVE Follows'
  BY <1>3, <1>10 DEF slots
<1>11. \/ GateClosed \/ UNCHANGED <<slots, place>>
       \/ \E t \in Tasks : TaskStep(t) \/ DeadlinePasses(t)
  BY DEF Next, vars, tasks, GateOpen, OthersChangeRegistry, RequiredSettled, Dispatched, AllInGrace,
         GraceExpires, LatePersist
<1> HIDE DEF Follows
<1>12. Follows'
  BY <1>8, <1>9, <1>10, <1>11
<1> QED
  BY <1>1, <1>12 DEF SlotInv, Follows

LEMMA NextInv == IInv /\ [Next]_vars => IInv'
<1> SUFFICES ASSUME IInv, [Next]_vars PROVE IInv'
  OBVIOUS
<1> USE DEF IInv
<1>1. SlotInv'
  BY SlotInvKept
<1>2. ASSUME NEW t \in Tasks, TaskStep(t) PROVE Promised'
  <2>1. CASE MapSkipped(t) \/ MapRefused(t) \/ MapRun(t)
    BY <2>1, MapInv
  <2>2. CASE Woken(t) \/ Retry(t)
    BY <2>2, UnderWayInv
  <2>3. CASE StopRetrying(t)
    <3>1. outcome[t] \in Outcomes /\ outcome' = [outcome EXCEPT ![t] = outcome[t]]
      BY <2>3 DEF Promised, Types, StopRetrying
    <3> QED
      BY <2>3, <3>1, ConcludeInv DEF StopRetrying, caller
  <2>4. ASSUME NEW end \in Ends, RunEnds(t, end) PROVE Promised'
    BY <2>4, RunEndsInv DEF Ends
  <2>5. CASE Rejects(t)
    BY <2>5, RejectsInv
  <2> QED
    BY <1>2, <2>1, <2>2, <2>3, <2>4, <2>5 DEF TaskStep
<1>3. CASE \/ \E t \in Tasks : DeadlinePasses(t)
           \/ OthersChangeRegistry
  BY <1>1, <1>3, UnderWayInv
<1>4. CASE GateClosed \/ GateOpen
  BY <1>1, <1>4, GateInv
<1>5. CASE RequiredSettled \/ Dispatched \/ AllInGrace \/ GraceExpires \/ LatePersist
  BY <1>1, <1>5, CallerStepsInv
<1>6. CASE UNCHANGED vars
  BY <1>1, <1>6 DEF vars, tasks, caller, Promised, Types, TaskInv, CallerInv, WriterHandsBack, Finished, AnswerIsHonest
<1> QED
  BY <1>1, <1>2, <1>3, <1>4, <1>5, <1>6 DEF Next

LEMMA AlwaysInv == Spec => []IInv
BY InitInv, NextInv, PTL DEF Spec

\* Whatever a writer's attempts came to, its success is a handback with the
\* patch, and after a failed cleanup there is neither.
THEOREM WritersHandBack == Spec => []WriterHandsBack
BY AlwaysInv, PTL DEF IInv, Promised, TaskInv

\* Whichever side wins the grace race, an answer that does not admit to pending
\* results has them all, no answer lacks a required one or lists one that is not
\* there, and the file has what it lists unless its last write failed.
THEOREM AnswersAreHonest == Spec => []AnswerIsHonest
BY AlwaysInv, PTL DEF IInv, Promised, CallerInv

\* Retried, rejected, cleaned up or not: the slots taken are those of the tasks
\* at work, within the limit, and none stays idle while a task is parked.
THEOREM SlotsAlwaysFollowRuns == Spec => []SlotsFollowRuns
<1>1. IInv => SlotsFollowRuns
  <2> SUFFICES ASSUME IInv PROVE SlotsFollowRuns
    OBVIOUS
  <2>1. Slots!At("holding") = {t \in Tasks : place[t] \in {"running", "refreshing"}}
    BY DEF IInv, SlotInv, Slots!At
  <2>2. Slots!CountsHolders /\ active <= Limit /\ Slots!WorkConserving
    BY PoolTells DEF IInv, SlotInv
  <2> QED
    BY <2>1, <2>2 DEF SlotsFollowRuns
<1> QED
  BY <1>1, AlwaysInv, PTL
=============================================================================

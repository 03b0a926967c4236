------------------------ MODULE SidecarSlots_proofs ------------------------
(***************************************************************************)
(* Safety of the slot semaphore for any finite set of calls and any limits *)
(* between 1 and 20.  The inductive invariant joins the counter, the queue *)
(* and the two promises: a wake-up can only be given away because the      *)
(* queue lists exactly the parked calls, and a limit is only respected     *)
(* because the counter counts exactly the holders.                         *)
(***************************************************************************)
EXTENDS SidecarSlots, FiniteSetTheorems, TLAPS

IInv == TypeOK /\ CountsHolders /\ QueueIsParked /\ WorkConserving /\ LimitRespected

\* Any selection of calls is finite, so its cardinality is a number.
LEMMA CallSetsFinite ==
    ASSUME NEW S, S \subseteq Calls
    PROVE  IsFiniteSet(S) /\ Cardinality(S) \in Nat
BY CallsAssumption, FS_Subset, FS_CardinalityType

\* One holder more, or less, moves the number of holders by one.
LEMMA OneMore ==
    ASSUME NEW S, S \subseteq Calls, NEW c \in Calls, c \notin S
    PROVE  Cardinality(S \cup {c}) = Cardinality(S) + 1
BY CallSetsFinite, FS_AddElement

LEMMA OneLess ==
    ASSUME NEW S, S \subseteq Calls, NEW c \in S
    PROVE  Cardinality(S \ {c}) = Cardinality(S) - 1
BY CallSetsFinite, FS_RemoveElement

LEMMA SmallerSet ==
    ASSUME NEW S, NEW T, S \subseteq T, T \subseteq Calls
    PROVE  Cardinality(S) <= Cardinality(T)
BY CallSetsFinite, FS_Subset

\* The initial state, where nothing runs and nothing waits, satisfies it all.
LEMMA InitInv == Init => IInv
<1> SUFFICES ASSUME Init PROVE IInv
  OBVIOUS
<1>1. At("holding") = {} /\ At("parked") = {}
  BY DEF Init, At
<1>2. CountsHolders
  BY <1>1, FS_EmptySet DEF Init, CountsHolders
<1>3. LimitRespected
  <2>1. \A m \in 1..20 : HoldersWithin(m) = {}
    BY <1>1 DEF HoldersWithin
  <2> QED
    BY <2>1, FS_EmptySet DEF LimitRespected
<1>4. TypeOK /\ QueueIsParked /\ WorkConserving
  BY <1>1 DEF Init, TypeOK, Places, QueueIsParked, WorkConserving
<1> QED
  BY <1>2, <1>3, <1>4 DEF IInv

\* A call that takes a slot.
LEMMA TakeInv == ASSUME IInv, NEW c \in Calls, Take(c) PROVE IInv'
<1> USE DEF IInv
<1>1. TypeOK'
  BY DEF TypeOK, Take, Places
<1>2. /\ At("holding")' = At("holding") \cup {c}
      /\ c \notin At("holding")
      /\ At("parked")' = At("parked")
  BY DEF TypeOK, Take, At
<1>3. CountsHolders'
  BY <1>2, OneMore DEF CountsHolders, Take, At
<1>4. QueueIsParked'
  BY <1>2 DEF QueueIsParked, Take
<1>5. WorkConserving'
  <2>1. /\ At("woken") \subseteq Calls
        /\ At("woken")' = At("woken") \/ (c \in At("woken") /\ At("woken")' = At("woken") \ {c})
    BY DEF TypeOK, Take, At
  <2>2. /\ Cardinality(At("woken")) \in Nat
        /\ \/ Cardinality(At("woken")') = Cardinality(At("woken"))
           \/ Cardinality(At("woken")') = Cardinality(At("woken")) - 1
    BY <2>1, CallSetsFinite, OneLess
  <2>3. active \in Nat /\ active' = active + 1
    BY DEF TypeOK, Take
  <2> QED
    BY <1>2, <2>2, <2>3, MaxAssumption DEF WorkConserving
<1>6. LimitRespected'
  <2> SUFFICES ASSUME NEW m \in 1..20
               PROVE  Cardinality(HoldersWithin(m)') <= m
    BY DEF LimitRespected
  <2>1. HoldersWithin(m) \subseteq At("holding") /\ At("holding") \subseteq Calls
    BY DEF HoldersWithin, At
  <2>2. CASE MaxOf[c] > m
    <3>1. HoldersWithin(m)' = HoldersWithin(m)
      BY <1>2, <2>2, MaxAssumption DEF HoldersWithin
    <3> QED
      BY <3>1 DEF LimitRespected
  <2>3. CASE MaxOf[c] <= m
    <3>1. HoldersWithin(m)' = HoldersWithin(m) \cup {c} /\ c \notin HoldersWithin(m)
      BY <1>2, <2>3, MaxAssumption DEF HoldersWithin
    <3>2. Cardinality(HoldersWithin(m)') = Cardinality(HoldersWithin(m)) + 1
      BY <2>1, <3>1, OneMore
    <3>3. Cardinality(HoldersWithin(m)) <= Cardinality(At("holding"))
      BY <2>1, SmallerSet
    <3>4. Cardinality(At("holding")) < MaxOf[c]
      BY DEF CountsHolders, Take
    <3> QED
      BY <2>1, <2>3, <3>2, <3>3, <3>4, CallSetsFinite, MaxAssumption
  <2> QED
    BY <2>2, <2>3, MaxAssumption
<1> QED
  BY <1>1, <1>3, <1>4, <1>5, <1>6

\* A call that queues.
LEMMA ParkInv == ASSUME IInv, NEW c \in Calls, Park(c) PROVE IInv'
<1> USE DEF IInv
<1>1. TypeOK'
  BY DEF TypeOK, Park, Places
<1>2. /\ At("holding")' = At("holding")
      /\ At("parked")' = At("parked") \cup {c}
      /\ c \notin At("parked")
  BY DEF TypeOK, Park, At
<1>3. CountsHolders'
  BY <1>2 DEF CountsHolders, Park
<1>4. QueueIsParked'
  <2>1. /\ Len(waiters') = Len(waiters) + 1
        /\ waiters'[Len(waiters) + 1] = c
        /\ \A i \in 1..Len(waiters) : waiters'[i] = waiters[i]
    BY DEF TypeOK, Park
  <2>2. Len(waiters) \in Nat
    BY DEF TypeOK
  <2>3. {waiters'[i] : i \in 1..Len(waiters')} = {waiters[i] : i \in 1..Len(waiters)} \cup {c}
    BY <2>1, <2>2
  <2>4. \A i \in 1..Len(waiters) : waiters[i] # c
    BY <1>2 DEF QueueIsParked
  <2>5. \A i, j \in 1..Len(waiters') : waiters'[i] = waiters'[j] => i = j
    BY <2>1, <2>2, <2>4 DEF QueueIsParked
  <2> QED
    BY <1>2, <2>3, <2>5 DEF QueueIsParked
<1>5. WorkConserving'
  <2>1. At("woken")' \subseteq Calls
    BY DEF At
  <2>2. Cardinality(At("woken")') \in Nat
    BY <2>1, CallSetsFinite
  <2>3. active' \in Nat /\ active' >= MaxOf[c] /\ MaxOf[c] \in 1..20
    BY MaxAssumption DEF TypeOK, Park
  <2> QED
    BY <2>2, <2>3 DEF WorkConserving
<1>6. LimitRespected'
  BY <1>2 DEF LimitRespected, HoldersWithin
<1> QED
  BY <1>1, <1>3, <1>4, <1>5, <1>6

\* A call that gives its slot back, with the queue empty or not.
LEMMA ReleaseInv == ASSUME IInv, NEW c \in Calls, Release(c) PROVE IInv'
<1> USE DEF IInv
<1>0. c \in At("holding") /\ At("holding") \subseteq Calls
  BY DEF Release, At
<1>1. ASSUME waiters = <<>>
      PROVE  /\ TypeOK' /\ QueueIsParked' /\ WorkConserving'
             /\ At("holding")' = At("holding") \ {c}
  <2>1. TypeOK'
    BY <1>1 DEF TypeOK, Release, Places, Decremented
  <2>2. /\ At("holding")' = At("holding") \ {c}
        /\ At("parked")' = At("parked")
        /\ waiters' = waiters
    BY <1>1 DEF TypeOK, Release, At
  <2>3. At("parked") = {}
    BY <1>1 DEF QueueIsParked
  <2>4. QueueIsParked' /\ WorkConserving'
    BY <2>2, <2>3 DEF QueueIsParked, WorkConserving
  <2> QED
    BY <2>1, <2>2, <2>4 DEF Release
<1>2. ASSUME waiters # <<>>
      PROVE  /\ TypeOK' /\ QueueIsParked' /\ WorkConserving'
             /\ At("holding")' = At("holding") \ {c}
  <2> DEFINE w == Head(waiters)
  <2>1. /\ Len(waiters) \in Nat \ {0}
        /\ w = waiters[1]
        /\ Len(waiters') = Len(waiters) - 1
        /\ \A i \in 1..Len(waiters') : waiters'[i] = waiters[i + 1]
    BY <1>2 DEF TypeOK, Release
  <2>2. w \in At("parked") /\ w # c /\ w \in Calls
    BY SMTT(30), <1>0, <2>1 DEF QueueIsParked, At
  <2>3. TypeOK'
    <3>1. waiters' \in Seq(Calls)
      BY SMTT(30), <1>2 DEF TypeOK, Release
    <3>2. pc' = [pc EXCEPT ![c] = "released", ![w] = "woken"]
      BY <1>2 DEF Release
    <3>3. pc' \in [Calls -> Places]
      BY <2>2, <3>2 DEF TypeOK, Places
    <3>4. active' \in Nat
      BY DEF TypeOK, Release, Decremented
    <3> QED
      BY <3>1, <3>3, <3>4 DEF TypeOK
  <2>4. /\ At("holding")' = At("holding") \ {c}
        /\ At("parked")' = At("parked") \ {w}
        /\ At("woken")' = At("woken") \cup {w}
        /\ w \notin At("woken")
    BY <1>2, <2>2 DEF TypeOK, Release, At
  <2>5. {waiters'[i] : i \in 1..Len(waiters')} = {waiters[i] : i \in 1..Len(waiters)} \ {w}
    <3>1. \A i \in 1..Len(waiters) : waiters[i] = w => i = 1
      BY <2>1 DEF QueueIsParked
    <3>2. \A i \in 2..Len(waiters) : waiters'[i - 1] = waiters[i] /\ i - 1 \in 1..Len(waiters')
      BY <2>1
    <3>3. \A i \in 1..Len(waiters') : i + 1 \in 2..Len(waiters)
      BY <2>1
    <3> QED
      BY <2>1, <3>1, <3>2, <3>3
  <2>6. \A i, j \in 1..Len(waiters') : waiters'[i] = waiters'[j] => i = j
    BY <2>1 DEF QueueIsParked
  <2>7. QueueIsParked'
    BY <2>4, <2>5, <2>6 DEF QueueIsParked
  <2>8. WorkConserving'
    <3>1. At("woken") \subseteq Calls
      BY DEF At
    <3>2. /\ Cardinality(At("woken")) \in Nat
          /\ Cardinality(At("woken")') = Cardinality(At("woken")) + 1
      BY <2>2, <2>4, <3>1, CallSetsFinite, OneMore
    <3>3. active \in Nat /\ active' = active - 1
      <4>1. At("holding") # {} /\ At("holding") \subseteq Calls
        BY <1>0
      <4>2. Cardinality(At("holding")) # 0
        BY <4>1, CallSetsFinite, FS_EmptySet
      <4> QED
        BY <4>2 DEF TypeOK, CountsHolders, Release, Decremented
    <3> QED
      BY <2>2, <3>2, <3>3, MaxAssumption DEF WorkConserving
  <2> QED
    BY <2>3, <2>4, <2>7, <2>8
<1>3. At("holding")' = At("holding") \ {c}
  BY <1>1, <1>2
<1>4. CountsHolders'
  <2>1. Cardinality(At("holding")') = Cardinality(At("holding")) - 1
    BY <1>0, <1>3, OneLess
  <2>2. Cardinality(At("holding")) # 0
    BY <1>0, CallSetsFinite, FS_EmptySet
  <2> QED
    BY <2>1, <2>2 DEF CountsHolders, Release, Decremented
<1>5. LimitRespected'
  <2> SUFFICES ASSUME NEW m \in 1..20
               PROVE  Cardinality(HoldersWithin(m)') <= m
    BY DEF LimitRespected
  <2>1. HoldersWithin(m)' \subseteq HoldersWithin(m) /\ HoldersWithin(m) \subseteq Calls
    BY <1>0, <1>3 DEF HoldersWithin
  <2>2. Cardinality(HoldersWithin(m)') <= Cardinality(HoldersWithin(m))
    BY <2>1, SmallerSet
  <2>3. Cardinality(HoldersWithin(m)') \in Nat /\ Cardinality(HoldersWithin(m)) \in Nat
    BY <2>1, CallSetsFinite
  <2> QED
    BY <2>2, <2>3 DEF LimitRespected
<1> QED
  BY <1>1, <1>2, <1>4, <1>5

LEMMA StepInv == IInv /\ [Next]_vars => IInv'
<1>1. ASSUME IInv, UNCHANGED vars PROVE IInv'
  <2> USE <1>1 DEF IInv, vars
  <2>1. \A place : At(place)' = At(place)
    BY DEF At
  <2>2. TypeOK' /\ CountsHolders' /\ QueueIsParked' /\ WorkConserving'
    BY <2>1 DEF TypeOK, CountsHolders, QueueIsParked, WorkConserving
  <2>3. LimitRespected'
    BY <2>1 DEF LimitRespected, HoldersWithin
  <2> QED
    BY <2>2, <2>3
<1> QED
  BY <1>1, TakeInv, ParkInv, ReleaseInv DEF Next

\* acquireSidecarSlot and releaseSidecarSlot keep the counter exact, the queue
\* without duplicates or leftovers, every parked call with a future wake-up,
\* and every call's own limit, for any number of calls and any limits.
THEOREM SlotSafety == Spec => [](TypeOK /\ CountsHolders /\ QueueIsParked /\ WorkConserving /\ LimitRespected)
<1>1. Spec => []IInv
  BY InitInv, StepInv, PTL DEF Spec, Safe
<1> QED
  BY <1>1, PTL DEF IInv

\* While a call is parked, some call's limit is reached by the calls that hold
\* a slot or have been woken: no slot idles with one limit, nobody is stranded
\* with several.
THEOREM WorkIsConserved == Spec => []WorkConserving
BY SlotSafety, PTL

\* No call's own limit on running sidecars is exceeded.
THEOREM LimitsRespected == Spec => []LimitRespected
BY SlotSafety, PTL

\* Both at once, as the runs check them.
THEOREM SlotsAlwaysHold == Spec => []SlotsHold
<1>1. WorkConserving /\ LimitRespected => SlotsHold
  BY DEF SlotsHold
<1> QED
  BY <1>1, WorkIsConserved, LimitsRespected, PTL

-----------------------------------------------------------------------------
\* The counter and queue implement the abstract pool: parking and waking are
\* invisible, taking and releasing a slot are the abstract steps.
THEOREM SlotsImplementPool == Spec => ImplementsPoolSafety
<1>1. Init => Pool!Init
  BY DEF Init, Pool!Init, At
<1>2. IInv /\ [Next]_vars => [Pool!Next]_Pool!vars
  <2> SUFFICES ASSUME IInv, [Next]_vars PROVE [Pool!Next]_Pool!vars
    OBVIOUS
  <2> USE DEF Pool!vars
  <2>1. ASSUME NEW c \in Calls, Take(c) PROVE Pool!Acquire(c)
    <3>1. c \notin At("holding") \cup At("released")
      BY <2>1 DEF Take, At
    <3>2. /\ At("holding")' = At("holding") \cup {c}
          /\ At("released")' = At("released")
      BY <2>1 DEF IInv, TypeOK, Take, At
    <3>3. Cardinality(At("holding")) < MaxOf[c]
      BY <2>1 DEF IInv, CountsHolders, Take
    <3>4. Pool!Cardinality(At("holding")) = Cardinality(At("holding"))
      BY DEF Cardinality, Pool!Cardinality
    <3> QED
      BY <3>1, <3>2, <3>3, <3>4 DEF Pool!Acquire
  <2>2. ASSUME NEW c \in Calls, Park(c) PROVE UNCHANGED Pool!vars
    BY <2>2 DEF IInv, TypeOK, Park, At
  <2>3. ASSUME NEW c \in Calls, Release(c) PROVE Pool!Release(c)
    <3>1. \A i \in 1..Len(waiters) : waiters[i] \in At("parked")
      BY DEF IInv, QueueIsParked
    <3>2. waiters # <<>> => Head(waiters) \in At("parked")
      BY <3>1 DEF IInv, TypeOK
    <3> QED
      BY <2>3, <3>2 DEF IInv, TypeOK, Release, Pool!Release, At
  <2>4. CASE UNCHANGED vars
    BY <2>4 DEF vars, At
  <2> QED
    BY <2>1, <2>2, <2>3, <2>4 DEF Next, Pool!Next
<1>3. Spec => []IInv
  BY InitInv, StepInv, PTL DEF Spec, Safe
<1> QED
  BY <1>1, <1>2, <1>3, PTL DEF Spec, Safe, ImplementsPoolSafety, Pool!Safe
=============================================================================

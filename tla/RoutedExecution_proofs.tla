----------------------- MODULE RoutedExecution_proofs -----------------------
(***************************************************************************)
(* Routed execution for every set of calls and steps: a recipe runs once   *)
(* per decision and per step, the provider's budget is kept, and evidence  *)
(* is that of its fingerprint.                                             *)
(***************************************************************************)
EXTENDS RoutedExecution, FiniteSetTheorems, TLAPS

\* A call between its step claim and its receipt.
Working == {"reading", "checking", "routing", "reserving", "counting", "counted", "asking",
            "routed", "running", "ok", "failed", "verifying", "refusing"}
Over == {"ok", "failed", "verifying", "refusing", "returned", "crashed"}

\* A call that holds the claim of its decision, or of its step.
Begun(c) == c \in ran \/ place[c] = "running"
Holds(c) == step[c] # NoStep /\ (c \in ran \/ place[c] \in Working)

ClaimInv ==
    /\ \A c \in ran : place[c] \in Over
    /\ \A c \in Calls : Begun(c) => decision[c] \in executed
    /\ \A b, c \in Calls : Begun(b) /\ Begun(c) /\ decision[b] = decision[c] => b = c
    /\ \A c \in Calls : Holds(c) => step[c] \in claimed
    /\ \A b, c \in Calls : Holds(b) /\ Holds(c) /\ step[b] = step[c] => b = c

\* The calls that have been counted, and may still ask.
Counted == asked \cup {c \in Calls : place[c] = "counted"}

BudgetInv ==
    /\ \A c \in Calls : place[c] \in {"counting", "counted"} => budgetLock = c
    /\ Cardinality(Counted) <= used /\ Cardinality(Counted) <= DailyLimit

\* What was read is what was fingerprinted, once the second look agreed: the
\* version only grows, so it has not moved in between.
SourceInv ==
    /\ \A c \in Calls : hash[c] <= source /\ read[c] <= source
    /\ \A c \in Calls : place[c] = "checking" => hash[c] <= read[c]
    /\ \A c \in Calls : place[c] \in {"ok", "verifying"} /\ step[c] \in Evidence => read[c] = hash[c]
    /\ EvidenceIsOfItsSource

\* A call on a recipe step does not go through the evidence operations.
PathInv ==
    /\ \A c \in Calls : place[c] \in {"unclaimed", "verifying", "refusing"} => step[c] \in Steps
    /\ \A c \in Calls : place[c] \in {"reading", "checking"} => step[c] \in Evidence
    /\ \A c \in Calls :
          place[c] \in {"routing", "reserving", "counting", "counted", "asking", "routed", "running"}
              => step[c] \in RecipeSteps \cup {NoStep}
    /\ \A c \in Calls : place[c] = "idle" => step[c] = NoStep
    /\ \A c \in Calls : place[c] \in {"routed", "running"} => decision[c] \in Calls

LEMMA InitInv == StepsInit => StepsTyped /\ ClaimInv /\ BudgetInv /\ SourceInv /\ PathInv
<1> SUFFICES ASSUME StepsInit PROVE StepsTyped /\ ClaimInv /\ BudgetInv /\ SourceInv /\ PathInv
  OBVIOUS
<1> USE RoutedAssumption DEF StepsInit
<1>1. StepsTyped
  <2>1. NoReceipt \in Receipts
    BY DEF NoReceipt, Receipts
  <2> QED
    BY <2>1 DEF StepsTyped, CallPlaces, Torn
<1>2. ClaimInv
  BY DEF ClaimInv, Begun, Holds, Working
<1>3. Counted = {}
  BY DEF Counted
<1>4. BudgetInv
  BY <1>3, FS_EmptySet DEF BudgetInv
<1>5. SourceInv
  BY DEF SourceInv, EvidenceIsOfItsSource, NoReceipt, Evidence
<1>6. PathInv
  BY DEF PathInv
<1> QED
  BY <1>1, <1>2, <1>4, <1>5, <1>6

LEMMA TypeInv == ASSUME StepsTyped, PathInv, [StepsNext]_routedVars PROVE StepsTyped'
<1> USE RoutedAssumption DEF StepsTyped, CallPlaces, Goto
<1>1. ASSUME NEW c \in Calls, CallNext(c) PROVE StepsTyped'
  <2>1. ASSUME NEW s \in Steps, BeginStep(c, s) PROVE StepsTyped'
    BY <2>1 DEF BeginStep, execVars, routeVars, budgetVars
  <2>2. CASE ClaimStep(c)
    BY <2>2 DEF PathInv, ClaimStep, execVars, routeVars, budgetVars
  <2>3. CASE ReadSource(c) \/ CheckSource(c)
    BY <2>3 DEF ReadSource, CheckSource, stepVars, execVars, routeVars, budgetVars
  <2>4. CASE BeginRun(c) \/ RouteLocally(c) \/ RouteFromCache(c) \/ RouteByProvider(c)
    BY <2>4 DEF BeginRun, RouteLocally, RouteFromCache, RouteByProvider, UseAnswer, Decide,
                stepVars, execVars, routeVars, budgetVars
  <2>5. CASE OpenBudgetLock(c) \/ Count(c) \/ Unlock(c)
    BY <2>5 DEF OpenBudgetLock, Count, Unlock, Torn, stepVars, execVars, routeVars
  <2>6. CASE Receive(c)
    BY <2>6 DEF Receive, UseAnswer, Decide, Answers, stepVars, execVars, budgetVars
  <2>7. ASSUME NEW d \in Calls, ReadDecision(c, d) PROVE StepsTyped'
    BY <2>7 DEF ReadDecision, stepVars, execVars, routeVars, budgetVars
  <2>8. CASE ClaimDecision(c) \/ RunRecipe(c)
    BY <2>8 DEF PathInv, ClaimDecision, RunRecipe, stepVars, routeVars, budgetVars
  <2>9. CASE StartReceipt(c)
    <3>1. [NoReceipt EXCEPT !.state = "torn"] \in Receipts
      BY DEF NoReceipt, Receipts
    <3> QED
      BY <2>9, <3>1 DEF StartReceipt, execVars, routeVars, budgetVars
  <2>10. CASE FillReceipt(c)
    BY <2>10 DEF FillReceipt, Receipts, execVars, routeVars, budgetVars
  <2>11. CASE ReturnRun(c)
    BY <2>11 DEF ReturnRun, stepVars, execVars, routeVars, budgetVars
  <2>12. CASE DieBetween(c)
    BY <2>12 DEF DieBetween, Torn, stepVars, execVars, routeVars
  <2> QED
    BY <1>1, <2>1, <2>2, <2>3, <2>4, <2>5, <2>6, <2>7, <2>8, <2>9, <2>10, <2>11, <2>12 DEF CallNext
<1>2. CASE Expire
  BY <1>2 DEF Expire, stepVars, execVars, budgetVars
<1>3. CASE EditSource
  BY <1>3 DEF EditSource, stepVars, execVars, routeVars, budgetVars
<1>4. CASE UNCHANGED routedVars
  BY <1>4 DEF routedVars, stepVars, execVars, routeVars, budgetVars
<1> QED
  BY <1>1, <1>2, <1>3, <1>4 DEF StepsNext

-----------------------------------------------------------------------------
\* Claims only grow, and a step that begins nothing and takes no step keeps them.
LEMMA ClaimStays ==
    ASSUME StepsTyped, StepsTyped', ClaimInv,
           executed \subseteq executed', claimed \subseteq claimed',
           \A c \in Calls : Begun(c)' => Begun(c) /\ decision'[c] = decision[c],
           \A c \in Calls : Holds(c)' => Holds(c) /\ step'[c] = step[c],
           \A c \in ran' : place'[c] \in Over
    PROVE  ClaimInv'
BY DEF ClaimInv, StepsTyped

LEMMA ClaimSteps ==
    ASSUME StepsTyped, StepsTyped', ClaimInv, PathInv, NEW c \in Calls, CallNext(c) PROVE ClaimInv'
<1> USE DEF StepsTyped, Goto, Over, Working
<1>1. CASE ClaimStep(c)
  <2>1. ran' = ran /\ executed' = executed /\ decision' = decision /\ step' = step
        /\ claimed \subseteq claimed' /\ place[c] = "unclaimed" /\ c \notin ran
    BY <1>1 DEF ClaimStep, execVars, ClaimInv
  <2>2. \A b \in Calls : Begun(b)' => Begun(b)
    BY <1>1, <2>1 DEF Begun, ClaimStep
  <2>3. \A b \in Calls : b # c => (Holds(b)' <=> Holds(b))
    BY <1>1, <2>1 DEF Holds, ClaimStep
  <2>4. Holds(c)' => step[c] \in claimed' \ claimed
    BY <1>1, <2>1 DEF Holds, ClaimStep
  <2>5. \A b \in ran' : place'[b] \in Over
    BY <1>1, <2>1 DEF ClaimStep, ClaimInv
  <2> QED
    BY <2>1, <2>2, <2>3, <2>4, <2>5 DEF ClaimInv
<1>2. CASE ClaimDecision(c)
  <2>1. ran' = ran /\ claimed' = claimed /\ decision' = decision /\ step' = step
        /\ executed \subseteq executed' /\ place[c] = "routed" /\ c \notin ran
    BY <1>2 DEF ClaimDecision, stepVars, ClaimInv
  <2>2. \A b \in Calls : Holds(b)' => Holds(b)
    BY <1>2, <2>1 DEF Holds, ClaimDecision
  <2>3. \A b \in Calls : b # c => (Begun(b)' <=> Begun(b))
    BY <1>2, <2>1 DEF Begun, ClaimDecision
  <2>4. Begun(c)' => decision[c] \in executed' \ executed
    BY <1>2, <2>1 DEF Begun, ClaimDecision
  <2>5. \A b \in ran' : place'[b] \in Over
    BY <1>2, <2>1 DEF ClaimDecision, ClaimInv
  <2> QED
    BY <2>1, <2>2, <2>3, <2>4, <2>5 DEF ClaimInv
<1>3. CASE \/ \E s \in Steps : BeginStep(c, s)
           \/ ReadSource(c) \/ CheckSource(c) \/ BeginRun(c)
           \/ RouteByProvider(c) \/ OpenBudgetLock(c) \/ Count(c) \/ Unlock(c)
  BY <1>3, ClaimStays
  DEF BeginStep, ReadSource, CheckSource, BeginRun, RouteByProvider, OpenBudgetLock, Count, Unlock,
      ClaimInv, PathInv, Begun, Holds, stepVars, execVars, routeVars, budgetVars
<1>4. CASE \/ RouteLocally(c) \/ RouteFromCache(c) \/ Receive(c)
           \/ \E d \in Calls : ReadDecision(c, d)
  BY <1>4, ClaimStays
  DEF RouteLocally, RouteFromCache, Receive, ReadDecision, UseAnswer, Decide,
      ClaimInv, Begun, Holds, stepVars, execVars, routeVars, budgetVars
<1>5. CASE RunRecipe(c)
  BY <1>5, ClaimStays DEF RunRecipe, ClaimInv, Begun, Holds, stepVars, routeVars, budgetVars
<1>6. CASE StartReceipt(c) \/ FillReceipt(c) \/ ReturnRun(c) \/ DieBetween(c)
  BY <1>6, ClaimStays
  DEF StartReceipt, FillReceipt, ReturnRun, DieBetween, ClaimInv, Begun, Holds,
      stepVars, execVars, routeVars, budgetVars
<1> QED
  BY <1>1, <1>2, <1>3, <1>4, <1>5, <1>6 DEF CallNext

\* The path of a call: which of them may be on which kind of step.
LEMMA PathSteps == ASSUME StepsTyped, PathInv, NEW c \in Calls, CallNext(c) PROVE PathInv'
<1> USE RoutedAssumption DEF StepsTyped, Goto, PathInv, Evidence
<1>1. CASE (\E s \in Steps : BeginStep(c, s)) \/ ClaimStep(c) \/ BeginRun(c)
  BY <1>1 DEF BeginStep, ClaimStep, BeginRun
<1>2. CASE ReadSource(c) \/ CheckSource(c) \/ RunRecipe(c) \/ ReturnRun(c) \/ DieBetween(c)
           \/ OpenBudgetLock(c) \/ Count(c) \/ Unlock(c) \/ RouteByProvider(c) \/ ClaimDecision(c)
           \/ \E d \in Calls : ReadDecision(c, d)
  BY <1>2 DEF ReadSource, CheckSource, RunRecipe, ReturnRun, DieBetween, OpenBudgetLock, Count, Unlock,
              RouteByProvider, ClaimDecision, ReadDecision
<1>3. CASE RouteLocally(c) \/ RouteFromCache(c) \/ Receive(c)
  BY <1>3 DEF RouteLocally, RouteFromCache, Receive, UseAnswer, Decide
<1>4. CASE StartReceipt(c) \/ FillReceipt(c)
  BY <1>4 DEF StartReceipt, FillReceipt
<1> QED
  BY <1>1, <1>2, <1>3, <1>4 DEF CallNext

\* What is fingerprinted and read: the source only moves forward.
LEMMA SourceSteps ==
    ASSUME StepsTyped, PathInv, SourceInv, NEW c \in Calls, CallNext(c) PROVE SourceInv'
<1> USE DEF StepsTyped, Goto, SourceInv, EvidenceIsOfItsSource, Evidence
<1>1. CASE \E s \in Steps : BeginStep(c, s)
  BY <1>1 DEF BeginStep
<1>2. CASE ReadSource(c)
  BY <1>2 DEF ReadSource
<1>3. CASE CheckSource(c)
  BY <1>3 DEF CheckSource, stepVars
<1>4. CASE RunRecipe(c)
  BY <1>4, RoutedAssumption DEF RunRecipe, stepVars, PathInv
<1>5. CASE StartReceipt(c)
  <2>1. [NoReceipt EXCEPT !.state = "torn"].state = "torn"
    BY DEF NoReceipt
  <2> QED
    BY <1>5, <2>1 DEF StartReceipt
<1>6. CASE FillReceipt(c)
  BY <1>6 DEF FillReceipt, Receipts
<1>7. CASE ClaimStep(c) \/ BeginRun(c) \/ ReturnRun(c) \/ DieBetween(c)
           \/ OpenBudgetLock(c) \/ Count(c) \/ Unlock(c) \/ RouteByProvider(c) \/ ClaimDecision(c)
           \/ \E d \in Calls : ReadDecision(c, d)
  BY <1>7 DEF ClaimStep, BeginRun, ReturnRun, DieBetween, OpenBudgetLock, Count, Unlock,
              RouteByProvider, ClaimDecision, ReadDecision, stepVars
<1>8. CASE RouteLocally(c) \/ RouteFromCache(c) \/ Receive(c)
  BY <1>8 DEF RouteLocally, RouteFromCache, Receive, UseAnswer, Decide, stepVars
<1> QED
  BY <1>1, <1>2, <1>3, <1>4, <1>5, <1>6, <1>7, <1>8 DEF CallNext

-----------------------------------------------------------------------------
\* The budget: what is counted is in the file before the lock is removed.
LEMMA CountedFinite == ASSUME StepsTyped PROVE IsFiniteSet(Counted) /\ Counted \subseteq Calls
<1>1. Counted \subseteq Calls
  BY DEF Counted, StepsTyped
<1> QED
  BY <1>1, FS_Subset, RoutedAssumption

LEMMA BudgetStays ==
    ASSUME StepsTyped, BudgetInv, Counted' \subseteq Counted, used' \in {used, Torn},
           \A c \in Calls : place'[c] \in {"counting", "counted"} => budgetLock' = c
    PROVE  BudgetInv'
<1>1. IsFiniteSet(Counted)
  BY CountedFinite
<1>2. Cardinality(Counted') <= Cardinality(Counted)
  BY <1>1, FS_Subset
<1>3. Cardinality(Counted) \in Nat /\ Cardinality(Counted') \in Nat
  BY <1>1, FS_Subset, FS_CardinalityType
<1> QED
  BY <1>2, <1>3, RoutedAssumption DEF BudgetInv, StepsTyped, Torn

LEMMA BudgetSteps == ASSUME StepsTyped, StepsTyped', BudgetInv, NEW c \in Calls, CallNext(c) PROVE BudgetInv'
<1> USE DEF StepsTyped, Goto
<1>1. CASE Count(c)
  <2>1. CASE used < DailyLimit /\ used' = used + 1 /\ Goto(c, "counted") /\ budgetLock' = budgetLock
    <3>1. asked' = asked
      BY <1>1 DEF Count
    <3>2. Counted' = Counted \cup {c}
      BY <2>1, <3>1 DEF Counted
    <3>3. Cardinality(Counted') <= Cardinality(Counted) + 1 /\ Cardinality(Counted) \in Nat
          /\ Cardinality(Counted') \in Nat
      <4>1. IsFiniteSet(Counted)
        BY CountedFinite
      <4>2. Cardinality(Counted) \in Nat
        BY <4>1, FS_CardinalityType
      <4>3. Cardinality(Counted \cup {c}) = IF c \in Counted THEN Cardinality(Counted)
                                            ELSE Cardinality(Counted) + 1
        BY <4>1, FS_AddElement
      <4> QED
        BY <3>2, <4>2, <4>3
    <3>4. Cardinality(Counted') <= used' /\ Cardinality(Counted') <= DailyLimit
      BY <2>1, <3>3, RoutedAssumption DEF BudgetInv
    <3> QED
      BY <1>1, <2>1, <3>4 DEF BudgetInv, Count
  <2>2. CASE used' \in {used, Torn} /\ budgetLock' = Free /\ Goto(c, "failed")
    <3>1. \A b \in Calls : place'[b] \in {"counting", "counted"} => b # c /\ budgetLock = b
      BY <2>2 DEF BudgetInv
    <3>2. budgetLock = c
      BY <1>1 DEF Count, BudgetInv
    <3>3. Counted' \subseteq Counted
      BY <1>1, <2>2 DEF Count, Counted
    <3> QED
      BY <2>2, <3>1, <3>2, <3>3, BudgetStays
  <2> QED
    BY <1>1, <2>1, <2>2 DEF Count
<1>2. CASE Unlock(c)
  <2>1. Counted' \subseteq Counted
    BY <1>2 DEF Unlock, Counted
  <2>2. \A b \in Calls : place'[b] \in {"counting", "counted"} => b # c /\ budgetLock = b
    BY <1>2 DEF Unlock, BudgetInv
  <2>3. budgetLock = c /\ used' = used
    BY <1>2 DEF Unlock, BudgetInv
  <2> QED
    BY <2>1, <2>2, <2>3, BudgetStays
<1>3. CASE OpenBudgetLock(c)
  <2>1. Counted' \subseteq Counted /\ used' = used
    BY <1>3 DEF OpenBudgetLock, Counted
  <2>2. \A b \in Calls : place'[b] \in {"counting", "counted"} => budgetLock' = b
    BY <1>3, RoutedAssumption DEF OpenBudgetLock, BudgetInv
  <2> QED
    BY <2>1, <2>2, BudgetStays
<1>4. CASE DieBetween(c)
  <2>1. Counted' \subseteq Counted /\ used' \in {used, Torn}
    BY <1>4 DEF DieBetween, Counted
  <2>2. \A b \in Calls : place'[b] \in {"counting", "counted"} => budgetLock' = b
    BY <1>4 DEF DieBetween, BudgetInv
  <2> QED
    BY <2>1, <2>2, BudgetStays
<1>5. CASE \/ \E s \in Steps : BeginStep(c, s)
           \/ ClaimStep(c) \/ ReadSource(c) \/ CheckSource(c)
           \/ BeginRun(c) \/ RouteLocally(c) \/ RouteFromCache(c) \/ RouteByProvider(c)
           \/ Receive(c) \/ (\E d \in Calls : ReadDecision(c, d))
           \/ ClaimDecision(c) \/ RunRecipe(c)
           \/ StartReceipt(c) \/ FillReceipt(c) \/ ReturnRun(c)
  <2>1. UNCHANGED budgetVars /\ place' = [place EXCEPT ![c] = place'[c]]
        /\ place[c] # "counting" /\ place'[c] \notin {"counting", "counted"}
    BY <1>5 DEF BeginStep, ClaimStep, ReadSource, CheckSource, BeginRun, RouteLocally,
                RouteFromCache, RouteByProvider, Receive, ReadDecision, ClaimDecision, RunRecipe,
                StartReceipt, FillReceipt, ReturnRun, UseAnswer, Decide
  <2>2. Counted' \subseteq Counted
    BY <2>1 DEF Counted, budgetVars
  <2>3. \A b \in Calls : place'[b] \in {"counting", "counted"} => budgetLock' = b
    BY <2>1 DEF BudgetInv, budgetVars
  <2> QED
    BY <2>1, <2>2, <2>3, BudgetStays DEF budgetVars
<1> QED
  BY <1>1, <1>2, <1>3, <1>4, <1>5 DEF CallNext

-----------------------------------------------------------------------------
IInv == StepsTyped /\ PathInv /\ ClaimInv /\ BudgetInv /\ SourceInv

LEMMA NextInv == IInv /\ [StepsNext]_routedVars => IInv'
<1> SUFFICES ASSUME IInv, [StepsNext]_routedVars PROVE IInv'
  OBVIOUS
<1> USE DEF IInv
<1>1. StepsTyped'
  BY TypeInv
<1>2. ASSUME NEW c \in Calls, CallNext(c) PROVE IInv'
  BY <1>1, <1>2, PathSteps, ClaimSteps, BudgetSteps, SourceSteps
<1>3. CASE Expire \/ EditSource \/ UNCHANGED routedVars
  <2>1. UNCHANGED <<place, step, decision, stepVars, execVars, budgetVars>>
        /\ source' \in Nat /\ source <= source'
    BY <1>3 DEF Expire, EditSource, routedVars, StepsTyped
  <2> USE <2>1 DEF stepVars, execVars, budgetVars
  <2>2. PathInv'
    BY DEF PathInv
  <2>3. ClaimInv'
    BY DEF ClaimInv, Begun, Holds
  <2>4. Counted' = Counted
    BY DEF Counted
  <2>5. BudgetInv'
    BY <2>4 DEF BudgetInv
  <2>6. SourceInv'
    BY DEF SourceInv, EvidenceIsOfItsSource, StepsTyped
  <2> QED
    BY <1>1, <2>2, <2>3, <2>5, <2>6
<1> QED
  BY <1>2, <1>3 DEF StepsNext

LEMMA Invariance == StepsSpec => []IInv
<1>1. StepsInit => IInv
  BY InitInv DEF IInv
<1> QED
  BY <1>1, NextInv, PTL DEF StepsSpec

\* Every variable keeps its type.
THEOREM TypeCorrect == StepsSpec => []StepsTyped
<1>1. IInv => StepsTyped
  BY DEF IInv
<1> QED
  BY <1>1, Invariance, PTL

\* No decision and no step runs its recipe twice, in any number of calls and
\* whatever step each of them dies at.
THEOREM Once == StepsSpec => []RunsOnce
<1>1. IInv => RunsOnce
  BY DEF IInv, StepsTyped, ClaimInv, Begun, Holds, RunsOnce
<1> QED
  BY <1>1, Invariance, PTL

\* The provider's daily limit holds for every limit and number of calls.
THEOREM Budget == StepsSpec => []BudgetKept
<1>1. ASSUME IInv PROVE BudgetKept
  <2>1. asked \subseteq Counted
    BY DEF Counted
  <2>2. IsFiniteSet(Counted)
    BY <1>1, CountedFinite DEF IInv
  <2>3. Cardinality(asked) <= Cardinality(Counted) /\ Cardinality(asked) \in Nat
        /\ Cardinality(Counted) \in Nat
    BY <2>1, <2>2, FS_Subset, FS_CardinalityType
  <2> QED
    BY <1>1, <2>3, RoutedAssumption DEF IInv, BudgetInv, BudgetKept
<1> QED
  BY <1>1, Invariance, PTL

\* Verified evidence is of the version its receipt names.
THEOREM Evident == StepsSpec => []EvidenceIsOfItsSource
<1>1. IInv => EvidenceIsOfItsSource
  BY DEF IInv, SourceInv
<1> QED
  BY <1>1, Invariance, PTL

\* All three at once, as the runs check them, for any number of calls.
THEOREM ExecutionAlwaysHolds == StepsSpec => []ExecutionHolds
<1>1. RunsOnce /\ BudgetKept /\ EvidenceIsOfItsSource => ExecutionHolds
  BY DEF ExecutionHolds
<1> QED
  BY <1>1, Once, Budget, Evident, PTL
=============================================================================

--------------------------- MODULE TimedTaskProofs ---------------------------
(* The properties of the one-shot tasks, for any number of tasks and keys. *)
EXTENDS TimedTask, TLAPS

\* cancel() of a whole container preserves the invariant: what it takes out of
\* _map are the tasks that _map held (timed_task_expansion::cancel()).
LEMMA CancelMapStep == ASSUME IInv, CancelMap PROVE IInv'
<1> DEFINE T == {map[k] : k \in Keys} \ {NoTask}
<1> USE NullAssumption DEF IInv, TypeOK
<1>1. T \in SUBSET Tasks
  OBVIOUS
<1>2. \A t \in Tasks : t \in T <=> key[t] # NoKey /\ map[key[t]] = t
  BY DEF KeyNotStuck
<1>3. /\ cancelled' = cancelled \union T
      /\ stage' = [t \in Tasks |-> IF t \in T /\ stage[t] = "waiting"
                                   THEN "dropped" ELSE stage[t]]
      /\ map' = [k \in Keys |-> NoTask]
      /\ clearing' = FALSE
      /\ UNCHANGED <<key, set, invoking, displaced>>
  BY DEF CancelMap, Abort
<1> HIDE DEF T
<1>4. TypeOK'
  BY <1>1, <1>3 DEF Stages, Pending
<1>5. Bookkeeping'
  BY <1>1, <1>2, <1>3 DEF Bookkeeping, Alive, Held, KeyNotStuck, Pending
<1>6. NeverForgotten' /\ LostExplained'
  BY <1>1, <1>2, <1>3 DEF NeverForgotten, LostExplained, Held, Pending
<1>7. KeyNotStuck'
  BY <1>1, <1>2, <1>3 DEF KeyNotStuck, Pending
<1>8. DisplacedByCancelled'
  BY <1>1, <1>3 DEF DisplacedByCancelled
<1>9. QED
  BY <1>4, <1>5, <1>6, <1>7, <1>8

\* However invoke(), cancel() and the handlers of expired timers interleave,
\* the containers and the tasks agree (timed_task, timed_task_expansion).
THEOREM Invariance == Spec => []IInv
<1> USE NullAssumption DEF IInv, TypeOK, Bookkeeping, NeverForgotten, KeyNotStuck,
        DisplacedByCancelled, LostExplained, Held, Alive, Stages, Pending
<1>1. Init => IInv
  BY DEF Init
<1>2. IInv /\ [Next]_vars => IInv'
  <2> SUFFICES ASSUME IInv, [Next]_vars
               PROVE  IInv'
    OBVIOUS
  <2>1. ASSUME NEW t \in Tasks, InvokePlain(t) PROVE IInv'
    BY <2>1 DEF InvokePlain
  <2>2. ASSUME NEW t \in Tasks, NEW k \in Keys, InvokeKeyed(t, k) PROVE IInv'
    BY <2>2 DEF InvokeKeyed
  <2>3. ASSUME NEW t \in Tasks, NEW k \in Keys, InvokeRefused(t, k) PROVE IInv'
    BY <2>3 DEF InvokeRefused
  <2>4. ASSUME NEW t \in Tasks, Arm(t) PROVE IInv'
    BY <2>4 DEF Arm
  <2>5. ASSUME NEW t \in Tasks, Return(t) PROVE IInv'
    BY <2>5 DEF Return
  <2>6. ASSUME NEW t \in Tasks, Expires(t) PROVE IInv'
    BY <2>6 DEF Expires
  <2>7. ASSUME NEW t \in Tasks, HandlerCalls(t) PROVE IInv'
    BY <2>7 DEF HandlerCalls
  <2>8. ASSUME NEW t \in Tasks, HandlerFindsNone(t) PROVE IInv'
    BY <2>8 DEF HandlerFindsNone
  <2>9. ASSUME NEW t \in Tasks, HandlerErasesTimer(t) PROVE IInv'
    BY <2>9 DEF HandlerErasesTimer
  <2>10. ASSUME NEW t \in Tasks, HandlerErasesKey(t) PROVE IInv'
    BY <2>10 DEF HandlerErasesKey, EraseKey
  <2>11. ASSUME NEW k \in Keys, CancelKey(k) PROVE IInv'
    BY <2>11 DEF CancelKey, Abort
  <2>12. CASE CancelSet
    BY <2>12 DEF CancelSet, Abort
  <2>13. CASE CancelMap
    BY <2>13, CancelMapStep
  <2>14. CASE UNCHANGED vars
    BY <2>14 DEF vars
  <2>15. QED
    BY <2>1, <2>2, <2>3, <2>4, <2>5, <2>6, <2>7, <2>8, <2>9, <2>10, <2>11, <2>12,
       <2>13, <2>14 DEF Next, Invoke, Handler, Cancel
<1>3. QED
  BY <1>1, <1>2, PTL DEF Spec

\* Every task whose functor may still be called is one that cancel() finds.
THEOREM Findable == Spec => []NeverForgotten
  BY Invariance, PTL DEF IInv

\* A key is free again once its task is done (try_emplace, _map.erase).
THEOREM KeysFree == Spec => []KeyNotStuck
  BY Invariance, PTL DEF IInv

\* A handler takes a stranger's entry only if it had lost its own.
THEOREM Displacement == Spec => []DisplacedByCancelled
  BY Invariance, PTL DEF IInv

\* No accepted task is lost without a cancel() or such a handler.
THEOREM Losses == Spec => []LostExplained
  BY Invariance, PTL DEF IInv

\* cancel() holds back a functor whose timer has expired already: the handler
\* cannot lock its weak pointer any more (wp.lock()).
THEOREM CancelWins == Spec => NoLateCall
<1> DEFINE Late(t) == /\ stage[t] = "expired" /\ stage'[t] = "calling"
                      /\ ~(t \in invoking \/ (t \notin cancelled /\ displaced[t] = NoTask))
<1>1. ASSUME IInv, [Next]_vars, NEW t \in Tasks, Late(t) PROVE FALSE
  <2> USE DEF IInv, TypeOK
  <2>1. ASSUME NEW u \in Tasks, HandlerCalls(u) PROVE FALSE
    <3>1. u = t
      BY <1>1, <2>1 DEF HandlerCalls
    <3>2. QED
      BY <1>1, <2>1, <3>1 DEF HandlerCalls, Alive, Bookkeeping
  <2>2. ASSUME NEW u \in Tasks, NEW k \in Keys, InvokeKeyed(u, k) \/ InvokeRefused(u, k)
        PROVE  FALSE
    BY <1>1, <2>2 DEF InvokeKeyed, InvokeRefused
  <2>3. ASSUME NEW u \in Tasks,
               InvokePlain(u) \/ Arm(u) \/ Return(u) \/ Expires(u)
        PROVE  FALSE
    BY <1>1, <2>3 DEF InvokePlain, Arm, Return, Expires
  <2>4. ASSUME NEW u \in Tasks,
               HandlerFindsNone(u) \/ HandlerErasesTimer(u) \/ HandlerErasesKey(u)
        PROVE  FALSE
    BY <1>1, <2>4 DEF HandlerFindsNone, HandlerErasesTimer, HandlerErasesKey, EraseKey
  <2>5. CASE Cancel
    BY <1>1, <2>5 DEF Cancel, CancelSet, CancelMap, CancelKey, Abort
  <2>6. CASE UNCHANGED vars
    BY <1>1, <2>6 DEF vars
  <2>7. QED
    BY <1>1, <2>1, <2>2, <2>3, <2>4, <2>5, <2>6 DEF Next, Invoke, Handler
<1>2. IInv /\ [Next]_vars =>
        [\A t \in Tasks : stage[t] = "expired" /\ stage'[t] = "calling" =>
           t \in invoking \/ (t \notin cancelled /\ displaced[t] = NoTask)]_vars
  BY <1>1
<1>3. QED
  BY <1>2, Invariance, PTL DEF Spec, NoLateCall

\* What is seen of a task when one stage changes.
LEMMA PhaseOfOne ==
  ASSUME TypeOK, NEW t \in Tasks, NEW s, stage' = [stage EXCEPT ![t] = s]
  PROVE  Phase' = [Phase EXCEPT ![t] = IF s \in {"emplaced", "waiting", "expired"}
                                       THEN "pending" ELSE s]
<1>1. \A u \in Tasks : stage'[u] = IF u = t THEN s ELSE stage[u]
  BY DEF TypeOK
<1>2. QED
  BY <1>1 DEF Phase

\* A cancel() lets go of the tasks that it finds.
LEMMA AbortReleases ==
  ASSUME TypeOK, NEW T \in SUBSET Tasks, Abort(T), UNCHANGED <<displaced, invoking>>
  PROVE  \E D \in SUBSET Tasks : Shot!Release(T, D)
<1> DEFINE D == {t \in T : stage[t] = "waiting"}
<1>1. \A t \in D : Phase[t] = "pending"
  BY DEF Phase
<1>2. Released' = Released \union T
  BY DEF Abort, Released
<1>3. \A t \in Tasks : stage'[t] = IF t \in D THEN "dropped" ELSE stage[t]
  BY DEF Abort
<1>4. Phase' = [t \in Tasks |-> IF t \in D THEN "dropped" ELSE Phase[t]]
  BY <1>3 DEF Phase
<1>5. Shot!Release(T, D)
  BY <1>1, <1>2, <1>4 DEF Shot!Release
<1>6. QED
  BY <1>5

\* A task that no container holds any more was let go.
LEMMA UnheldIsReleased ==
  ASSUME IInv, NEW t \in Tasks, stage[t] \in Pending, ~Held(t)
  PROVE  t \in Released
BY DEF IInv, NeverForgotten, Released

\* A step of the handler that returned from its functor may let another task go.
LEMMA EraseEnds ==
  ASSUME IInv, NEW t \in Tasks, HandlerErasesKey(t)
  PROVE  \E T, D \in SUBSET Tasks : Shot!End(t, T, D)
<1> DEFINE k == key[t]
           u == map[k]
           T == {v \in Tasks : v = u /\ u # t}
           D == {v \in T : stage[v] = "waiting" /\ v \notin invoking}
<1>1. /\ stage[t] = "calling" /\ k \in Keys /\ UNCHANGED <<invoking, cancelled>>
      /\ displaced' = [v \in Tasks |-> IF v = u /\ u # t THEN t ELSE displaced[v]]
      /\ stage' = [v \in Tasks |->
           IF v = t THEN "called"
           ELSE IF v = u /\ stage[v] = "waiting" /\ v \notin invoking THEN "dropped"
           ELSE stage[v]]
  BY DEF HandlerErasesKey, EraseKey, IInv, TypeOK
<1>2. t # NoTask
  BY NullAssumption
<1>3. Released' = Released \union T
  BY <1>1, <1>2 DEF Released
<1>4. \A v \in Tasks : stage'[v] = IF v = t THEN "called"
                                   ELSE IF v \in D THEN "dropped" ELSE stage[v]
  BY <1>1
<1>5. Phase' = [v \in Tasks |-> IF v = t THEN "called"
                                ELSE IF v \in D THEN "dropped" ELSE Phase[v]]
  BY <1>4 DEF Phase
<1>6. Phase[t] = "calling" /\ \A v \in D : Phase[v] = "pending"
  BY <1>1 DEF Phase
<1>7. T \subseteq Tasks \ {t} /\ D \subseteq T
  OBVIOUS
<1>8. Shot!End(t, T, D)
  BY <1>1, <1>3, <1>5, <1>6, <1>7 DEF Shot!End
<1>9. QED
  BY <1>7, <1>8

\* Whatever interleaves, the tasks keep to the promise of a one-shot timer.
THEOREM Implements == Spec => ShotSpec
<1>1. Init => Shot!Init
  BY DEF Init, Shot!Init, Phase, Released
<1>2. IInv /\ [Next]_vars => [Shot!Next]_(Shot!vars)
  <2> SUFFICES ASSUME IInv, [Next]_vars
               PROVE  Shot!Next \/ UNCHANGED <<Phase, invoking, Released>>
    BY DEF Shot!vars
  <2>1. TypeOK
    BY DEF IInv
  <2>2. ASSUME NEW t \in Tasks, InvokePlain(t) PROVE Shot!Accept(t)
    <3>1. Phase' = [Phase EXCEPT ![t] = "pending"] /\ Phase[t] = "idle"
      BY <2>1, <2>2, PhaseOfOne DEF InvokePlain, Phase
    <3>2. QED
      BY <2>2, <3>1 DEF InvokePlain, Shot!Accept, Released
  <2>3. ASSUME NEW t \in Tasks, NEW k \in Keys, InvokeKeyed(t, k) PROVE Shot!Accept(t)
    <3>1. Phase' = [Phase EXCEPT ![t] = "pending"] /\ Phase[t] = "idle"
      BY <2>1, <2>3, PhaseOfOne DEF InvokeKeyed, Phase
    <3>2. QED
      BY <2>3, <3>1 DEF InvokeKeyed, Shot!Accept, Released
  <2>4. ASSUME NEW t \in Tasks, NEW k \in Keys, InvokeRefused(t, k) PROVE Shot!Refuse(t)
    <3>1. Phase' = [Phase EXCEPT ![t] = "refused"] /\ Phase[t] = "idle"
      BY <2>1, <2>4, PhaseOfOne DEF InvokeRefused, Phase
    <3>2. QED
      BY <2>4, <3>1 DEF InvokeRefused, Shot!Refuse, Released
  <2>5. ASSUME NEW t \in Tasks, Arm(t) \/ Expires(t)
        PROVE  UNCHANGED <<Phase, invoking, Released>>
    <3>1. \A u \in Tasks : Phase'[u] = Phase[u]
      BY <2>1, <2>5 DEF Arm, Expires, Phase, TypeOK
    <3>2. QED
      BY <2>5, <3>1 DEF Arm, Expires, Phase, Released
  <2>6. ASSUME NEW t \in Tasks, Return(t) PROVE Shot!Return(t) \/ Shot!Drop(t)
    <3>1. CASE stage[t] = "waiting" /\ ~Held(t)
      <4>1. t \in Released
        BY <3>1, UnheldIsReleased DEF Pending
      <4>2. Phase' = [Phase EXCEPT ![t] = "dropped"] /\ Phase[t] = "pending"
        BY <2>1, <2>6, <3>1, PhaseOfOne DEF Return, Phase, TypeOK
      <4>3. QED
        BY <2>6, <4>1, <4>2 DEF Return, Shot!Drop, Released
    <3>2. CASE ~(stage[t] = "waiting" /\ ~Held(t))
      <4>1. stage' = stage
        BY <2>1, <2>6, <3>2 DEF Return, TypeOK
      <4>2. QED
        BY <2>6, <4>1 DEF Return, Shot!Return, Released, Phase
    <3>3. QED
      BY <3>1, <3>2
  <2>7. ASSUME NEW t \in Tasks, HandlerCalls(t) PROVE Shot!Call(t)
    <3>1. t \in Released => t \in invoking
      BY <2>7 DEF HandlerCalls, Alive, IInv, Bookkeeping, Released
    <3>2. Phase' = [Phase EXCEPT ![t] = "calling"] /\ Phase[t] = "pending"
      BY <2>1, <2>7, PhaseOfOne DEF HandlerCalls, Phase
    <3>3. QED
      BY <2>7, <3>1, <3>2 DEF HandlerCalls, Shot!Call, Released
  <2>8. ASSUME NEW t \in Tasks, HandlerFindsNone(t) PROVE Shot!Drop(t)
    <3>1. t \in Released
      BY <2>8, UnheldIsReleased DEF HandlerFindsNone, Alive, Pending
    <3>2. Phase' = [Phase EXCEPT ![t] = "dropped"] /\ Phase[t] = "pending"
      BY <2>1, <2>8, PhaseOfOne DEF HandlerFindsNone, Phase
    <3>3. QED
      BY <2>8, <3>1, <3>2 DEF HandlerFindsNone, Shot!Drop, Released
  <2>9. ASSUME NEW t \in Tasks, HandlerErasesTimer(t) PROVE Shot!End(t, {}, {})
    <3>1. Phase' = [Phase EXCEPT ![t] = "called"] /\ Phase[t] = "calling"
      BY <2>1, <2>9, PhaseOfOne DEF HandlerErasesTimer, Phase
    <3>2. Phase' = [u \in Tasks |-> IF u = t THEN "called" ELSE Phase[u]]
      BY <3>1 DEF Phase
    <3>3. QED
      BY <2>9, <3>1, <3>2 DEF HandlerErasesTimer, Shot!End, Released
  <2>10. ASSUME NEW k \in Keys, CancelKey(k)
         PROVE  \E T, D \in SUBSET Tasks : Shot!Release(T, D)
    <3>1. {map[k]} \in SUBSET Tasks
      BY <2>1, <2>10 DEF CancelKey, TypeOK
    <3>2. QED
      BY <2>1, <2>10, <3>1, AbortReleases DEF CancelKey
  <2>11. ASSUME CancelSet PROVE \E T, D \in SUBSET Tasks : Shot!Release(T, D)
    BY <2>1, <2>11, AbortReleases DEF CancelSet, TypeOK
  <2>12. ASSUME CancelMap PROVE \E T, D \in SUBSET Tasks : Shot!Release(T, D)
    <3>1. {map[k] : k \in Keys} \ {NoTask} \in SUBSET Tasks
      BY <2>1 DEF TypeOK
    <3>2. QED
      BY <2>1, <2>12, <3>1, AbortReleases DEF CancelMap
  <2>13. CASE UNCHANGED vars
    BY <2>13 DEF vars, Phase, Released
  <2>14. ASSUME NEW t \in Tasks, Invoke(t) \/ Arm(t) \/ Return(t) \/ Expires(t) \/ Handler(t)
         PROVE  Shot!Next \/ UNCHANGED <<Phase, invoking, Released>>
    <3>1. CASE Invoke(t)
      BY <2>2, <2>3, <2>4, <3>1 DEF Invoke, Shot!Next
    <3>2. CASE Arm(t) \/ Expires(t)
      BY <2>5, <3>2
    <3>3. CASE Return(t)
      BY <2>6, <3>3 DEF Shot!Next
    <3>4. CASE HandlerCalls(t) \/ HandlerFindsNone(t)
      BY <2>7, <2>8, <3>4 DEF Shot!Next
    <3>5. CASE HandlerErasesTimer(t)
      BY <2>9, <3>5 DEF Shot!Next
    <3>6. CASE HandlerErasesKey(t)
      BY <3>6, EraseEnds DEF Shot!Next
    <3>7. QED
      BY <2>14, <3>1, <3>2, <3>3, <3>4, <3>5, <3>6 DEF Handler
  <2>15. CASE Cancel
    BY <2>10, <2>11, <2>12, <2>15 DEF Cancel, Shot!Next
  <2>16. QED
    BY <2>13, <2>14, <2>15 DEF Next
<1>3. QED
  BY <1>1, <1>2, Invariance, PTL DEF Spec, ShotSpec, Shot!Spec
=============================================================================

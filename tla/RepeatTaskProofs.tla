-------------------------- MODULE RepeatTaskProofs --------------------------
(* Theorems about RepeatTask, for every number of starts and stops.  Each  *)
(* function of repeat_task has a lemma, which says what its steps come to  *)
(* for the task's own invariant and for the PeriodicTask it implements.    *)
EXTENDS RepeatTask, TLAPS

\* The counters of a task are counters and its parts fit together.
Fits == TypeOK /\ CallsCurrent /\ NeverAsleep /\ BurstBounded /\ functor <= starts

\* That is the invariant of the module, with its types.
LEMMA FitsIsInvariant == Fits <=> TypeOK /\ IInv
BY DEF Fits, IInv

\* start() takes a task that sleeps, and gives it the only wait there is.
LEMMA StartFits == Fits /\ Start => Fits' /\ Task!Start
<1> HAVE Fits /\ Start
<1> USE DEF Start, Wait, Fits, TypeOK
<1>1. Task!Start
  BY DEF Task!Start
<1>2. CallsCurrent' /\ NeverAsleep'
  BY DEF CallsCurrent, NeverAsleep
<1>3. BurstBounded'
  \* An expired handler of an earlier start() may still be on its way: that
  \* one has been counted, and this start() counts for the new wait.
  BY DEF BurstBounded
<1>4. QED
  BY <1>1, <1>2, <1>3

\* stop() aborts the wait and empties the functor; expired handlers remain.
LEMMA StopFits == Fits /\ Stop => Fits' /\ Task!Stop
<1> HAVE Fits /\ Stop
<1>1. Task!Stop
  BY DEF Stop, Task!Stop
<1>2. QED
  BY <1>1 DEF Stop, Fits, TypeOK, CallsCurrent, NeverAsleep, BurstBounded

\* A timer that goes off and a handler that finds the task stopped are not seen
\* from outside: the one turns a wait into a handler, the other was no call.
LEMMA UnseenFits ==
  Fits /\ (Expires \/ HandlerFindsNone) => Fits' /\ UNCHANGED <<functor, calling, starts>>
<1> USE DEF Fits, TypeOK, CallsCurrent, NeverAsleep, BurstBounded
<1>1. Fits /\ Expires => Fits' /\ UNCHANGED <<functor, calling, starts>>
  BY DEF Expires
<1>2. Fits /\ HandlerFindsNone => Fits' /\ UNCHANGED <<functor, calling, starts>>
  BY DEF HandlerFindsNone
<1>3. QED
  BY <1>1, <1>2

\* handler() calls what start() has set, with the lock held ...
LEMMA CallFits == Fits /\ HandlerCalls => Fits' /\ Task!Call
<1> HAVE Fits /\ HandlerCalls
<1>1. Task!Call
  BY DEF HandlerCalls, Task!Call
<1>2. calling' = functor' /\ functor' # 0
  BY DEF HandlerCalls
<1>3. QED
  BY <1>1, <1>2
     DEF HandlerCalls, Fits, TypeOK, CallsCurrent, NeverAsleep, BurstBounded

\* ... and lets go of it when the functor has answered, with a wait or without
\* a functor: in either case the task is not left asleep.
LEMMA ReturnFits == Fits /\ (HandlerRepeats \/ HandlerEnds) => Fits' /\ Task!Return
<1> USE DEF Fits, TypeOK, CallsCurrent, NeverAsleep, BurstBounded
<1>1. ASSUME Fits, HandlerRepeats PROVE Fits' /\ Task!Return
  <2>1. waiting' = 1 /\ functor' = functor /\ calling' = 0 /\ calling # 0
    BY <1>1 DEF HandlerRepeats, Wait
  <2>2. Task!Return
    BY <1>1, <2>1 DEF HandlerRepeats, Task!Return
  <2>3. QED
    BY <1>1, <2>1, <2>2 DEF HandlerRepeats
<1>2. ASSUME Fits, HandlerEnds PROVE Fits' /\ Task!Return
  BY <1>2 DEF HandlerEnds, Task!Return
<1>3. QED
  BY <1>1, <1>2

\* Every step of the task, whoever takes it.
LEMMA StepFits == Fits /\ [Next]_vars => Fits' /\ [Task!Next]_(Task!vars)
<1>1. Fits /\ UNCHANGED vars => Fits' /\ UNCHANGED Task!vars
  BY DEF vars, Task!vars, Fits, TypeOK, CallsCurrent, NeverAsleep, BurstBounded
<1>2. Fits /\ Handler => Fits' /\ [Task!Next]_(Task!vars)
  BY CallFits, ReturnFits, UnseenFits DEF Handler, Task!Next, Task!vars
<1>3. Fits /\ (Start \/ Stop \/ Expires) => Fits' /\ [Task!Next]_(Task!vars)
  BY StartFits, StopFits, UnseenFits DEF Task!Next, Task!vars
<1>4. QED
  BY <1>1, <1>2, <1>3 DEF Next

\* Whatever start() and stop() abort, the parts of the task fit together.
THEOREM Invariance == Spec => [](TypeOK /\ IInv)
<1>1. Init => Fits
  BY DEF Init, Fits, TypeOK, CallsCurrent, NeverAsleep, BurstBounded
<1>2. Spec => []Fits
  BY <1>1, StepFits, PTL DEF Spec
<1>3. QED
  BY <1>2, FitsIsInvariant, PTL

\* The counters of a task are counters: no wait is taken back twice.
THEOREM TypeCorrect == Spec => []TypeOK
BY Invariance, PTL

\* A running task always has its next call coming (start(), handler()).
THEOREM KeepsGoing == Spec => []NeverAsleep
BY Invariance, PTL DEF IInv

\* Stopping and starting a task over handlers on their way multiplies its
\* calls by no more than one for each start().
THEOREM NoMultiplication == Spec => []BurstBounded
BY Invariance, PTL DEF IInv

\* The task calls its functor only while it runs, one call at a time, and not
\* after stop() has returned.
THEOREM Implements == Spec => TaskSafety
<1>1. Init => Task!Init
  BY DEF Init, Task!Init
<1>2. TypeOK /\ IInv /\ [Next]_vars => [Task!Next]_(Task!vars)
  BY StepFits, FitsIsInvariant
<1>3. QED
  BY <1>1, <1>2, Invariance, PTL DEF Spec, TaskSafety, Task!Safety
=============================================================================

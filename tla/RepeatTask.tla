----------------------------- MODULE RepeatTask -----------------------------
(***************************************************************************)
(* impl::util::timer::repeat_task: a functor called at intervals by the    *)
(* handlers of a deadline_timer.  Several threads may call start() and     *)
(* stop() and several may run handlers; all hold the task's spin lock, the *)
(* handler while it calls the functor as well, so `calling` is the lock.   *)
(*                                                                         *)
(* cancel() and expires_from_now() abort the waits that have not expired;  *)
(* a wait that has expired is a handler on its way, which nothing can call *)
(* back.  The handler of an aborted wait returns at once and is left out.  *)
(***************************************************************************)
EXTENDS Naturals

CONSTANT MaxStarts   \* bound: successful calls of start()

ASSUME StartsAssumption == MaxStarts \in Nat

VARIABLES
  functor,  \* _functor: the number of the start() that set it, 0 when empty
  calling,  \* the functor a handler calls, holding _lock; 0 when it is free
  starts,   \* successful calls of start() so far
  waiting,  \* async_waits that have not expired
  expired   \* handlers of expired waits that do not hold the lock yet

vars == <<functor, calling, starts, waiting, expired>>

TypeOK ==
  /\ functor \in Nat /\ calling \in Nat /\ starts \in Nat
  /\ waiting \in Nat /\ expired \in Nat

Init ==
  /\ functor = 0 /\ calling = 0 /\ starts = 0
  /\ waiting = 0 /\ expired = 0

\* expires_from_now() aborts the waits there are, async_wait() begins one.
Wait == waiting' = 1

\* Mutant of Start: a start() that is refused because the task runs has begun
\* its wait before it looks.
StartWaitsFirst ==
  /\ calling = 0
  /\ starts < MaxStarts
  /\ starts' = IF functor = 0 THEN starts + 1 ELSE starts
  /\ functor' = IF functor = 0 THEN starts + 1 ELSE functor
  /\ Wait
  /\ UNCHANGED <<calling, expired>>

\* start() on a task that does not run.
Start ==
  /\ calling = 0
  /\ functor = 0
  /\ starts < MaxStarts
  /\ starts' = starts + 1
  /\ functor' = starts + 1
  /\ Wait
  /\ UNCHANGED <<calling, expired>>

\* Mutant of Stop: the lock is not taken.
StopUnlocked ==
  /\ functor # 0
  /\ waiting' = 0
  /\ functor' = 0
  /\ UNCHANGED <<calling, starts, expired>>

\* stop() on a task that runs.
Stop ==
  /\ calling = 0
  /\ functor # 0
  /\ waiting' = 0
  /\ functor' = 0
  /\ UNCHANGED <<calling, starts, expired>>

\* The timer goes off.
Expires ==
  /\ waiting > 0
  /\ waiting' = waiting - 1
  /\ expired' = expired + 1
  /\ UNCHANGED <<functor, calling, starts>>

\* handler() takes the lock and calls the functor ...
HandlerCalls ==
  /\ expired > 0 /\ calling = 0 /\ functor # 0
  /\ expired' = expired - 1
  /\ calling' = functor
  /\ UNCHANGED <<functor, starts, waiting>>

\* ... or finds that the task was stopped.
HandlerFindsNone ==
  /\ expired > 0 /\ calling = 0 /\ functor = 0
  /\ expired' = expired - 1
  /\ UNCHANGED <<functor, calling, starts, waiting>>

\* The functor returned true: repeat.
HandlerRepeats ==
  /\ calling # 0
  /\ calling' = 0
  /\ Wait
  /\ UNCHANGED <<functor, starts, expired>>

\* The functor returned false: end.
HandlerEnds ==
  /\ calling # 0
  /\ calling' = 0
  /\ functor' = 0
  /\ UNCHANGED <<starts, waiting, expired>>

Handler == HandlerCalls \/ HandlerFindsNone \/ HandlerRepeats \/ HandlerEnds

Next == Start \/ Stop \/ Expires \/ Handler

Spec == Init /\ [][Next]_vars

\* Time passes, and the io_context's threads run the handlers.
Fairness == WF_vars(Expires) /\ WF_vars(Handler)

FairSpec == Spec /\ Fairness

-----------------------------------------------------------------------------
(* Properties                                                              *)

\* A task that runs never falls asleep: it waits for its timer or a handler
\* is on its way, whatever start() and stop() have aborted in between.
NeverAsleep == functor # 0 /\ calling = 0 => waiting + expired > 0

\* However often the task is stopped and started over handlers that are on
\* their way, each start() adds at most one to the calls that follow each
\* other without waiting for the interval.
BurstBounded == waiting + expired + (IF calling # 0 THEN 1 ELSE 0) <= starts

\* What a handler calls is what the task holds, for as long as the call lasts:
\* neither stop() nor another start() gets in between.
CallsCurrent == calling # 0 => calling = functor

\* The task does what it promises, the next call included.
Task == INSTANCE PeriodicTask WITH task <- functor
TaskSpec   == Task!Spec
TaskSafety == Task!Safety

\* Every functor that has been set was set by a start(), and what the parts of
\* the task need of each other to stay so.
IInv ==
  /\ functor <= starts
  /\ CallsCurrent /\ NeverAsleep /\ BurstBounded
=============================================================================

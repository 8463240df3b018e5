------------------------------ MODULE TimedTask ------------------------------
(***************************************************************************)
(* impl::util::timer::timed_task and timed_task_expansion: functors called *)
(* once after a delay, kept in _set or, under a key, in _map until then.   *)
(*                                                                         *)
(* Each container has a spin lock, which is held for one access to it; the *)
(* timer is armed and the functor is called outside of it.  The container  *)
(* and the thread inside invoke() hold the shared pointers to the timer,   *)
(* its handler a weak one: a timer that nobody holds is destroyed, which   *)
(* aborts a wait that has not expired.  An expired wait is a handler on    *)
(* its way that cancel() cannot call back.                                 *)
(***************************************************************************)
EXTENDS Naturals

CONSTANTS
  Tasks,    \* the calls of invoke(), each with its timer and functor
  Keys,     \* keys of timed_task_expansion
  NoKey,    \* the key of a task of the plain timed_task
  NoTask    \* no entry

ASSUME NullAssumption == NoKey \notin Keys /\ NoTask \notin Tasks

VARIABLES
  stage,      \* how far a task has come
  key,        \* the key it was invoked with
  set,        \* _set
  map,        \* _map
  invoking,   \* tasks whose invoke() has not returned and holds the timer
  clearing,   \* cancel() has cleared _set and not yet _map
  cancelled,  \* history: tasks that a cancel() found in their container
  displaced   \* history: the task whose handler erased this one's entry

vars == <<stage, key, set, map, invoking, clearing, cancelled, displaced>>

Pending == {"emplaced", "waiting", "expired", "calling"}
Stages  == Pending \union {"idle", "refused", "called", "dropped"}

TypeOK ==
  /\ stage \in [Tasks -> Stages]
  /\ key \in [Tasks -> Keys \union {NoKey}]
  /\ set \in SUBSET Tasks
  /\ map \in [Keys -> Tasks \union {NoTask}]
  /\ invoking \in SUBSET Tasks
  /\ clearing \in BOOLEAN
  /\ cancelled \in SUBSET Tasks
  /\ displaced \in [Tasks -> Tasks \union {NoTask}]

Init ==
  /\ stage = [t \in Tasks |-> "idle"]
  /\ key = [t \in Tasks |-> NoKey]
  /\ set = {}
  /\ map = [k \in Keys |-> NoTask]
  /\ invoking = {}
  /\ clearing = FALSE
  /\ cancelled = {}
  /\ displaced = [t \in Tasks |-> NoTask]

\* Some container holds the timer of t.
Held(t) == t \in set \/ (key[t] # NoKey /\ map[key[t]] = t)

\* The handler's weak pointer to the timer of t can be locked.
Alive(t) == Held(t) \/ t \in invoking

-----------------------------------------------------------------------------
(* invoke()                                                                *)

\* The timer of a plain task is put into _set.
InvokePlain(t) ==
  /\ stage[t] = "idle"
  /\ stage' = [stage EXCEPT ![t] = "emplaced"]
  /\ set' = set \union {t}
  /\ invoking' = invoking \union {t}
  /\ UNCHANGED <<key, map, clearing, cancelled, displaced>>

\* Mutant of InvokeKeyed: insert_or_assign in place of try_emplace.
InvokeKeyedAssigns(t, k) ==
  /\ stage[t] = "idle"
  /\ stage' = [stage EXCEPT ![t] = "emplaced"]
  /\ key' = [key EXCEPT ![t] = k]
  /\ map' = [map EXCEPT ![k] = t]
  /\ invoking' = invoking \union {t}
  /\ UNCHANGED <<set, clearing, cancelled, displaced>>

\* try_emplace under a key that is free ...
InvokeKeyed(t, k) ==
  /\ stage[t] = "idle"
  /\ map[k] = NoTask
  /\ stage' = [stage EXCEPT ![t] = "emplaced"]
  /\ key' = [key EXCEPT ![t] = k]
  /\ map' = [map EXCEPT ![k] = t]
  /\ invoking' = invoking \union {t}
  /\ UNCHANGED <<set, clearing, cancelled, displaced>>

\* ... or not: invoke() returns false.
InvokeRefused(t, k) ==
  /\ stage[t] = "idle"
  /\ map[k] # NoTask
  /\ stage' = [stage EXCEPT ![t] = "refused"]
  /\ UNCHANGED <<key, set, map, invoking, clearing, cancelled, displaced>>

\* expires_from_now() and async_wait(), whatever became of the entry.
Arm(t) ==
  /\ stage[t] = "emplaced"
  /\ stage' = [stage EXCEPT ![t] = "waiting"]
  /\ UNCHANGED <<key, set, map, invoking, clearing, cancelled, displaced>>

\* Mutant of Return: the container holds no reference of its own.
ReturnDestroys(t) ==
  /\ t \in invoking
  /\ stage[t] # "emplaced"
  /\ invoking' = invoking \ {t}
  /\ stage' = [stage EXCEPT ![t] = IF @ = "waiting" THEN "dropped" ELSE @]
  /\ UNCHANGED <<key, set, map, clearing, cancelled, displaced>>

\* invoke() returns true; its reference may have been the last one.
Return(t) ==
  /\ t \in invoking
  /\ stage[t] # "emplaced"
  /\ invoking' = invoking \ {t}
  /\ stage' = [stage EXCEPT ![t] =
                 IF @ = "waiting" /\ ~Held(t) THEN "dropped" ELSE @]
  /\ UNCHANGED <<key, set, map, clearing, cancelled, displaced>>

-----------------------------------------------------------------------------
(* The timer and its handler                                               *)

Expires(t) ==
  /\ stage[t] = "waiting"
  /\ stage' = [stage EXCEPT ![t] = "expired"]
  /\ UNCHANGED <<key, set, map, invoking, clearing, cancelled, displaced>>

\* What erasing the entry of key k on behalf of t means for whoever is there.
EraseKey(t, k, outcome) ==
  LET u == map[k] IN
  /\ map' = [map EXCEPT ![k] = NoTask]
  /\ displaced' = [v \in Tasks |-> IF v = u /\ u # t THEN t ELSE displaced[v]]
  /\ stage' = [v \in Tasks |->
       IF v = t THEN outcome
       ELSE IF v = u /\ stage[v] = "waiting" /\ v \notin invoking THEN "dropped"
       ELSE stage[v]]

\* Mutant of HandlerCalls: the handler keeps the timer alive itself.
HandlerCallsAnyway(t) ==
  /\ stage[t] = "expired"
  /\ stage' = [stage EXCEPT ![t] = "calling"]
  /\ UNCHANGED <<key, set, map, invoking, clearing, cancelled, displaced>>

\* The timer is still there, so the functor is called ...
HandlerCalls(t) ==
  /\ stage[t] = "expired"
  /\ Alive(t)
  /\ stage' = [stage EXCEPT ![t] = "calling"]
  /\ UNCHANGED <<key, set, map, invoking, clearing, cancelled, displaced>>

\* Mutant of HandlerFindsNone: the key is erased on this path as well.
HandlerFindsNoneErases(t) ==
  /\ stage[t] = "expired"
  /\ ~Alive(t) /\ key[t] # NoKey
  /\ EraseKey(t, key[t], "dropped")
  /\ UNCHANGED <<key, set, invoking, clearing, cancelled>>

\* ... or it is gone.
HandlerFindsNone(t) ==
  /\ stage[t] = "expired"
  /\ ~Alive(t)
  /\ stage' = [stage EXCEPT ![t] = "dropped"]
  /\ UNCHANGED <<key, set, map, invoking, clearing, cancelled, displaced>>

\* The functor of a plain task has returned: _set.erase( sp ).
HandlerErasesTimer(t) ==
  /\ stage[t] = "calling"
  /\ key[t] = NoKey
  /\ stage' = [stage EXCEPT ![t] = "called"]
  /\ set' = set \ {t}
  /\ UNCHANGED <<key, map, invoking, clearing, cancelled, displaced>>

\* The functor of a keyed task has returned: _map.erase( key_ ), whoever has
\* that key by now.  A timer that was held by this entry alone is destroyed.
HandlerErasesKey(t) ==
  /\ stage[t] = "calling"
  /\ key[t] # NoKey
  /\ EraseKey(t, key[t], "called")
  /\ UNCHANGED <<key, set, invoking, clearing, cancelled>>

-----------------------------------------------------------------------------
(* cancel()                                                                *)

\* The waits of the timers in T are aborted, unless they have expired or were
\* not begun.
Abort(T) ==
  /\ cancelled' = cancelled \union T
  /\ stage' = [t \in Tasks |->
       IF t \in T /\ stage[t] = "waiting" THEN "dropped" ELSE stage[t]]

\* cancel( key ) of a key that is in use, by any thread or by a functor.
CancelKey(k) ==
  /\ map[k] # NoTask
  /\ Abort({map[k]})
  /\ map' = [map EXCEPT ![k] = NoTask]
  /\ UNCHANGED <<key, set, invoking, clearing, displaced>>

\* cancel() clears _set under its lock ...
CancelSet ==
  /\ ~clearing
  /\ clearing' = TRUE
  /\ Abort(set)
  /\ set' = {}
  /\ UNCHANGED <<key, map, invoking, displaced>>

\* ... and then _map under its own.
CancelMap ==
  /\ clearing
  /\ clearing' = FALSE
  /\ Abort({map[k] : k \in Keys} \ {NoTask})
  /\ map' = [k \in Keys |-> NoTask]
  /\ UNCHANGED <<key, set, invoking, displaced>>

-----------------------------------------------------------------------------
Invoke(t)  == InvokePlain(t) \/ \E k \in Keys : InvokeKeyed(t, k) \/ InvokeRefused(t, k)
Handler(t) == \/ HandlerCalls(t) \/ HandlerFindsNone(t)
              \/ HandlerErasesTimer(t) \/ HandlerErasesKey(t)
Cancel     == CancelSet \/ CancelMap \/ \E k \in Keys : CancelKey(k)

Next ==
  \/ \E t \in Tasks : Invoke(t) \/ Arm(t) \/ Return(t) \/ Expires(t) \/ Handler(t)
  \/ Cancel

Spec == Init /\ [][Next]_vars

\* A thread inside invoke() goes on, time passes, and the io_context's threads
\* run the handlers.
Fairness ==
  \A t \in Tasks :
    /\ WF_vars(Arm(t)) /\ WF_vars(Return(t))
    /\ WF_vars(Expires(t)) /\ WF_vars(Handler(t))

FairSpec == Spec /\ Fairness

-----------------------------------------------------------------------------
(* Properties                                                              *)

\* A task that may still call its functor can be found by cancel(), unless a
\* cancel() has found it already or another handler erased its entry.
NeverForgotten ==
  \A t \in Tasks :
    stage[t] \in Pending /\ t \notin cancelled /\ displaced[t] = NoTask => Held(t)

\* No entry outlives its task: a key whose task is done can be used again.
KeyNotStuck ==
  /\ \A k \in Keys : map[k] # NoTask => key[map[k]] = k /\ stage[map[k]] \in Pending
  /\ \A t \in set : key[t] = NoKey /\ stage[t] \in Pending

\* A task loses its entry to another handler only in one way: the other task
\* had its key before, lost it when its functor could not be held back any
\* more, to a cancel() or in this very way, and has returned from it since.
DisplacedByCancelled ==
  \A t \in Tasks : displaced[t] # NoTask =>
    LET u == displaced[t] IN
    /\ u \in cancelled \/ displaced[u] # NoTask
    /\ stage[u] = "called"
    /\ key[u] = key[t] /\ key[t] # NoKey

\* A task that was accepted is dropped uncalled only if somebody cancelled it,
\* or in the way above.
LostExplained ==
  \A t \in Tasks :
    stage[t] = "dropped" => t \in cancelled \/ displaced[t] # NoTask

\* The functor of a cancelled task is not called any more, though its timer
\* had expired, unless its own invoke() has not even returned.
NoLateCall ==
  [][\A t \in Tasks : stage[t] = "expired" /\ stage'[t] = "calling" =>
       t \in invoking \/ (t \notin cancelled /\ displaced[t] = NoTask)]_vars

\* Whoever was accepted is called, if nobody interferes.
AcceptedIsCalled ==
  \A t \in Tasks :
    stage[t] = "emplaced" ~>
      stage[t] = "called" \/ t \in cancelled \/ displaced[t] # NoTask

\* What the properties need of each other to hold after every step: nothing
\* has happened to a task that was not accepted, and an unarmed timer is in the
\* hands of its invoke(), a waiting one in somebody's; a task that has lost its
\* place in a container does not get it back.
Bookkeeping ==
  \A t \in Tasks :
    /\ stage[t] \in {"idle", "refused"} =>
         /\ t \notin cancelled /\ t \notin invoking
         /\ displaced[t] = NoTask /\ key[t] = NoKey
    /\ stage[t] = "emplaced" => t \in invoking
    /\ stage[t] = "waiting" => Alive(t)
    /\ Held(t) => t \notin cancelled /\ displaced[t] = NoTask

IInv ==
  /\ TypeOK /\ Bookkeeping
  /\ NeverForgotten /\ KeyNotStuck /\ DisplacedByCancelled /\ LostExplained

-----------------------------------------------------------------------------
(* Refinement                                                              *)

\* The task seen from outside: from invoke() to the handler nothing shows.
Phase == [t \in Tasks |-> IF stage[t] \in {"emplaced", "waiting", "expired"} THEN "pending"
                         ELSE stage[t]]

\* Tasks that a cancel() has found or that lost their entry to another handler.
Released == cancelled \union {t \in Tasks : displaced[t] # NoTask}

Shot == INSTANCE OneShot WITH phase <- Phase, entering <- invoking, released <- Released

\* timed_task keeps what OneShot promises: an accepted functor is called once at
\* most, is dropped only after a cancel() or a displacement and is not called
\* after that, whatever timers, handlers, invoke() and cancel() interleave.
ShotSpec == Shot!Spec
=============================================================================

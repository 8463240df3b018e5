------------------------------- MODULE OneShot -------------------------------
(***************************************************************************)
(* What a timed_task promises whoever hands functors to it: a functor that *)
(* invoke() accepts is called once at most.  It is dropped uncalled only   *)
(* after its task was let go, by a cancel() or by a mishap of the keys,    *)
(* and from then on it is not called any more, unless its own invoke() is  *)
(* still under way.  One that invoke() refuses is never called.            *)
(***************************************************************************)
CONSTANT Tasks

VARIABLES
  phase,     \* what has become of the functor of a task
  entering,  \* tasks whose invoke() has not returned
  released   \* tasks that were let go

vars == <<phase, entering, released>>

Phases == {"idle", "refused", "pending", "calling", "called", "dropped"}

Init ==
  /\ phase = [t \in Tasks |-> "idle"]
  /\ entering = {} /\ released = {}

Accept(t) ==
  /\ phase[t] = "idle"
  /\ phase' = [phase EXCEPT ![t] = "pending"]
  /\ entering' = entering \union {t}
  /\ UNCHANGED released

Refuse(t) ==
  /\ phase[t] = "idle"
  /\ phase' = [phase EXCEPT ![t] = "refused"]
  /\ UNCHANGED <<entering, released>>

\* A task that was let go may be found dropped at any time.
Drop(t) ==
  /\ phase[t] = "pending" /\ t \in released
  /\ phase' = [phase EXCEPT ![t] = "dropped"]
  /\ entering' \in {entering, entering \ {t}}
  /\ UNCHANGED released

Return(t) ==
  /\ entering' = entering \ {t}
  /\ UNCHANGED <<phase, released>>

Call(t) ==
  /\ phase[t] = "pending"
  /\ t \in released => t \in entering
  /\ phase' = [phase EXCEPT ![t] = "calling"]
  /\ UNCHANGED <<entering, released>>

\* The tasks of T are let go, and those of D with them at once.
Release(T, D) ==
  /\ D \subseteq T /\ \A t \in D : phase[t] = "pending"
  /\ released' = released \union T
  /\ phase' = [t \in Tasks |-> IF t \in D THEN "dropped" ELSE phase[t]]
  /\ UNCHANGED entering

\* The functor has returned; that may let another task go.
End(t, T, D) ==
  /\ phase[t] = "calling"
  /\ T \subseteq Tasks \ {t} /\ D \subseteq T /\ \A u \in D : phase[u] = "pending"
  /\ released' = released \union T
  /\ phase' = [u \in Tasks |-> IF u = t THEN "called"
                               ELSE IF u \in D THEN "dropped" ELSE phase[u]]
  /\ UNCHANGED entering

Next ==
  \/ \E t \in Tasks : Accept(t) \/ Refuse(t) \/ Return(t) \/ Drop(t) \/ Call(t)
  \/ \E T, D \in SUBSET Tasks : Release(T, D) \/ \E t \in Tasks : End(t, T, D)

Spec == Init /\ [][Next]_vars
=============================================================================

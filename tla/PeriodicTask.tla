---------------------------- MODULE PeriodicTask ----------------------------
(***************************************************************************)
(* What a repeat_task promises its user: while it runs, its functor is     *)
(* called again and again, one call at a time, until the functor answers   *)
(* "end" or somebody calls stop(); once stop() has returned the functor is *)
(* not called any more.                                                    *)
(***************************************************************************)
EXTENDS Naturals

VARIABLES
  task,     \* the number of the start() whose functor is kept, 0 for none
  calling,  \* the functor that is being called, 0 for none
  starts    \* successful calls of start() so far

vars == <<task, calling, starts>>

Init == task = 0 /\ calling = 0 /\ starts = 0

Start ==
  /\ task = 0 /\ calling = 0
  /\ starts' = starts + 1
  /\ task' = starts + 1
  /\ UNCHANGED calling

Stop ==
  /\ calling = 0
  /\ task' = 0
  /\ UNCHANGED <<calling, starts>>

Call ==
  /\ task # 0 /\ calling = 0
  /\ calling' = task
  /\ UNCHANGED <<task, starts>>

Return ==
  /\ calling # 0
  /\ calling' = 0
  /\ task' \in {task, 0}
  /\ UNCHANGED starts

Next == Start \/ Stop \/ Call \/ Return

Spec == Init /\ [][Next]_vars /\ WF_vars(Call) /\ WF_vars(Return)
Safety == Init /\ [][Next]_vars
=============================================================================

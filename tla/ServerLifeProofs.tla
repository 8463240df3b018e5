--------------------------- MODULE ServerLifeProofs ---------------------------
(* The safety properties of starting and stopping the server, for any set  *)
(* of connections and any limit.                                           *)
EXTENDS ServerLife, FiniteSetTheorems, TLAPS

\* The steps of accept() that touch nothing but the loop, and the steps of the
\* control thread beside on_stop(), with the crash that ends it.
AcceptGoesOn == AcceptFails \/ AcceptChecks \/ AcceptRearms \/ AcceptThrows
ControlAlone == \/ StartTasks \/ StartAccept \/ StartAcceptThrows \/ AcceptCrashes
                \/ SetShutdown \/ CloseAcceptor \/ LogOff \/ Halt \/ Join

\* The accept loop and the control thread agree (acceptor::accept, stop).
LEMMA LoopStep == ASSUME TypeOK, LoopShape, [Next]_vars PROVE LoopShape'
<1> USE DEF LoopShape, OneLateSession, AfterStop, TypeOK, loopVars
<1>1. ASSUME NEW s \in Sessions, AcceptStarts(s) PROVE LoopShape'
  <2>1. late = {} /\ (late' = {} \/ late' = {s})
    BY <1>1 DEF AcceptStarts
  <2>2. Cardinality(late') <= 1
    <3>1. Cardinality({}) = 0 /\ Cardinality({s}) = 1
      BY FS_EmptySet, FS_Singleton
    <3>2. QED
      BY <2>1, <3>1
  <2>3. QED
    BY <1>1, <2>2 DEF AcceptStarts
<1>2. CASE AcceptCompletes
  BY <1>2 DEF AcceptCompletes
<1>3. CASE AcceptFails \/ AcceptChecks \/ AcceptRearms \/ AcceptThrows \/ AcceptCrashes
  BY <1>3 DEF AcceptFails, AcceptChecks, AcceptRearms, AcceptThrows, AcceptCrashes
<1>4. CASE StartTasks \/ StartAccept \/ StartAcceptThrows \/ SetShutdown \/ CloseAcceptor
  BY <1>4 DEF StartTasks, StartAccept, StartAcceptThrows, SetShutdown, CloseAcceptor
<1>5. CASE OnStop
  BY <1>5 DEF OnStop, StopSixty, ClearSet, StopKeepAlive
<1>6. CASE LogOff \/ Halt \/ Join
  BY <1>6 DEF LogOff, Halt, Join
<1>7. CASE TickCall \/ TickScan \/ TickReturns
  BY <1>7 DEF TickCall, TickScan, TickReturns
<1>8. ASSUME NEW s \in Sessions, TickSpares(s) \/ TickCloses(s) PROVE LoopShape'
  BY <1>8 DEF TickSpares, TickCloses
<1>9. ASSUME NEW s \in Sessions, Session(s) \/ Receive(s) \/ SessionCloses(s)
      PROVE  LoopShape'
  BY <1>9 DEF Session, EnterRefused, EnterPasses, EnterAdds, Leave, Receive, SessionCloses
<1>10. CASE UNCHANGED vars
  BY <1>10 DEF vars
<1>11. QED
  BY <1>1, <1>2, <1>3, <1>4, <1>5, <1>6, <1>7, <1>8, <1>9, <1>10
     DEF Next, Control, AcceptHandler, AcceptGoesOn, ControlAlone, TickGoesOn

\* Sessions enter, leave and are cleared out of _user_set in agreement with
\* their own state (handler::on_user_enter, on_user_leave, on_stop).
LEMMA SessionStep == ASSUME TypeOK, SessionShape, [Next]_vars PROVE SessionShape'
<1> USE DEF SessionShape, OutsideExplained, TypeOK, sessionVars
<1>1. ASSUME NEW s \in Sessions, AcceptStarts(s) PROVE SessionShape'
  BY <1>1 DEF AcceptStarts
<1>2. CASE AcceptCompletes \/ AcceptGoesOn
  BY <1>2 DEF AcceptCompletes, AcceptGoesOn, AcceptFails, AcceptChecks,
    AcceptRearms, AcceptThrows
<1>3. CASE ControlAlone
  BY <1>3 DEF ControlAlone, StartTasks, StartAccept, StartAcceptThrows, AcceptCrashes,
    SetShutdown, CloseAcceptor, LogOff, Halt, Join
<1>4. CASE OnStop
  BY <1>4 DEF OnStop, StopSixty, ClearSet, StopKeepAlive
<1>5. CASE TickCall \/ TickScan \/ TickReturns
  BY <1>5 DEF TickCall, TickScan, TickReturns
<1>6. ASSUME NEW s \in Sessions, TickSpares(s) \/ TickCloses(s) PROVE SessionShape'
  BY <1>6 DEF TickSpares, TickCloses, Close
<1>7. ASSUME NEW s \in Sessions, EnterRefused(s) PROVE SessionShape'
  BY <1>7 DEF EnterRefused
<1>8. ASSUME NEW s \in Sessions, EnterPasses(s) PROVE SessionShape'
  BY <1>8 DEF EnterPasses
<1>9. ASSUME NEW s \in Sessions, EnterAdds(s) PROVE SessionShape'
  BY <1>9 DEF EnterAdds
<1>10. ASSUME NEW s \in Sessions, Leave(s) PROVE SessionShape'
  BY <1>10 DEF Leave
<1>11. ASSUME NEW s \in Sessions, Receive(s) \/ SessionCloses(s) PROVE SessionShape'
  BY <1>11 DEF Receive, SessionCloses, Close
<1>12. CASE UNCHANGED vars
  BY <1>12 DEF vars
<1>13. QED
  BY <1>1, <1>2, <1>3, <1>4, <1>5, <1>6, <1>7, <1>8, <1>9, <1>10, <1>11, <1>12
     DEF Next, Control, AcceptHandler, AcceptGoesOn, ControlAlone, TickGoesOn, Session

\* No step starts a functor of the handler again, or goes on with a call, once
\* on_stop() has returned (handler::on_stop, repeat_task::stop).
LEMMA QuietStep == ASSUME TypeOK, QuietAfterStop, LoopShape, RunningShape, [Next]_vars
                   PROVE  QuietAfterStop' /\ RunningShape'
<1> USE DEF QuietAfterStop, RunningShape, AfterStop, TypeOK, tickVars
<1>1. ASSUME NEW s \in Sessions, AcceptStarts(s) PROVE QuietAfterStop' /\ RunningShape'
  BY <1>1 DEF AcceptStarts
<1>2. CASE AcceptCompletes \/ AcceptGoesOn
  BY <1>2 DEF AcceptCompletes, AcceptGoesOn, AcceptFails, AcceptChecks,
    AcceptRearms, AcceptThrows
<1>3. CASE ControlAlone
  BY <1>3 DEF ControlAlone, StartTasks, StartAccept, StartAcceptThrows, AcceptCrashes,
    SetShutdown, CloseAcceptor, LogOff, Halt, Join
<1>4. CASE OnStop
  BY <1>4 DEF OnStop, StopSixty, ClearSet, StopKeepAlive
<1>5. CASE TickCall \/ TickScan \/ TickReturns
  BY <1>5 DEF TickCall, TickScan, TickReturns
<1>6. ASSUME NEW s \in Sessions, TickSpares(s) \/ TickCloses(s)
      PROVE  QuietAfterStop' /\ RunningShape'
  BY <1>6 DEF TickSpares, TickCloses
<1>7. ASSUME NEW s \in Sessions, Session(s) \/ Receive(s) \/ SessionCloses(s)
      PROVE  QuietAfterStop' /\ RunningShape'
  BY <1>7 DEF Session, EnterRefused, EnterPasses, EnterAdds, Leave, Receive, SessionCloses
<1>8. CASE UNCHANGED vars
  BY <1>8 DEF vars
<1>9. QED
  BY <1>1, <1>2, <1>3, <1>4, <1>5, <1>6, <1>7, <1>8
     DEF Next, Control, AcceptHandler, AcceptGoesOn, ControlAlone, TickGoesOn

\* The variables keep their types, the limit and the connections being any.
LEMMA TypeStep == ASSUME TypeOK, [Next]_vars PROVE TypeOK'
<1> USE DEF TypeOK, Ctl, loopVars, sessionVars, tickVars
<1>1. ASSUME NEW s \in Sessions, AcceptStarts(s) PROVE TypeOK'
  BY <1>1 DEF AcceptStarts
<1>2. CASE AcceptCompletes \/ AcceptGoesOn
  <2>1. accepting' \in {"accepted", "failed", "checking", "over", "rearming", "waiting", "broken"}
    BY <1>2 DEF AcceptCompletes, AcceptGoesOn, AcceptFails, AcceptChecks,
    AcceptRearms, AcceptThrows
  <2>2. UNCHANGED <<ctl, shutdown, listening, sessionVars, members, running, tickVars,
                    cleared, late>>
    BY <1>2, Zenon DEF AcceptCompletes, AcceptGoesOn, AcceptFails, AcceptChecks,
    AcceptRearms, AcceptThrows
  <2>3. QED
    BY <2>1, <2>2
<1>3. CASE ControlAlone
  <2>1. CASE StartTasks \/ StartAccept \/ StartAcceptThrows \/ AcceptCrashes
    BY <2>1 DEF StartTasks, StartAccept, StartAcceptThrows, AcceptCrashes
  <2>2. CASE SetShutdown
    BY <2>2 DEF SetShutdown
  <2>3. CASE CloseAcceptor
    BY <2>3 DEF CloseAcceptor
  <2>4. CASE LogOff \/ Halt \/ Join
    BY <2>4 DEF LogOff, Halt, Join
  <2>5. QED
    BY <1>3, <2>1, <2>2, <2>3, <2>4 DEF ControlAlone
<1>4. CASE OnStop
  <2>1. ASSUME NEW from \in Ctl, NEW to \in Ctl, StopSixty(from, to) PROVE TypeOK'
    BY <2>1 DEF StopSixty
  <2>2. ASSUME NEW from \in Ctl, NEW to \in Ctl, ClearSet(from, to) PROVE TypeOK'
    BY <2>2 DEF ClearSet
  <2>3. ASSUME NEW from \in Ctl, NEW to \in Ctl, StopKeepAlive(from, to) PROVE TypeOK'
    BY <2>3 DEF StopKeepAlive
  <2>4. QED
    BY <1>4, <2>1, <2>2, <2>3, Zenon DEF OnStop
<1>5. CASE TickCall \/ TickScan \/ TickReturns
  <2>1. todo' \in SUBSET Sessions /\ tick' \in {"idle", "called", "scanning"}
    BY <1>5 DEF TickCall, TickScan, TickReturns
  <2>2. UNCHANGED <<ctl, loopVars, sessionVars, members, running, cleared, late>>
    BY <1>5, Zenon DEF TickCall, TickScan, TickReturns
  <2>3. QED
    BY <2>1, <2>2
<1>6. ASSUME NEW s \in Sessions, TickSpares(s) \/ TickCloses(s) PROVE TypeOK'
  <2>1. CASE TickSpares(s)
    BY <2>1 DEF TickSpares
  <2>2. CASE TickCloses(s)
    BY <2>2 DEF TickCloses, Close
  <2>3. QED
    BY <1>6, <2>1, <2>2
<1>7. ASSUME NEW s \in Sessions, Session(s) \/ Receive(s) \/ SessionCloses(s) PROVE TypeOK'
  <2>1. CASE EnterRefused(s) \/ EnterPasses(s) \/ EnterAdds(s)
    <3>1. CASE EnterRefused(s)
      BY <3>1 DEF EnterRefused
    <3>2. CASE EnterPasses(s)
      BY <3>2 DEF EnterPasses
    <3>3. CASE EnterAdds(s)
      BY <3>3 DEF EnterAdds
    <3>4. QED
      BY <2>1, <3>1, <3>2, <3>3
  <2>2. CASE Leave(s)
    BY <2>2 DEF Leave
  <2>3. CASE Receive(s)
    <3>1. registered' \in SUBSET Sessions
      BY <2>3 DEF Receive
    <3>2. alive' \in SUBSET Sessions
      BY <2>3 DEF Receive
    <3>3. QED
      BY <2>3, <3>1, <3>2 DEF Receive
  <2>4. CASE SessionCloses(s)
    BY <2>4 DEF SessionCloses, Close
  <2>5. QED
    BY <1>7, <2>1, <2>2, <2>3, <2>4 DEF Session
<1>8. CASE UNCHANGED vars
  BY <1>8 DEF vars
<1>9. QED
  BY <1>1, <1>2, <1>3, <1>4, <1>5, <1>6, <1>7, <1>8
     DEF Next, Control, AcceptHandler, AcceptGoesOn, ControlAlone, TickGoesOn

THEOREM Invariance == Spec => []IInv
<1>1. ASSUME Init PROVE IInv
  <2>1. Cardinality(late) <= 1
    <3>1. Cardinality({}) = 0
      BY FS_EmptySet
    <3>2. late = {}
      BY <1>1 DEF Init
    <3>3. QED
      BY <3>1, <3>2
  <2>2. TypeOK
    BY <1>1 DEF Init, TypeOK, Ctl
  <2>3. LoopShape
    BY <1>1, <2>1 DEF Init, LoopShape, AfterStop, OneLateSession
  <2>4. SessionShape
    BY <1>1 DEF Init, SessionShape, OutsideExplained
  <2>5. RunningShape /\ QuietAfterStop
    BY <1>1 DEF Init, RunningShape, QuietAfterStop, AfterStop
  <2>6. QED
    BY <2>2, <2>3, <2>4, <2>5 DEF IInv
<1>2. IInv /\ [Next]_vars => IInv'
  BY TypeStep, LoopStep, SessionStep, QuietStep DEF IInv
<1>3. QED
  BY <1>1, <1>2, PTL DEF Spec

\* At most one connection gets in once the server was told to stop.
THEOREM LateSessions == Spec => []OneLateSession
  BY Invariance, PTL DEF IInv, LoopShape

\* An open connection outside of _user_set was refused or cleared out.
THEOREM Outsiders == Spec => []OutsideExplained
  BY Invariance, PTL DEF IInv, SessionShape

\* on_stop() silences the keep-alive and the one-minute task for good.
THEOREM Quiet == Spec => []QuietAfterStop
  BY Invariance, PTL DEF IInv

\* No step moves the keep-alive task except those of the task itself and of
\* on_start() and on_stop() (handler::on_start, on_stop, repeat_task).
LEMMA KeepAliveStep == ASSUME IInv, [Next]_vars PROVE [KeepAlive!Next]_(KeepAlive!vars)
<1> DEFINE Goal == [KeepAlive!Next]_(KeepAlive!vars)
           Left == (ctl' = "boot" <=> ctl = "boot") /\ UNCHANGED <<running, tick>>
<1>1. Left => Goal
  BY DEF KeepAlive!vars
<1>2. CASE StartTasks
  <2>1. running = {} /\ tick = "idle" /\ ctl = "boot" /\ tick' = "idle"
    BY <1>2 DEF StartTasks, tickVars, IInv, RunningShape
  <2>2. "keepalive" \in running' /\ ctl' # "boot"
    BY <1>2 DEF StartTasks
  <2>3. KeepAlive!Start
    BY <2>1, <2>2 DEF KeepAlive!Start
  <2>4. QED
    BY <2>3 DEF KeepAlive!Next
<1>3. ASSUME NEW from \in {"clear1", "clear2"}, NEW to \in {"keep1", "keep2"},
             StopKeepAlive(from, to)
      PROVE  Goal
  <2>1. "keepalive" \notin running' /\ tick = "idle" /\ tick' = "idle"
    BY <1>3 DEF StopKeepAlive, tickVars
  <2>2. ctl # "boot" /\ ctl' # "boot"
    BY <1>3 DEF StopKeepAlive
  <2>3. KeepAlive!Stop
    BY <2>1, <2>2 DEF KeepAlive!Stop
  <2>4. QED
    BY <2>3 DEF KeepAlive!Next
<1>4. CASE TickCall
  <2>1. "keepalive" \in running /\ tick = "idle" /\ tick' = "called"
    BY <1>4 DEF TickCall
  <2>2. ctl' = ctl /\ running' = running
    BY <1>4 DEF TickCall
  <2>3. KeepAlive!Call
    BY <2>1, <2>2 DEF KeepAlive!Call
  <2>4. QED
    BY <2>3 DEF KeepAlive!Next
<1>5. CASE TickReturns
  <2>1. tick = "scanning" /\ tick' = "idle"
    BY <1>5 DEF TickReturns
  <2>2. ctl' = ctl /\ running' = running
    BY <1>5 DEF TickReturns
  <2>3. KeepAlive!Return
    BY <2>1, <2>2 DEF KeepAlive!Return
  <2>4. QED
    BY <2>3 DEF KeepAlive!Next
<1>6. CASE TickScan
  BY <1>6 DEF TickScan, KeepAlive!vars
<1>7. ASSUME NEW s \in Sessions, TickSpares(s) \/ TickCloses(s) PROVE Goal
  BY <1>1, <1>7 DEF TickSpares, TickCloses
<1>8. CASE StopSixty("flag", "sixty1") \/ StopSixty("closed", "sixty2")
  BY <1>8 DEF StopSixty, tickVars, KeepAlive!vars
<1>9. CASE ClearSet("sixty1", "clear1") \/ ClearSet("sixty2", "clear2")
  BY <1>1, <1>9 DEF ClearSet, tickVars
<1>10. CASE \/ StartAccept \/ StartAcceptThrows
            \/ SetShutdown \/ CloseAcceptor \/ LogOff \/ Halt \/ Join
  BY <1>1, <1>10
  DEF StartAccept, StartAcceptThrows, SetShutdown, CloseAcceptor, LogOff, Halt, Join,
      tickVars
<1>11. CASE AcceptCompletes \/ AcceptGoesOn
  BY <1>1, <1>11 DEF AcceptCompletes, AcceptGoesOn, AcceptFails, AcceptChecks,
    AcceptRearms, AcceptThrows, tickVars
<1>12. ASSUME NEW s \in Sessions,
              AcceptStarts(s) \/ Session(s) \/ Receive(s) \/ SessionCloses(s)
       PROVE  Goal
  BY <1>1, <1>12 DEF AcceptStarts, Session, EnterRefused, EnterPasses, EnterAdds, Leave,
                     Receive, SessionCloses, tickVars
<1>13. CASE AcceptCrashes
  BY <1>1, <1>13 DEF AcceptCrashes, tickVars, IInv, LoopShape
<1>14. CASE UNCHANGED vars
  BY <1>1, <1>14 DEF vars, tickVars
<1>15. QED
  BY <1>2, <1>3, <1>4, <1>5, <1>6, <1>7, <1>8, <1>9, <1>10, <1>11, <1>12, <1>13, <1>14
     DEF Next, Control, OnStop, AcceptHandler, AcceptGoesOn, TickGoesOn

\* The scan of the sessions is a repeat_task between on_start() and on_stop():
\* one call at a time, and none after the task was stopped.
THEOREM KeepAliveTask == Spec => KeepAliveKept
<1>1. Init => KeepAlive!Init
  BY DEF Init, KeepAlive!Init
<1>2. IInv /\ [Next]_vars => [KeepAlive!Next]_(KeepAlive!vars)
  BY KeepAliveStep
<1>3. QED
  BY <1>1, <1>2, Invariance, PTL DEF Spec, KeepAliveKept, KeepAlive!Safety
=============================================================================

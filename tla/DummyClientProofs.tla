-------------------------- MODULE DummyClientProofs --------------------------
(* The safety of a client that connects, for any number of attempts.       *)
EXTENDS DummyClient, TLAPS

\* The flags stay Booleans.
LEMMA BoolStep == ASSUME Bools, [Next]_vars PROVE Bools'
<1> USE DEF Bools, clientVars, sessionVars, history
<1>1. ASSUME NEW m \in 1 .. n, Store(m) PROVE Bools'
  BY <1>1, Zenon DEF Store
<1>2. CASE OnConnect
  BY <1>2, Zenon DEF OnConnect, Refuses
<1>3. CASE TimerExpires
  BY <1>3, Zenon DEF TimerExpires
<1>4. CASE ConnectSucceeds
  BY <1>4, Zenon DEF ConnectSucceeds
<1>5. CASE ConnectFails
  BY <1>5, Zenon DEF ConnectFails
<1>6. CASE Arms \/ SetConnected
  BY <1>6, Zenon DEF Arms, SetConnected
<1>7. CASE ClearsClosing \/ SetsConnected
  BY <1>7, Zenon DEF ClearsClosing, SetsConnected
<1>8. CASE Completes
  BY <1>8, Zenon DEF Completes, Passes
<1>9. CASE LinkBreaks \/ FrameArrives
  BY <1>9, Zenon DEF LinkBreaks, FrameArrives
<1>10. CASE WriteCompletes \/ TaskSends
  BY <1>10, Zenon DEF WriteCompletes, TaskSends
<1>11. CASE HandleFrame \/ SetClosed
  BY <1>11, Zenon DEF HandleFrame, SetClosed
<1>12. CASE Disconnects \/ Disconnected
  BY <1>12, Zenon DEF Disconnects, Disconnected
<1>13. CASE ReadFails
  BY <1>13, Zenon DEF ReadFails, BeginsClose
<1>14. CASE WriteFails
  BY <1>14, Zenon DEF WriteFails, BeginsClose
<1>15. CASE UNCHANGED vars
  BY <1>15, Zenon DEF vars
<1>16. QED
  BY <1>1, <1>2, <1>3, <1>4, <1>5, <1>6, <1>7, <1>8, <1>9, <1>10, <1>11, <1>12, <1>13, <1>14, <1>15
     DEF Next, Strand, ConnectHandler

\* Sessions are numbered in order, and only those that were made are stored.
LEMMA CountStep == ASSUME Counts, [Next]_vars PROVE Counts'
<1> USE DEF Counts, clientVars, sessionVars, history
<1>1. CASE OnConnect /\ ~Refuses
  <2>1. n' = n + 1 /\ n < Attempts /\ storing' = storing \union {n + 1} /\ stored' = stored
    BY <1>1 DEF OnConnect
  <2>2. n' \in 0 .. Attempts /\ 1 .. n \subseteq 1 .. n' /\ n + 1 \in 1 .. n' /\ stored' \in 0 .. n'
    BY <2>1, AttemptsAssumption
  <2>3. QED
    BY <2>1, <2>2
<1>2. ASSUME NEW m \in 1 .. n, Store(m) PROVE Counts'
  <2>1. n' = n /\ storing' \subseteq storing /\ stored' = m
    BY <1>2 DEF Store
  <2>2. QED
    BY <2>1
<1>3. ASSUME UNCHANGED <<n, stored, storing>> PROVE Counts'
  BY <1>3
<1>4. CASE (OnConnect /\ Refuses) \/ TimerExpires
  <2>1. UNCHANGED <<n, stored, storing>>
    BY <1>4, Zenon DEF OnConnect, TimerExpires
  <2>2. QED
    BY <1>3, <2>1
<1>5. CASE ConnectSucceeds \/ ConnectFails \/ ConnectHandler
  <2>1. UNCHANGED <<n, stored, storing>>
    BY <1>5, Zenon DEF ConnectSucceeds, ConnectFails, ConnectHandler, Arms, SetConnected,
       ClearsClosing, SetsConnected, Completes
  <2>2. QED
    BY <1>3, <2>1
<1>6. CASE LinkBreaks \/ FrameArrives \/ WriteCompletes \/ TaskSends \/ UNCHANGED vars
  <2>1. UNCHANGED <<n, stored, storing>>
    BY <1>6, Zenon DEF LinkBreaks, FrameArrives, WriteCompletes, TaskSends, vars
  <2>2. QED
    BY <1>3, <2>1
<1>7. CASE Strand
  <2>1. UNCHANGED <<n, stored, storing>>
    BY <1>7, Zenon DEF Strand, HandleFrame, ReadFails, WriteFails, SetClosed, Disconnects,
       Disconnected
  <2>2. QED
    BY <1>3, <2>1
<1>8. QED
  BY <1>1, <1>2, <1>4, <1>5, <1>6, <1>7 DEF Next

\* Every stage is one of those that the variables' comments name.
LEMMA StageStep == ASSUME Stages, [Next]_vars PROVE Stages'
<1> USE DEF Stages, clientVars, sessionVars, history
<1>1. ASSUME NEW m \in 1 .. n, Store(m) PROVE Stages'
  BY <1>1 DEF Store
<1>2. FailedJob \in {"none", "timer"}
  BY Zenon DEF FailedJob
<1>3. CASE OnConnect
  <2>1. CASE Refuses
    BY <1>2, <1>3, <2>1, Zenon DEF OnConnect
  <2>2. CASE ~Refuses
    BY <1>3, <2>2, Zenon DEF OnConnect
  <2>3. QED
    BY <2>1, <2>2
<1>4. CASE TimerExpires
  <2>1. job' \in {"none", "timer", "posted"}
    BY <1>2, <1>4, Zenon DEF TimerExpires
  <2>2. QED
    BY <1>4, <2>1 DEF TimerExpires
<1>5. CASE ConnectSucceeds
  BY <1>5, Zenon DEF ConnectSucceeds
<1>6. CASE ConnectFails
  BY <1>2, <1>6, Zenon DEF ConnectFails
<1>7. CASE Arms \/ SetConnected
  BY <1>7, Zenon DEF Arms, SetConnected
<1>8. CASE ClearsClosing \/ SetsConnected
  BY <1>8, Zenon DEF ClearsClosing, SetsConnected
<1>9. CASE Completes
  BY <1>9, Zenon DEF Completes
<1>10. CASE LinkBreaks \/ FrameArrives
  BY <1>10, Zenon DEF LinkBreaks, FrameArrives
<1>11. CASE WriteCompletes \/ TaskSends
  BY <1>11, Zenon DEF WriteCompletes, TaskSends
<1>12. CASE HandleFrame
  BY <1>12, Zenon DEF HandleFrame
<1>13. CASE SetClosed \/ Disconnects
  BY <1>13, Zenon DEF SetClosed, Disconnects
<1>14. CASE Disconnected
  BY <1>14, Zenon DEF Disconnected
<1>15. CASE ReadFails \/ WriteFails
  <2>1. closer' \in {closer, "closing"}
    BY <1>15, Zenon DEF ReadFails, WriteFails, BeginsClose
  <2>2. read' \in {read, "none"} /\ UNCHANGED <<job, phase, sock, link, access>>
    BY <1>15, Zenon DEF ReadFails, WriteFails
  <2>3. QED
    BY <2>1, <2>2, Zenon
<1>16. CASE UNCHANGED vars
  BY <1>16 DEF vars
<1>17. QED
  BY <1>1, <1>3, <1>4, <1>5, <1>6, <1>7, <1>8, <1>9, <1>10, <1>11, <1>12, <1>13, <1>14, <1>15,
     <1>16 DEF Next, Strand, ConnectHandler

\* The variables keep their types.
LEMMA TypeStep == ASSUME TypeOK, [Next]_vars PROVE TypeOK'
BY BoolStep, CountStep, StageStep DEF TypeOK

\* The flags of the client and of its session.
LEMMA FlagStep == ASSUME TypeOK, FlagShape, [Next]_vars PROVE FlagShape'
<1> USE DEF TypeOK, Bools, Counts, Stages, FlagShape, clientVars, sessionVars, history
<1>1. CASE OnConnect
  BY <1>1 DEF OnConnect, Refuses
<1>2. ASSUME NEW m \in 1 .. n, Store(m) PROVE FlagShape'
  BY <1>2 DEF Store
<1>3. CASE TimerExpires \/ ConnectSucceeds \/ ConnectFails
  BY <1>3 DEF TimerExpires, ConnectSucceeds, ConnectFails, Refuses, FailedJob
<1>4. CASE Arms \/ SetConnected \/ Completes
  BY <1>4 DEF Arms, SetConnected, Completes
<1>5. CASE ClearsClosing
  BY <1>5 DEF ClearsClosing
<1>6. CASE SetsConnected
  BY <1>6 DEF SetsConnected
<1>7. CASE LinkBreaks \/ FrameArrives \/ WriteCompletes \/ TaskSends \/ HandleFrame
  BY <1>7 DEF LinkBreaks, FrameArrives, WriteCompletes, TaskSends, HandleFrame
<1>8. CASE SetClosed
  BY <1>8 DEF SetClosed
<1>9. CASE Disconnects
  BY <1>9 DEF Disconnects
<1>10. CASE Disconnected
  BY <1>10 DEF Disconnected
<1>11. CASE ReadFails \/ WriteFails
  BY <1>11 DEF ReadFails, WriteFails, BeginsClose
<1>12. CASE UNCHANGED vars
  BY <1>12 DEF vars
<1>13. QED
  BY <1>1, <1>2, <1>3, <1>4, <1>5, <1>6, <1>7, <1>8, <1>9, <1>10, <1>11, <1>12
     DEF Next, Strand, ConnectHandler

\* Where the session is stored.
LEMMA StoreStep == ASSUME TypeOK, StoreShape, [Next]_vars PROVE StoreShape'
<1> USE DEF TypeOK, Bools, Counts, Stages, StoreShape, clientVars, sessionVars, history
<1>1. CASE OnConnect
  BY <1>1 DEF OnConnect
<1>2. ASSUME NEW m \in 1 .. n, Store(m) PROVE StoreShape'
  BY <1>2 DEF Store
<1>3. CASE TimerExpires \/ ConnectSucceeds \/ ConnectFails
  BY <1>3 DEF TimerExpires, ConnectSucceeds, ConnectFails
<1>4. CASE ConnectHandler
  BY <1>4 DEF ConnectHandler, Arms, SetConnected, ClearsClosing, SetsConnected, Completes
<1>5. CASE LinkBreaks \/ FrameArrives \/ WriteCompletes \/ TaskSends
  BY <1>5 DEF LinkBreaks, FrameArrives, WriteCompletes, TaskSends
<1>6. CASE Strand
  BY <1>6 DEF Strand, HandleFrame, ReadFails, WriteFails, SetClosed, Disconnects,
     Disconnected, BeginsClose
<1>7. CASE UNCHANGED vars
  BY <1>7 DEF vars
<1>8. QED
  BY <1>1, <1>2, <1>3, <1>4, <1>5, <1>6, <1>7 DEF Next

\* What is read from the session.
LEMMA ReadStep == ASSUME TypeOK, FlagShape, ReadShape, [Next]_vars PROVE ReadShape'
<1> USE DEF TypeOK, Bools, Counts, Stages, ReadShape, DeafExplained, FlagShape, clientVars, sessionVars, history
<1>1. CASE OnConnect
  BY <1>1 DEF OnConnect, Refuses
<1>2. ASSUME NEW m \in 1 .. n, Store(m) PROVE ReadShape'
  BY <1>2 DEF Store
<1>3. CASE TimerExpires \/ ConnectSucceeds \/ ConnectFails
  BY <1>3 DEF TimerExpires, ConnectSucceeds, ConnectFails
<1>4. CASE ConnectHandler
  BY <1>4 DEF ConnectHandler, Arms, SetConnected, ClearsClosing, SetsConnected, Completes
<1>5. CASE LinkBreaks \/ FrameArrives \/ WriteCompletes \/ TaskSends
  BY <1>5 DEF LinkBreaks, FrameArrives, WriteCompletes, TaskSends
<1>6. CASE HandleFrame \/ SetClosed \/ Disconnects \/ Disconnected
  BY <1>6 DEF HandleFrame, SetClosed, Disconnects, Disconnected
<1>7. CASE ReadFails
  BY <1>7 DEF ReadFails, BeginsClose
<1>8. CASE WriteFails
  BY <1>8 DEF WriteFails, BeginsClose
<1>9. CASE UNCHANGED vars
  BY <1>9 DEF vars
<1>10. QED
  BY <1>1, <1>2, <1>3, <1>4, <1>5, <1>6, <1>7, <1>8, <1>9 DEF Next, Strand

THEOREM Invariance == Spec => []IInv
<1>1. ASSUME Init PROVE IInv
  <2>1. Bools
    BY <1>1, Zenon DEF Init, Bools
  <2>2. TypeOK
    BY <1>1, <2>1, AttemptsAssumption DEF Init, TypeOK, Counts, Stages
  <2>3. FlagShape
    BY <1>1 DEF Init, FlagShape
  <2>4. StoreShape
    BY <1>1 DEF Init, StoreShape
  <2>5. ReadShape
    BY <1>1 DEF Init, ReadShape, DeafExplained
  <2>6. QED
    BY <2>2, <2>3, <2>4, <2>5 DEF IInv
<1>2. IInv /\ [Next]_vars => IInv'
  BY TypeStep, FlagStep, StoreStep, ReadStep DEF IInv
<1>3. QED
  BY <1>1, <1>2, PTL DEF Spec

\* The client never refuses what it is about to do itself.
THEOREM Unrefused == Spec => []NeverRefused
<1>1. IInv => NeverRefused
  BY DEF IInv, FlagShape, NeverRefused
<1>2. QED
  BY <1>1, Invariance, PTL

\* A connected session that reads no more lost its first read too early.
THEOREM Deaf == Spec => []DeafExplained
  BY Invariance, PTL DEF IInv, ReadShape

\* Client and session agree on being connected unless a close crossed connected().
THEOREM Flags == Spec => []FlagsExplained
<1>1. IInv => FlagsExplained
  BY DEF IInv, TypeOK, Bools, Counts, Stages, FlagShape, FlagsExplained, AtRest
<1>2. QED
  BY <1>1, Invariance, PTL

\* A client that is connected and cannot send has another session stored.
THEOREM Mute == Spec => []MuteExplained
<1>1. IInv => MuteExplained
  <2>1. SUFFICES ASSUME IInv, AtRest, hconn, sconn, ~Passes
                 PROVE  n \in storing \/ displaced \/ crossed
    BY DEF MuteExplained
  <2>2. ~crossed => ~hclos
    BY <2>1 DEF IInv, TypeOK, Bools, Counts, Stages, FlagShape, AtRest
  <2>3. ~crossed => stored # n
    BY <2>1, <2>2 DEF Passes
  <2>4. n > 0
    BY <2>1 DEF IInv, TypeOK, Bools, Counts, Stages, StoreShape, AtRest
  <2>5. QED
    BY <2>1, <2>3, <2>4 DEF IInv, StoreShape
<1>2. QED
  BY <1>1, Invariance, PTL

\* ACCESS is dropped only when the session is not stored yet, or closed.
THEOREM Access == Spec => AccessExplained
<1> DEFINE Excused == n \in storing \/ displaced \/ crossed \/ ~sconn \/ closer # "no"
<1>1. ASSUME IInv, Completes, ~Passes PROVE Excused
  BY <1>1 DEF IInv, TypeOK, Bools, Counts, Stages, FlagShape, StoreShape, Completes, Passes
<1>2. ASSUME IInv, [Next]_vars, access' # access PROVE Completes
  <2>1. \A m \in 1 .. n : ~Store(m)
    BY <1>2 DEF Store
  <2>2. ~(OnConnect \/ TimerExpires \/ ConnectSucceeds \/ ConnectFails)
    BY <1>2 DEF OnConnect, TimerExpires, ConnectSucceeds, ConnectFails
  <2>3. ~(Arms \/ SetConnected \/ ClearsClosing \/ SetsConnected)
    BY <1>2 DEF Arms, SetConnected, ClearsClosing, SetsConnected
  <2>4. ~(LinkBreaks \/ FrameArrives \/ WriteCompletes \/ TaskSends)
    BY <1>2 DEF LinkBreaks, FrameArrives, WriteCompletes, TaskSends
  <2>5. ~Strand
    BY <1>2 DEF Strand, HandleFrame, ReadFails, WriteFails, SetClosed, Disconnects,
       Disconnected
  <2>6. QED
    BY <1>2, <2>1, <2>2, <2>3, <2>4, <2>5 DEF Next, ConnectHandler, vars
<1>3. IInv /\ [Next]_vars => [access' = "dropped" /\ access # "dropped" => Excused]_vars
  <2>1. SUFFICES ASSUME IInv, [Next]_vars, access' = "dropped", access # "dropped"
                 PROVE  Excused
    OBVIOUS
  <2>2. Completes
    BY <1>2, <2>1
  <2>3. ~Passes
    BY <2>1, <2>2 DEF Completes
  <2>4. QED
    BY <1>1, <2>1, <2>2, <2>3
<1>4. QED
  BY <1>3, Invariance, PTL DEF Spec, AccessExplained
=============================================================================

------------------------- MODULE GameRegistryProofs -------------------------
(* Theorems about GameRegistry, for every set of sessions and ids. *)
EXTENDS GameRegistry, TLAPS

\* The places a handler can stand at.
Places == [at : {"idle", "evict", "close", "closing", "set", "enter", "reject"},
           user : Owner, id : Key]

\* What pc is set to is a place, and names a user only while it kicks one.
LEMMA PlaceType ==
  /\ Idle \in Places /\ Idle.at = "idle" /\ Idle.user = NoSession
  /\ Rejecting \in Places /\ Rejecting.at = "reject" /\ Rejecting.user = NoSession
  /\ \A c \in Key : Setting(c) \in Places /\ Setting(c).at = "set"
                    /\ Setting(c).user = NoSession /\ Setting(c).id = c
  /\ \A c \in Key : Entering(c) \in Places /\ Entering(c).at = "enter"
                    /\ Entering(c).user = NoSession /\ Entering(c).id = c
  /\ \A a \in {"evict", "close", "closing"}, u \in Session :
       Kicking(a, u) \in Places /\ Kicking(a, u).at = a /\ Kicking(a, u).user = u
BY RegistryAssumption
DEF RegistryAssumption, Places, Idle, Rejecting, Setting, Entering, Kicking, Owner, Key

\* The handler's places and the users they name fit together.
PcOK ==
  /\ pc \in [Session -> Places]
  /\ \A s \in Session :
       pc[s].at \in {"evict", "close", "closing"} <=> pc[s].user \in Session

\* The part of the type invariant that speaks of pc.
LEMMA PcPart == TypeOK => PcOK
BY DEF TypeOK, PcOK, Places

\* Moving one handler to a proper place keeps the places proper.
LEMMA PcMoves ==
  ASSUME PcOK, NEW s \in Session, NEW p \in Places,
         p.at \in {"evict", "close", "closing"} <=> p.user \in Session,
         pc' = [pc EXCEPT ![s] = p]
  PROVE  PcOK'
BY DEF PcOK

\* The places that on_route goes on at.
LEMMA FrameMoves ==
  ASSUME TypeOK, NEW s \in Session, Routes(s)
  PROVE  \E p \in Places :
           /\ p.at \in {"evict", "close", "closing"} <=> p.user \in Session
           /\ p.user # NoSession => \E k \in Key : map[k] = p.user
           /\ p.at \notin {"close", "closing", "enter"}
           /\ Frame(s, p)
<1> USE PlaceType, RegistryAssumption DEF RegistryAssumption
<1>1. ASSUME NEW c \in Key, LoginFrame(s, c)
      PROVE  \E p \in Places :
               /\ p.at \in {"evict", "close", "closing"} <=> p.user \in Session
               /\ p.user # NoSession => \E k \in Key : map[k] = p.user
               /\ p.at \notin {"close", "closing", "enter"}
               /\ Frame(s, p)
  <2>1. CASE c = NoId \/ Lookup(c) = NoSession
    BY <1>1, <2>1 DEF LoginFrame
  <2>2. CASE c # NoId /\ Lookup(c) # NoSession
    <3>1. Lookup(c) = map[c] /\ map[c] \in Session
      BY <2>2 DEF Lookup, TypeOK, Owner
    <3>2. Frame(s, Kicking("evict", map[c]))
      BY <1>1, <2>2, <3>1 DEF LoginFrame
    <3>3. QED
      BY <3>1, <3>2
  <2>3. QED
    BY <2>1, <2>2
<1>2. ASSUME NEW c \in Key, AccessFrame(s, c)
      PROVE  \E p \in Places :
               /\ p.at \in {"evict", "close", "closing"} <=> p.user \in Session
               /\ p.user # NoSession => \E k \in Key : map[k] = p.user
               /\ p.at \notin {"close", "closing", "enter"}
               /\ Frame(s, p)
  BY <1>2 DEF AccessFrame
<1>3. ASSUME NEW ok \in BOOLEAN, OtherFrame(s, ok)
      PROVE  \E p \in Places :
               /\ p.at \in {"evict", "close", "closing"} <=> p.user \in Session
               /\ p.user # NoSession => \E k \in Key : map[k] = p.user
               /\ p.at \notin {"close", "closing", "enter"}
               /\ Frame(s, p)
  BY <1>3 DEF OtherFrame
<1>4. QED
  BY <1>1, <1>2, <1>3 DEF Routes

\* The variables keep their types; a handler that kicks names its victim.
THEOREM TypeCorrect == Spec => []TypeOK
<1> USE RegistryAssumption DEF RegistryAssumption, life, history
<1>1. Init => TypeOK
  BY PlaceType DEF Init, TypeOK, Key, Owner, Places
<1>2. TypeOK /\ [Next]_vars => PcOK'
  <2> SUFFICES ASSUME TypeOK, PcOK, [Next]_vars
               PROVE  PcOK'
    BY PcPart
  <2>1. ASSUME UNCHANGED pc
        PROVE  PcOK'
    BY <2>1 DEF PcOK
  <2>2. ASSUME NEW s \in Session, Starts(s) \/ ReadFails(s) \/ ReapChecks(s) \/ Leaves(s)
        PROVE  PcOK'
    BY <2>1, <2>2 DEF Starts, ReadFails, ReapChecks, Leaves
  <2>3. ASSUME NEW s \in Session, Routes(s)
        PROVE  PcOK'
    BY <2>3, FrameMoves, PcMoves DEF Frame
  <2>4. ASSUME NEW s \in Session, Evicts(s) \/ KickChecks(s)
        PROVE  PcOK'
    <3>1. pc[s].user \in Session
      BY <2>4 DEF Evicts, KickChecks, PcOK
    <3>2. PICK p \in {Idle, Kicking("close", pc[s].user), Kicking("closing", pc[s].user)} :
             pc' = [pc EXCEPT ![s] = p]
      BY <2>4 DEF Evicts, KickChecks
    <3>3. p \in Places /\ (p.at \in {"evict", "close", "closing"} <=> p.user \in Session)
      BY <3>1, PlaceType
    <3>4. QED
      BY <3>2, <3>3, PcMoves
  <2>5. ASSUME NEW s \in Session, KickSets(s) \/ Enters(s) \/ Rejects(s)
        PROVE  PcOK'
    <3>1. PICK p \in {Idle, Rejecting} : pc' = [pc EXCEPT ![s] = p]
      BY <2>5 DEF KickSets, Enters, Rejects
    <3>2. p \in Places /\ (p.at \in {"evict", "close", "closing"} <=> p.user \in Session)
      BY PlaceType
    <3>3. QED
      BY <3>1, <3>2, PcMoves
  <2>6. ASSUME NEW s \in Session, SetsId(s)
        PROVE  PcOK'
    <3>1. pc[s].id \in Key
      BY DEF PcOK, Places
    <3>2. PICK p \in Places : p = Entering(pc[s].id) /\ pc' = [pc EXCEPT ![s] = p]
      BY <2>6, <3>1, PlaceType DEF SetsId
    <3>3. p.at \in {"evict", "close", "closing"} <=> p.user \in Session
      BY <3>1, <3>2, PlaceType
    <3>4. QED
      BY <3>2, <3>3, PcMoves
  <2>7. CASE ReapSets \/ UNCHANGED vars
    BY <2>1, <2>7 DEF ReapSets, vars
  <2>8. QED
    BY <2>2, <2>3, <2>4, <2>5, <2>6, <2>7 DEF Next, Continues
<1>3. TypeOK /\ PcOK /\ PcOK' /\ [Next]_vars => TypeOK'
  <2> SUFFICES ASSUME TypeOK, PcOK, PcOK', [Next]_vars
               PROVE  TypeOK'
    OBVIOUS
  <2> USE DEF TypeOK, PcOK, Places
  <2>1. ASSUME NEW u \in Session, Closes(u)
        PROVE  connected' \in [Session -> BOOLEAN] /\ leaving' \in [Session -> Nat]
    BY <2>1 DEF Closes
  <2>2. ASSUME NEW u \in Session, ClosesIfConnected(u)
        PROVE  connected' \in [Session -> BOOLEAN] /\ leaving' \in [Session -> Nat]
    BY <2>1, <2>2 DEF ClosesIfConnected
  <2>3. ASSUME NEW k \in Key, NEW u \in Owner, Unregister(k, u)
        PROVE  map' \in [Key -> Owner] /\ stolen' \subseteq Session
    BY <2>3 DEF Unregister, Owner, Key
  <2>4. ASSUME NEW s \in Session, Starts(s) \/ ReapChecks(s)
        PROVE  TypeOK'
    <3>1. CASE Starts(s)
      BY <3>1 DEF Starts
    <3>2. CASE ReapChecks(s)
      BY <3>2 DEF ReapChecks, Owner
    <3>3. QED
      BY <2>4, <3>1, <3>2
  <2>5. ASSUME NEW s \in Session, ReadFails(s)
        PROVE  TypeOK'
    BY <2>2, <2>5 DEF ReadFails
  <2>6. ASSUME NEW s \in Session, Routes(s)
        PROVE  TypeOK'
    BY <2>6, FrameMoves DEF Frame
  <2>7. ASSUME NEW s \in Session, Evicts(s)
        PROVE  TypeOK'
    <3>1. pc[s].user \in Session
      BY <2>7 DEF Evicts
    <3>2. compid[pc[s].user] \in Key /\ pc[s].user \in Owner
      BY <3>1 DEF Owner
    <3>3. map' \in [Key -> Owner] /\ stolen' \subseteq Session
      BY <2>3, <2>7, <3>2 DEF Evicts
    <3>4. QED
      BY <2>7, <3>3 DEF Evicts
  <2>8. ASSUME NEW s \in Session, KickChecks(s)
        PROVE  TypeOK'
    BY <2>8 DEF KickChecks
  <2>9. ASSUME NEW s \in Session, KickSets(s)
        PROVE  TypeOK'
    <3>1. pc[s].user \in Session
      BY <2>9 DEF KickSets
    <3>2. QED
      BY <2>1, <2>9, <3>1 DEF KickSets
  <2>10. ASSUME NEW s \in Session, Enters(s)
         PROVE  TypeOK'
    <3>1. /\ pc[s].id \in Key /\ compid[s] \in Key
          /\ UNCHANGED <<life, connected, leaving, compid, reaping, left, twice, stolen>>
      BY <2>10 DEF Enters
    <3>2. CASE map[compid[s]] = NoSession
      <4>1. /\ map' = [map EXCEPT ![compid[s]] = s]
            /\ granted' = [granted EXCEPT ![s] = pc[s].id]
        BY <2>10, <3>2 DEF Enters
      <4>2. late' \subseteq Session
        BY <2>10, <3>2 DEF Enters
      <4>3. map' \in [Key -> Owner] /\ granted' \in [Session -> Key]
        BY <3>1, <4>1 DEF Owner
      <4>4. QED
        BY <3>1, <4>2, <4>3
    <3>3. CASE map[compid[s]] # NoSession
      <4>1. UNCHANGED <<map, granted, late>>
        BY <2>10, <3>3 DEF Enters
      <4>2. QED
        BY <3>1, <4>1
    <3>4. QED
      BY <3>2, <3>3
  <2>11. ASSUME NEW s \in Session, Rejects(s)
         PROVE  TypeOK'
    BY <2>2, <2>11 DEF Rejects
  <2>12. ASSUME NEW s \in Session, Leaves(s)
         PROVE  TypeOK'
    <3>1. compid[s] \in Key /\ s \in Owner
      BY DEF Owner
    <3>2. map' \in [Key -> Owner] /\ stolen' \subseteq Session
      BY <2>3, <2>12, <3>1 DEF Leaves
    <3>3. QED
      BY <2>12, <3>2 DEF Leaves
  <2>13. CASE ReapSets
    <3>1. reaping \in Session
      BY <2>13 DEF ReapSets, Owner
    <3>2. QED
      BY <2>1, <2>13, <3>1 DEF ReapSets, Owner
  <2>14. ASSUME NEW s \in Session, SetsId(s)
         PROVE  TypeOK'
    <3>1. pc[s].id \in Key
      OBVIOUS
    <3>2. compid' \in [Session -> Key] /\ twice' \subseteq Session
      BY <2>14, <3>1 DEF SetsId
    <3>3. QED
      BY <2>14, <3>2 DEF SetsId
  <2>15. CASE UNCHANGED vars
    BY <2>15 DEF vars
  <2>16. QED
    BY <2>4, <2>5, <2>6, <2>7, <2>8, <2>9, <2>10, <2>11, <2>12, <2>13, <2>14, <2>15
    DEF Next, Continues
<1>4. QED
  BY <1>1, <1>2, <1>3, PcPart, PTL DEF Spec

-----------------------------------------------------------------------------
\* A session that takes a step of its own has been started.
LEMMA StartedFirst ==
  ASSUME TypeOK, FreshUntouched, NEW s \in Session,
         \/ ReadFails(s) \/ ReapChecks(s) \/ Routes(s) \/ Continues(s) \/ Leaves(s)
  PROVE  s \notin fresh
<1> SUFFICES ASSUME s \in fresh
             PROVE  FALSE
  OBVIOUS
<1>1. /\ ~connected[s] /\ leaving[s] = 0 /\ pc[s] = Idle /\ ~armed[s]
  BY DEF FreshUntouched
<1>2. pc[s].at = "idle"
  BY <1>1, PlaceType
<1>3. CASE ReadFails(s) \/ ReapChecks(s) \/ Leaves(s)
  BY <1>1, <1>3 DEF ReadFails, ReapChecks, Leaves
<1>4. CASE Routes(s)
  BY <1>1, <1>4, FrameMoves DEF Frame
<1>5. CASE Continues(s)
  BY <1>2, <1>5 DEF Continues, Evicts, KickChecks, KickSets, SetsId, Enters, Rejects
<1>6. QED
  BY <1>3, <1>4, <1>5

\* Closing one session leaves the others alone.
LEMMA ClosesOne ==
  ASSUME TypeOK, NEW u \in Session, Closes(u) \/ ClosesIfConnected(u)
  PROVE  /\ \A s \in Session \ {u} :
              connected'[s] = connected[s] /\ leaving'[s] = leaving[s]
         /\ ~connected'[u]
         /\ \A s \in Session : connected'[s] => connected[s]
BY DEF Closes, ClosesIfConnected, TypeOK

\* session_leave erases one entry, and marks it if it was somebody else's.
LEMMA UnregistersOne ==
  ASSUME TypeOK, NEW k \in Key, NEW u \in Session, Unregister(k, u)
  PROVE  /\ \A j \in Key : map'[j] \in {map[j], NoSession}
         /\ \A j \in Id : map'[j] = map[j] \/ map[j] = u \/ map[j] \in stolen'
                          \/ map[j] = NoSession
         /\ stolen \subseteq stolen'
BY DEF Unregister, TypeOK, Key, Owner

\* Nobody touches a session before it is started.
LEMMA FreshStep ==
  ASSUME TypeOK, FreshUntouched, [Next]_vars
  PROVE  FreshUntouched'
<1> USE RegistryAssumption DEF RegistryAssumption, life, history
<1> SUFFICES ASSUME NEW s \in fresh'
             PROVE  /\ ~connected'[s] /\ leaving'[s] = 0 /\ pc'[s] = Idle /\ ~armed'[s]
                    /\ granted'[s] = NoId /\ reaping' # s
                    /\ \A k \in Key : map'[k] # s
                    /\ \A t \in Session : pc'[t].user # s
  BY DEF FreshUntouched
<1> DEFINE Still == /\ ~connected'[s] /\ leaving'[s] = 0 /\ pc'[s] = Idle /\ ~armed'[s]
                    /\ granted'[s] = NoId /\ reaping' # s
                    /\ \A k \in Key : map'[k] # s
                    /\ \A t \in Session : pc'[t].user # s
<1>1. s \in fresh /\ s \in Session /\ (fresh' = fresh \/ \E t \in Session : Starts(t))
  <2>1. CASE UNCHANGED vars
    BY <2>1 DEF vars, TypeOK
  <2>2. ASSUME NEW t \in Session, Routes(t)
        PROVE  fresh' = fresh
    BY <2>2, FrameMoves DEF Frame
  <2>3. ASSUME NEW t \in Session, ReadFails(t) \/ ReapChecks(t) \/ Continues(t) \/ Leaves(t)
        PROVE  fresh' = fresh
    BY <2>3
    DEF ReadFails, ReapChecks, Continues, Leaves, Evicts, KickChecks, KickSets, SetsId,
        Enters, Rejects
  <2>4. CASE ReapSets
    BY <2>4 DEF ReapSets, TypeOK
  <2>5. ASSUME NEW t \in Session, Starts(t)
        PROVE  s \in fresh /\ s \in Session
    BY <2>5 DEF Starts, TypeOK
  <2>6. QED
    BY <2>1, <2>2, <2>3, <2>4, <2>5 DEF Next, TypeOK
<1>2. /\ ~connected[s] /\ leaving[s] = 0 /\ pc[s] = Idle /\ ~armed[s]
      /\ granted[s] = NoId /\ reaping # s
      /\ \A k \in Key : map[k] # s
      /\ \A t \in Session : pc[t].user # s
  BY <1>1 DEF FreshUntouched
<1>3. /\ pc \in [Session -> Places] /\ s # NoSession
      /\ connected \in [Session -> BOOLEAN] /\ armed \in [Session -> BOOLEAN]
      /\ leaving \in [Session -> Nat] /\ granted \in [Session -> Key]
      /\ map \in [Key -> Owner]
  BY <1>1, PcPart DEF TypeOK, PcOK
<1>4. ASSUME NEW t \in Session, Starts(t)
      PROVE  Still
  BY <1>1, <1>2, <1>3, <1>4 DEF Starts
<1>5. ASSUME NEW t \in Session, t # s, ReadFails(t)
      PROVE  Still
  BY <1>1, <1>2, <1>3, <1>5, ClosesOne DEF ReadFails
<1>6. ASSUME NEW t \in Session, t # s, ReapChecks(t)
      PROVE  Still
  BY <1>1, <1>2, <1>3, <1>6 DEF ReapChecks
<1>7. CASE ReapSets
  <2>1. reaping \in Session \ {s}
    BY <1>2, <1>7 DEF ReapSets, TypeOK, Owner
  <2>2. QED
    BY <1>1, <1>2, <1>3, <1>7, <2>1, ClosesOne DEF ReapSets
<1>8. ASSUME NEW t \in Session, t # s, Routes(t)
      PROVE  Still
  <2>1. PICK p \in Places : /\ p.user # NoSession => \E k \in Key : map[k] = p.user
                            /\ Frame(t, p)
    BY <1>8, FrameMoves
  <2>2. p.user # s
    BY <1>2, <1>3, <2>1
  <2>3. QED
    BY <1>1, <1>2, <1>3, <1>8, <2>1, <2>2 DEF Frame
<1>9. ASSUME NEW t \in Session, t # s, Evicts(t)
      PROVE  Still
  <2>1. pc[t].user \in Session /\ compid[pc[t].user] \in Key
    BY <1>9 DEF Evicts, TypeOK
  <2>2. \A k \in Key : map'[k] # s
    BY <1>2, <1>3, <1>9, <2>1, UnregistersOne DEF Evicts
  <2>3. pc' = [pc EXCEPT ![t] = Kicking("close", pc[t].user)]
    BY <1>9 DEF Evicts
  <2>4. \A r \in Session : pc'[r].user # s
    BY <1>2, <1>3, <2>1, <2>3, PlaceType
  <2>5. QED
    BY <1>1, <1>2, <1>3, <1>9, <2>2, <2>3, <2>4 DEF Evicts
<1>10. ASSUME NEW t \in Session, t # s, KickChecks(t)
       PROVE  Still
  <2>1. pc[t].user \in Session
    BY <1>10 DEF KickChecks, TypeOK
  <2>2. PICK p \in {Idle, Kicking("closing", pc[t].user)} : pc' = [pc EXCEPT ![t] = p]
    BY <1>10 DEF KickChecks
  <2>3. p.user # s
    BY <1>2, <1>3, <2>1, PlaceType
  <2>4. QED
    BY <1>1, <1>2, <1>3, <1>10, <2>2, <2>3 DEF KickChecks
<1>11. ASSUME NEW t \in Session, t # s, KickSets(t)
       PROVE  Still
  <2>1. pc[t].user \in Session \ {s}
    BY <1>2, <1>11 DEF KickSets, TypeOK
  <2>2. QED
    BY <1>1, <1>2, <1>3, <1>11, <2>1, PlaceType, ClosesOne DEF KickSets
<1>12. ASSUME NEW t \in Session, t # s, Enters(t)
       PROVE  Still
  <2>1. compid[t] \in Key /\ pc[t].id \in Key
    BY <1>3 DEF TypeOK, Places
  <2>2. PICK p \in {Idle, Rejecting} : pc' = [pc EXCEPT ![t] = p]
    BY <1>12 DEF Enters
  <2>3. p.user # s
    BY <1>3, PlaceType
  <2>4. /\ \A k \in Key : map'[k] # s
        /\ granted'[s] = NoId
    BY <1>1, <1>2, <1>3, <1>12, <2>1 DEF Enters
  <2>5. QED
    BY <1>1, <1>2, <1>3, <1>12, <2>2, <2>3, <2>4 DEF Enters
<1>13. ASSUME NEW t \in Session, t # s, Rejects(t)
       PROVE  Still
  BY <1>1, <1>2, <1>3, <1>13, PlaceType, ClosesOne DEF Rejects
<1>14. ASSUME NEW t \in Session, t # s, Leaves(t)
       PROVE  Still
  <2>1. compid[t] \in Key
    BY DEF TypeOK
  <2>2. \A k \in Key : map'[k] # s
    BY <1>2, <1>3, <1>14, <2>1, UnregistersOne DEF Leaves
  <2>3. QED
    BY <1>1, <1>2, <1>3, <1>14, <2>2 DEF Leaves
<1>15. ASSUME NEW t \in Session, t # s, SetsId(t)
       PROVE  Still
  <2>1. pc[t].id \in Key
    BY <1>3 DEF Places
  <2>2. pc' = [pc EXCEPT ![t] = Entering(pc[t].id)]
    BY <1>15 DEF SetsId
  <2>3. \A r \in Session : pc'[r].user # s
    BY <1>2, <1>3, <2>1, <2>2, PlaceType
  <2>4. QED
    BY <1>1, <1>2, <1>3, <1>15, <2>2, <2>3 DEF SetsId
<1>16. CASE UNCHANGED vars
  BY <1>2, <1>16 DEF vars
<1>17. QED
  <2>1. \A t \in Session :
          ReadFails(t) \/ ReapChecks(t) \/ Routes(t) \/ Continues(t) \/ Leaves(t) => t # s
    BY <1>1, StartedFirst
  <2>2. QED
    BY <2>1, <1>4, <1>5, <1>6, <1>7, <1>8, <1>9, <1>10, <1>11, <1>12, <1>13, <1>14,
       <1>15, <1>16
    DEF Next, Continues

\* Closing a session disconnects it before its on_user_leave is posted.
LEMMA LeavingStep ==
  ASSUME TypeOK, FreshUntouched, LeavingIsClosed, [Next]_vars
  PROVE  LeavingIsClosed'
<1> USE RegistryAssumption DEF RegistryAssumption, life, history, LeavingIsClosed
<1>1. /\ connected \in [Session -> BOOLEAN] /\ leaving \in [Session -> Nat]
  BY DEF TypeOK
<1>2. ASSUME NEW u \in Session, Closes(u) \/ ClosesIfConnected(u)
      PROVE  LeavingIsClosed'
  BY <1>1, <1>2, ClosesOne
<1>3. ASSUME UNCHANGED <<connected, leaving>>
      PROVE  LeavingIsClosed'
  BY <1>3
<1>4. ASSUME NEW s \in Session, Starts(s)
      PROVE  LeavingIsClosed'
  <2>1. leaving[s] = 0
    BY <1>4 DEF Starts, FreshUntouched
  <2>2. QED
    BY <1>1, <1>4, <2>1 DEF Starts
<1>5. ASSUME NEW s \in Session, ReadFails(s) \/ Rejects(s)
      PROVE  LeavingIsClosed'
  BY <1>2, <1>5 DEF ReadFails, Rejects
<1>6. ASSUME NEW s \in Session, Routes(s)
      PROVE  LeavingIsClosed'
  BY <1>3, <1>6, FrameMoves DEF Frame
<1>7. ASSUME NEW s \in Session,
             ReapChecks(s) \/ Evicts(s) \/ KickChecks(s) \/ SetsId(s) \/ Enters(s)
      PROVE  LeavingIsClosed'
  BY <1>3, <1>7 DEF ReapChecks, Evicts, KickChecks, SetsId, Enters
<1>8. ASSUME NEW s \in Session, KickSets(s)
      PROVE  LeavingIsClosed'
  <2>1. pc[s].user \in Session
    BY <1>8 DEF KickSets, TypeOK
  <2>2. QED
    BY <1>2, <1>8, <2>1 DEF KickSets
<1>9. CASE ReapSets
  BY <1>2, <1>9 DEF ReapSets, TypeOK, Owner
<1>10. ASSUME NEW s \in Session, Leaves(s)
       PROVE  LeavingIsClosed'
  BY <1>1, <1>10 DEF Leaves
<1>11. CASE UNCHANGED vars
  BY <1>3, <1>11 DEF vars
<1>12. QED
  BY <1>4, <1>5, <1>6, <1>7, <1>8, <1>9, <1>10, <1>11 DEF Next, Continues

\* ACCESS files a session under the id it has just set.
LEMMA KeyStep ==
  ASSUME TypeOK, KeyIsCompid, [Next]_vars
  PROVE  KeyIsCompid'
<1> USE RegistryAssumption DEF RegistryAssumption, life, history
<1>1. /\ compid \in [Session -> Key] /\ map \in [Key -> Owner] /\ twice \subseteq Session
  BY DEF TypeOK
<1>2. ASSUME \A k \in Id : map'[k] \in {map[k], NoSession}, UNCHANGED <<compid, twice>>
      PROVE  KeyIsCompid'
  BY <1>2 DEF KeyIsCompid
<1>3. ASSUME UNCHANGED <<map, compid, twice>>
      PROVE  KeyIsCompid'
  BY <1>2, <1>3
<1>4. ASSUME NEW s \in Session,
             Starts(s) \/ ReadFails(s) \/ ReapChecks(s) \/ KickChecks(s) \/ KickSets(s)
               \/ Rejects(s)
      PROVE  KeyIsCompid'
  BY <1>3, <1>4 DEF Starts, ReadFails, ReapChecks, KickChecks, KickSets, Rejects
<1>5. ASSUME NEW s \in Session, Routes(s)
      PROVE  KeyIsCompid'
  BY <1>3, <1>5, FrameMoves DEF Frame
<1>6. ASSUME NEW s \in Session, Evicts(s)
      PROVE  KeyIsCompid'
  <2>1. pc[s].user \in Session /\ compid[pc[s].user] \in Key
    BY <1>6 DEF Evicts, TypeOK
  <2>2. QED
    BY <1>2, <1>6, <2>1, UnregistersOne DEF Evicts, Key
<1>7. ASSUME NEW s \in Session, Leaves(s)
      PROVE  KeyIsCompid'
  <2>1. compid[s] \in Key
    BY <1>1
  <2>2. QED
    BY <1>2, <1>7, <2>1, UnregistersOne DEF Leaves, Key
<1>8. ASSUME NEW s \in Session, Enters(s)
      PROVE  KeyIsCompid'
  <2>1. /\ compid[s] \in Key /\ UNCHANGED <<compid, twice>>
        /\ map' = [map EXCEPT ![compid[s]] = s] \/ map' = map
    BY <1>1, <1>8 DEF Enters
  <2>2. \A j \in Id : map'[j] = map[j] \/ (map'[j] = s /\ compid[s] = j)
    BY <1>1, <2>1 DEF Key
  <2>3. QED
    BY <2>1, <2>2 DEF KeyIsCompid
<1>9. ASSUME NEW s \in Session, SetsId(s)
      PROVE  KeyIsCompid'
  <2>1. /\ map' = map /\ twice \subseteq twice'
        /\ \A t \in Session : compid'[t] = compid[t] \/ compid[t] = NoId \/ t \in twice'
    BY <1>1, <1>9 DEF SetsId
  <2>2. \A j \in Id : j # NoId /\ map[j] \in Owner
    BY <1>1 DEF Key
  <2>3. QED
    BY <2>1, <2>2 DEF KeyIsCompid, Owner
<1>10. CASE ReapSets \/ UNCHANGED vars
  BY <1>3, <1>10 DEF ReapSets, vars
<1>11. QED
  BY <1>4, <1>5, <1>6, <1>7, <1>8, <1>9, <1>10 DEF Next, Continues

\* A handler that is about to register has set the id that it was asked for.
LEMMA OwnIdStep ==
  ASSUME TypeOK, EntersOwnId, [Next]_vars
  PROVE  EntersOwnId'
<1> USE DEF EntersOwnId, life, history
<1>1. compid \in [Session -> Key] /\ PcOK
  BY PcPart DEF TypeOK
<1>2. ASSUME NEW s \in Session, NEW p, p.at # "enter", pc' = [pc EXCEPT ![s] = p],
             UNCHANGED compid
      PROVE  EntersOwnId'
  BY <1>1, <1>2 DEF PcOK
<1>3. ASSUME UNCHANGED <<pc, compid>>
      PROVE  EntersOwnId'
  BY <1>3
<1>4. ASSUME NEW s \in Session, Starts(s) \/ ReadFails(s) \/ ReapChecks(s) \/ Leaves(s)
      PROVE  EntersOwnId'
  BY <1>3, <1>4 DEF Starts, ReadFails, ReapChecks, Leaves
<1>5. ASSUME NEW s \in Session, Routes(s)
      PROVE  EntersOwnId'
  BY <1>2, <1>5, FrameMoves DEF Frame
<1>6. ASSUME NEW s \in Session, Evicts(s) \/ KickChecks(s)
      PROVE  EntersOwnId'
  <2>1. pc[s].user \in Session
    BY <1>1, <1>6 DEF Evicts, KickChecks, PcOK
  <2>2. PICK p \in {Idle, Kicking("close", pc[s].user), Kicking("closing", pc[s].user)} :
           pc' = [pc EXCEPT ![s] = p]
    BY <1>6 DEF Evicts, KickChecks
  <2>3. QED
    BY <1>2, <1>6, <2>1, <2>2, PlaceType DEF Evicts, KickChecks
<1>7. ASSUME NEW s \in Session, KickSets(s) \/ Enters(s) \/ Rejects(s)
      PROVE  EntersOwnId'
  <2>1. PICK p \in {Idle, Rejecting} : pc' = [pc EXCEPT ![s] = p]
    BY <1>7 DEF KickSets, Enters, Rejects
  <2>2. QED
    BY <1>2, <1>7, <2>1, PlaceType DEF KickSets, Enters, Rejects
<1>8. ASSUME NEW s \in Session, SetsId(s)
      PROVE  EntersOwnId'
  <2> DEFINE c == pc[s].id
  <2>1. c \in Key
    BY <1>1 DEF PcOK, Places
  <2>2. /\ pc' = [pc EXCEPT ![s] = Entering(c)]
        /\ compid' = IF c = NoId THEN compid ELSE [compid EXCEPT ![s] = c]
    BY <1>8 DEF SetsId
  <2>3. pc'[s].id \in {NoId, compid'[s]}
    BY <1>1, <2>1, <2>2, PlaceType DEF PcOK
  <2>4. \A t \in Session \ {s} : pc'[t] = pc[t] /\ compid'[t] = compid[t]
    BY <1>1, <2>2 DEF PcOK
  <2>5. QED
    BY <2>3, <2>4
<1>9. CASE ReapSets \/ UNCHANGED vars
  BY <1>3, <1>9 DEF ReapSets, vars
<1>10. QED
  BY <1>4, <1>5, <1>6, <1>7, <1>8, <1>9 DEF Next, Continues

\* A LOGIN that is closing s goes on doing so while its handler stays there.
LEMMA StaysKicked ==
  ASSUME PcOK, NEW s \in Session, Kicked(s), NEW t \in Session, NEW p,
         pc' = [pc EXCEPT ![t] = p],
         \/ pc[t].at \notin {"close", "closing"}
         \/ pc[t].user # s
         \/ p.at \in {"close", "closing"} /\ p.user = s
  PROVE  Kicked(s)'
<1>1. PICK r \in Session : pc[r].at \in {"close", "closing"} /\ pc[r].user = s
  BY DEF Kicked
<1>2. CASE r = t
  BY <1>1, <1>2 DEF Kicked, PcOK
<1>3. CASE r # t
  BY <1>1, <1>3 DEF Kicked, PcOK
<1>4. QED
  BY <1>2, <1>3

\* Only a LOGIN, another session's departure or a second id takes a connected
\* session's entry.
LEMMA GrantStep ==
  ASSUME TypeOK, FreshUntouched, LeavingIsClosed, EntersOwnId, GrantedIsRegistered,
         [Next]_vars
  PROVE  GrantedIsRegistered'
<1> USE RegistryAssumption DEF RegistryAssumption, life, history
<1> DEFINE Entitled(s) == granted[s] # NoId /\ connected[s]
           Held(s) == \/ map[granted[s]] = s \/ Kicked(s)
                      \/ s \in stolen \/ s \in twice
<1> SUFFICES ASSUME NEW s \in Session, granted'[s] # NoId, connected'[s]
             PROVE  map'[granted'[s]] = s \/ Kicked(s)' \/ s \in stolen' \/ s \in twice'
  BY DEF GrantedIsRegistered
<1>1. /\ connected \in [Session -> BOOLEAN] /\ granted \in [Session -> Key]
      /\ map \in [Key -> Owner] /\ compid \in [Session -> Key]
      /\ pc \in [Session -> Places] /\ PcOK
      /\ stolen \subseteq Session /\ twice \subseteq Session
  BY PcPart DEF TypeOK, PcOK
<1>2. Entitled(s) => Held(s)
  BY DEF GrantedIsRegistered
<1>3. ASSUME UNCHANGED <<map, granted, pc, stolen, twice>>, connected[s]
      PROVE  map'[granted'[s]] = s \/ Kicked(s)' \/ s \in stolen' \/ s \in twice'
  BY <1>2, <1>3 DEF Kicked
<1>4. ASSUME NEW u \in Session, Closes(u) \/ ClosesIfConnected(u)
      PROVE  connected[s] /\ s # u
  BY <1>4, ClosesOne
<1>5. ASSUME NEW t \in Session, Starts(t)
      PROVE  map'[granted'[s]] = s \/ Kicked(s)' \/ s \in stolen' \/ s \in twice'
  <2>1. t # s
    BY <1>5 DEF Starts, FreshUntouched
  <2>2. connected[s]
    BY <1>1, <1>5, <2>1 DEF Starts
  <2>3. QED
    BY <1>3, <1>5, <2>2 DEF Starts
<1>6. ASSUME NEW t \in Session, ReadFails(t)
      PROVE  map'[granted'[s]] = s \/ Kicked(s)' \/ s \in stolen' \/ s \in twice'
  BY <1>3, <1>4, <1>6 DEF ReadFails
<1>7. ASSUME NEW t \in Session, ReapChecks(t)
      PROVE  map'[granted'[s]] = s \/ Kicked(s)' \/ s \in stolen' \/ s \in twice'
  BY <1>3, <1>7 DEF ReapChecks
<1>8. CASE ReapSets
  <2>1. reaping \in Session /\ Closes(reaping)
    BY <1>8 DEF ReapSets, TypeOK, Owner
  <2>2. QED
    BY <1>3, <1>4, <1>8, <2>1 DEF ReapSets
<1>9. ASSUME NEW t \in Session, Routes(t)
      PROVE  map'[granted'[s]] = s \/ Kicked(s)' \/ s \in stolen' \/ s \in twice'
  <2>1. PICK p \in Places : Frame(t, p)
    BY <1>9, FrameMoves
  <2>2. pc[t].at = "idle" /\ pc' = [pc EXCEPT ![t] = p]
        /\ UNCHANGED <<connected, map, granted, stolen, twice>>
    BY <2>1, PlaceType DEF Frame
  <2>3. Kicked(s) => Kicked(s)'
    BY <1>1, <2>2, StaysKicked
  <2>4. QED
    BY <1>2, <2>2, <2>3
<1>10. ASSUME NEW t \in Session, Evicts(t)
       PROVE  map'[granted'[s]] = s \/ Kicked(s)' \/ s \in stolen' \/ s \in twice'
  <2> DEFINE u == pc[t].user
  <2>1. u \in Session /\ compid[u] \in Key
    BY <1>10 DEF Evicts, TypeOK
  <2>2. /\ pc[t].at = "evict" /\ pc' = [pc EXCEPT ![t] = Kicking("close", u)]
        /\ Unregister(compid[u], u)
        /\ UNCHANGED <<connected, granted, twice>>
    BY <1>10 DEF Evicts
  <2>3. Kicked(s) => Kicked(s)'
    BY <1>1, <2>2, StaysKicked
  <2>4. s = u => Kicked(s)'
    BY <1>1, <2>1, <2>2, PlaceType DEF Kicked
  <2>5. granted[s] \in Id /\ connected[s] /\ granted'[s] = granted[s]
    BY <1>1, <2>2 DEF Key
  <2>6. map[granted[s]] = s => map'[granted[s]] = s \/ s = u \/ s \in stolen'
    BY <2>1, <2>2, <2>5, UnregistersOne
  <2>7. stolen \subseteq stolen' /\ twice' = twice
    BY <2>1, <2>2, UnregistersOne
  <2>8. QED
    BY <1>2, <2>3, <2>4, <2>5, <2>6, <2>7
<1>11. ASSUME NEW t \in Session, KickChecks(t)
       PROVE  map'[granted'[s]] = s \/ Kicked(s)' \/ s \in stolen' \/ s \in twice'
  <2>1. pc[t].user \in Session /\ UNCHANGED <<connected, map, granted, stolen, twice>>
    BY <1>11 DEF KickChecks, TypeOK
  <2>2. Kicked(s) => Kicked(s)'
    <3>1. CASE connected[pc[t].user]
      <4>1. PICK p : p = Kicking("closing", pc[t].user) /\ pc' = [pc EXCEPT ![t] = p]
        BY <1>11, <3>1 DEF KickChecks
      <4>2. p.at = "closing" /\ p.user = pc[t].user
        BY <2>1, <4>1, PlaceType
      <4>3. QED
        BY <1>1, <4>1, <4>2, StaysKicked
    <3>2. CASE ~connected[pc[t].user]
      <4>1. pc' = [pc EXCEPT ![t] = Idle] /\ pc[t].user # s
        BY <1>11, <2>1, <3>2 DEF KickChecks
      <4>2. QED
        BY <1>1, <4>1, StaysKicked
    <3>3. QED
      BY <3>1, <3>2
  <2>3. QED
    BY <1>2, <2>1, <2>2
<1>12. ASSUME NEW t \in Session, KickSets(t)
       PROVE  map'[granted'[s]] = s \/ Kicked(s)' \/ s \in stolen' \/ s \in twice'
  <2>1. /\ pc[t].user \in Session /\ Closes(pc[t].user)
        /\ pc' = [pc EXCEPT ![t] = Idle]
        /\ UNCHANGED <<map, granted, stolen, twice>>
    BY <1>12 DEF KickSets, TypeOK
  <2>2. connected[s] /\ s # pc[t].user
    BY <1>4, <2>1
  <2>3. Kicked(s) => Kicked(s)'
    BY <1>1, <2>1, <2>2, StaysKicked
  <2>4. QED
    BY <1>2, <2>1, <2>2, <2>3
<1>13. ASSUME NEW t \in Session, Enters(t)
       PROVE  map'[granted'[s]] = s \/ Kicked(s)' \/ s \in stolen' \/ s \in twice'
  <2> DEFINE c == pc[t].id
             k == compid[t]
  <2>1. c \in Key /\ k \in Key /\ (c # NoId => k = c)
    BY <1>1, <1>13 DEF Enters, EntersOwnId, Places
  <2>2. PICK p \in {Idle, Rejecting} : pc' = [pc EXCEPT ![t] = p]
    BY <1>13 DEF Enters
  <2>3. pc[t].at = "enter" /\ UNCHANGED <<connected, twice, stolen>>
    BY <1>13 DEF Enters
  <2>4. Kicked(s) => Kicked(s)'
    BY <1>1, <2>2, <2>3, StaysKicked
  <2>5. CASE map[k] = NoSession
    <3>1. map' = [map EXCEPT ![k] = t] /\ granted' = [granted EXCEPT ![t] = c]
      BY <1>13, <2>5 DEF Enters
    <3>2. CASE t = s
      BY <1>1, <2>1, <3>1, <3>2
    <3>3. CASE t # s
      <4>1. granted'[s] = granted[s] /\ granted[s] \in Key
        BY <1>1, <3>1, <3>3
      <4>2. map[granted[s]] = s => map'[granted[s]] = s
        BY <1>1, <2>5, <3>1, <4>1
      <4>3. QED
        BY <1>2, <2>3, <2>4, <4>1, <4>2
    <3>4. QED
      BY <3>2, <3>3
  <2>6. CASE map[k] # NoSession
    <3>1. UNCHANGED <<map, granted>>
      BY <1>13, <2>6 DEF Enters
    <3>2. QED
      BY <1>2, <2>3, <2>4, <3>1
  <2>7. QED
    BY <2>5, <2>6
<1>14. ASSUME NEW t \in Session, Rejects(t)
       PROVE  map'[granted'[s]] = s \/ Kicked(s)' \/ s \in stolen' \/ s \in twice'
  <2>1. /\ pc[t].at = "reject" /\ ClosesIfConnected(t) /\ pc' = [pc EXCEPT ![t] = Idle]
        /\ UNCHANGED <<map, granted, stolen, twice>>
    BY <1>14 DEF Rejects
  <2>2. Kicked(s) => Kicked(s)'
    BY <1>1, <2>1, StaysKicked
  <2>3. QED
    BY <1>2, <1>4, <2>1, <2>2
<1>15. ASSUME NEW t \in Session, Leaves(t)
       PROVE  map'[granted'[s]] = s \/ Kicked(s)' \/ s \in stolen' \/ s \in twice'
  <2>1. /\ leaving[t] > 0 /\ Unregister(compid[t], t) /\ compid[t] \in Key
        /\ UNCHANGED <<connected, granted, pc, twice>>
    BY <1>1, <1>15 DEF Leaves
  <2>2. s # t /\ connected[s]
    BY <2>1 DEF LeavingIsClosed
  <2>3. granted[s] \in Id /\ granted'[s] = granted[s]
    BY <1>1, <2>1 DEF Key
  <2>4. map[granted[s]] = s => map'[granted[s]] = s \/ s \in stolen'
    BY <2>1, <2>2, <2>3, UnregistersOne
  <2>5. stolen \subseteq stolen'
    BY <2>1, UnregistersOne
  <2>6. Kicked(s) => Kicked(s)'
    BY <2>1 DEF Kicked
  <2>7. QED
    BY <1>2, <2>1, <2>2, <2>3, <2>4, <2>5, <2>6
<1>16. ASSUME NEW t \in Session, SetsId(t)
       PROVE  map'[granted'[s]] = s \/ Kicked(s)' \/ s \in stolen' \/ s \in twice'
  <2>1. PICK p : p = Entering(pc[t].id) /\ pc' = [pc EXCEPT ![t] = p]
    BY <1>16 DEF SetsId
  <2>2. /\ pc[t].at = "set" /\ twice \subseteq twice'
        /\ UNCHANGED <<connected, map, granted, stolen>>
    BY <1>16 DEF SetsId
  <2>3. Kicked(s) => Kicked(s)'
    BY <1>1, <2>1, <2>2, StaysKicked
  <2>4. QED
    BY <1>2, <2>2, <2>3
<1>17. CASE UNCHANGED vars
  BY <1>3, <1>17 DEF vars
<1>18. QED
  BY <1>5, <1>6, <1>7, <1>8, <1>9, <1>10, <1>11, <1>12, <1>13, <1>14, <1>15, <1>16, <1>17
  DEF Next, Continues

-----------------------------------------------------------------------------
\* The registry's invariant holds in every reachable state.
THEOREM Invariance == Spec => []IInv
<1>1. Init => IInv
  <2> SUFFICES ASSUME Init
               PROVE  IInv
    OBVIOUS
  <2> USE RegistryAssumption DEF RegistryAssumption, Init
  <2>1. FreshUntouched
    BY PlaceType DEF FreshUntouched
  <2>2. LeavingIsClosed
    BY DEF LeavingIsClosed
  <2>3. KeyIsCompid /\ GrantedIsRegistered
    BY DEF KeyIsCompid, GrantedIsRegistered, Key
  <2>4. EntersOwnId
    BY PlaceType DEF EntersOwnId
  <2>5. QED
    BY <2>1, <2>2, <2>3, <2>4 DEF IInv
<1>2. TypeOK /\ IInv /\ [Next]_vars => IInv'
  BY FreshStep, LeavingStep, OwnIdStep, KeyStep, GrantStep DEF IInv
<1>3. QED
  BY <1>1, <1>2, TypeCorrect, PTL DEF Spec

\* session_enter files a session under the id that it presented last.
THEOREM FiledUnderOwnId == Spec => []KeyIsCompid
<1>1. IInv => KeyIsCompid
  BY DEF IInv
<1>2. QED
  BY <1>1, Invariance, PTL

\* A connected session that ACCESS granted an id is registered, but for the
\* three causes that GrantedIsRegistered names.
THEOREM GrantsHold == Spec => []GrantedIsRegistered
<1>1. IInv => GrantedIsRegistered
  BY DEF IInv
<1>2. QED
  BY <1>1, Invariance, PTL

-----------------------------------------------------------------------------
(* What becomes of the entries of sessions that go.                          *)

\* A session that was closed is going to leave, or has left.
ClosedLeaves ==
  \A s \in Session : s \notin fresh /\ ~connected[s] => leaving[s] > 0 \/ s \in left

\* Who has left is not in the map, but for the two exceptions.
LeftIsErased ==
  \A k \in Id : map[k] # NoSession => map[k] \notin left \/ map[k] \in late \/ map[k] \in twice

\* on_close posts on_user_leave whenever it disconnects a session.
LEMMA ClosedStep ==
  ASSUME TypeOK, ClosedLeaves, [Next]_vars
  PROVE  ClosedLeaves'
<1> USE DEF ClosedLeaves, life, history
<1>1. /\ connected \in [Session -> BOOLEAN] /\ leaving \in [Session -> Nat]
      /\ fresh \subseteq Session
  BY DEF TypeOK
<1>2. ASSUME NEW u \in Session, Closes(u), UNCHANGED <<fresh, left>>
      PROVE  ClosedLeaves'
  BY <1>1, <1>2 DEF Closes
<1>3. ASSUME NEW u \in Session, ClosesIfConnected(u), UNCHANGED <<fresh, left>>
      PROVE  ClosedLeaves'
  BY <1>2, <1>3 DEF ClosesIfConnected
<1>4. ASSUME UNCHANGED <<fresh, connected, leaving, left>>
      PROVE  ClosedLeaves'
  BY <1>4
<1>5. ASSUME NEW s \in Session, Starts(s)
      PROVE  ClosedLeaves'
  BY <1>1, <1>5 DEF Starts
<1>6. ASSUME NEW s \in Session, ReadFails(s) \/ Rejects(s)
      PROVE  ClosedLeaves'
  BY <1>3, <1>6 DEF ReadFails, Rejects
<1>7. ASSUME NEW s \in Session, Routes(s)
      PROVE  ClosedLeaves'
  BY <1>4, <1>7, FrameMoves DEF Frame
<1>8. ASSUME NEW s \in Session,
             ReapChecks(s) \/ Evicts(s) \/ KickChecks(s) \/ SetsId(s) \/ Enters(s)
      PROVE  ClosedLeaves'
  BY <1>4, <1>8 DEF ReapChecks, Evicts, KickChecks, SetsId, Enters
<1>9. ASSUME NEW s \in Session, KickSets(s)
      PROVE  ClosedLeaves'
  <2>1. pc[s].user \in Session
    BY <1>9 DEF KickSets, TypeOK
  <2>2. QED
    BY <1>2, <1>9, <2>1 DEF KickSets
<1>10. CASE ReapSets
  BY <1>2, <1>10 DEF ReapSets, TypeOK, Owner
<1>11. ASSUME NEW s \in Session, Leaves(s)
       PROVE  ClosedLeaves'
  BY <1>1, <1>11 DEF Leaves
<1>12. CASE UNCHANGED vars
  BY <1>4, <1>12 DEF vars
<1>13. QED
  BY <1>5, <1>6, <1>7, <1>8, <1>9, <1>10, <1>11, <1>12 DEF Next, Continues

\* on_user_leave erases the entry of the session that leaves, because it is
\* under the session's id, and ACCESS alone makes entries.
LEMMA ErasedStep ==
  ASSUME TypeOK, KeyIsCompid, LeftIsErased, [Next]_vars
  PROVE  LeftIsErased'
<1> USE RegistryAssumption DEF RegistryAssumption, LeftIsErased, life, history
<1>1. /\ compid \in [Session -> Key] /\ map \in [Key -> Owner]
      /\ left \subseteq Session /\ \A k \in Id : k \in Key /\ k # NoId
  BY DEF TypeOK, Key
<1>2. ASSUME \A k \in Id : map'[k] \in {map[k], NoSession}, UNCHANGED <<left, late, twice>>
      PROVE  LeftIsErased'
  BY <1>2
<1>3. ASSUME UNCHANGED <<map, left, late, twice>>
      PROVE  LeftIsErased'
  BY <1>3
<1>4. ASSUME NEW s \in Session,
             Starts(s) \/ ReadFails(s) \/ ReapChecks(s) \/ KickChecks(s) \/ KickSets(s)
               \/ Rejects(s)
      PROVE  LeftIsErased'
  BY <1>3, <1>4 DEF Starts, ReadFails, ReapChecks, KickChecks, KickSets, Rejects
<1>5. ASSUME NEW s \in Session, Routes(s)
      PROVE  LeftIsErased'
  BY <1>3, <1>5, FrameMoves DEF Frame
<1>6. ASSUME NEW s \in Session, Evicts(s)
      PROVE  LeftIsErased'
  <2>1. pc[s].user \in Session /\ compid[pc[s].user] \in Key
    BY <1>6 DEF Evicts, TypeOK
  <2>2. QED
    BY <1>1, <1>2, <1>6, <2>1, UnregistersOne DEF Evicts
<1>7. ASSUME NEW s \in Session, Enters(s)
      PROVE  LeftIsErased'
  <2>1. compid[s] \in Key /\ UNCHANGED <<left, twice>>
    BY <1>1, <1>7 DEF Enters
  <2>2. CASE map[compid[s]] = NoSession
    <3>1. /\ map' = [map EXCEPT ![compid[s]] = s]
          /\ late' = IF s \in left THEN late \union {s} ELSE late
      BY <1>7, <2>2 DEF Enters
    <3>2. QED
      BY <1>1, <2>1, <3>1
  <2>3. CASE map[compid[s]] # NoSession
    <3>1. UNCHANGED <<map, late>>
      BY <1>7, <2>3 DEF Enters
    <3>2. QED
      BY <2>1, <3>1
  <2>4. QED
    BY <2>2, <2>3
<1>8. ASSUME NEW s \in Session, Leaves(s)
      PROVE  LeftIsErased'
  <2>1. compid[s] \in Key /\ Unregister(compid[s], s)
    BY <1>1, <1>8 DEF Leaves
  <2>2. \A k \in Id : map'[k] \in {map[k], NoSession}
    BY <1>1, <2>1, UnregistersOne
  <2>3. UNCHANGED <<late, twice>> /\ left' = left \union {s}
    BY <1>8 DEF Leaves
  <2>4. ASSUME NEW k \in Id, map'[k] = s
        PROVE  s \in twice
    <3>1. map[k] = s /\ s # NoSession
      BY <2>2, <2>4
    <3>2. compid[s] = k => map'[k] = NoSession
      BY <1>1, <2>1 DEF Unregister
    <3>3. QED
      BY <2>4, <3>1, <3>2 DEF KeyIsCompid
  <2>5. QED
    BY <2>2, <2>3, <2>4
<1>9. ASSUME NEW s \in Session, SetsId(s)
      PROVE  LeftIsErased'
  <2>1. twice \subseteq twice' /\ UNCHANGED <<map, left, late>>
    BY <1>9 DEF SetsId
  <2>2. QED
    BY <2>1
<1>10. CASE ReapSets \/ UNCHANGED vars
  BY <1>3, <1>10 DEF ReapSets, vars
<1>11. QED
  BY <1>4, <1>5, <1>6, <1>7, <1>8, <1>9, <1>10 DEF Next, Continues

\* Sessions that are gone are not in the map, but for the two exceptions that
\* GhostsExplained names.
THEOREM Ghosts == Spec => []GhostsExplained
<1>1. Init => ClosedLeaves /\ LeftIsErased
  BY DEF Init, ClosedLeaves, LeftIsErased, Key
<1>2. TypeOK /\ IInv /\ ClosedLeaves /\ LeftIsErased /\ [Next]_vars
        => ClosedLeaves' /\ LeftIsErased'
  BY ClosedStep, ErasedStep DEF IInv
<1>3. TypeOK /\ ClosedLeaves /\ LeftIsErased => GhostsExplained
  <2> SUFFICES ASSUME TypeOK, ClosedLeaves, LeftIsErased,
                      NEW k \in Id, map[k] # NoSession, Gone(map[k])
               PROVE  map[k] \in late \/ map[k] \in twice
    BY DEF GhostsExplained
  <2>1. map[k] \in Session
    BY DEF TypeOK, Owner, Key
  <2>2. map[k] \in left
    BY <2>1 DEF Gone, ClosedLeaves
  <2>3. QED
    BY <2>2 DEF LeftIsErased
<1>4. QED
  BY <1>1, <1>2, <1>3, Invariance, TypeCorrect, PTL DEF Spec
=============================================================================

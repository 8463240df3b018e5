---------------------------- MODULE GameRegistry ----------------------------
(***************************************************************************)
(* The registry of the game server, session_manager::_map, and the         *)
(* handlers that keep it: dispatch_CS_SERVER_LOGIN throws out whoever has  *)
(* the id, dispatch_CS_SERVER_ACCESS registers the session under it, and   *)
(* on_user_leave unregisters the session that has gone.                    *)
(*                                                                         *)
(* Each session's handlers run one at a time on its strand, the strands    *)
(* run in parallel; a step here is one access to the locked map or to a    *)
(* session's flag, and `pc` is where a strand's handler stands between two *)
(* of them.  Of a session's connection only what the registry sees is      *)
(* kept; TcpSession has the rest.  In particular a frame whose read was    *)
(* complete can still be routed when the session is closed, even after its *)
(* on_user_leave.                                                          *)
(***************************************************************************)
EXTENDS Naturals, FiniteSets

CONSTANTS
  Session,    \* connections, each used once
  Id,         \* the ids that clients present
  NoId,       \* compid 0
  NoSession,
  MaxFrames   \* bound: frames routed, all sessions together

ASSUME RegistryAssumption ==
  NoId \notin Id /\ NoSession \notin Session /\ MaxFrames \in Nat

VARIABLES
  fresh,      \* sessions not yet started
  connected,  \* _is_connected of each session
  armed,      \* a read is outstanding, or its frame waits for the strand
  frames,     \* frames routed so far
  leaving,    \* calls of on_user_leave that wait for the strand
  compid,     \* _compid of each session
  map,        \* session_manager::_map
  pc,         \* what the handler on each strand does next
  reaping,    \* the session the keep-alive task has found connected
  granted,    \* the id of the last SC_SERVER_ACCESS with result 1
  left,       \* sessions whose on_user_leave has run
  late,       \* sessions registered after their on_user_leave
  twice,      \* sessions that asked for another id than the one they had
  stolen      \* sessions whose entry was erased on behalf of another one

life    == <<fresh, armed, frames>>
history == <<granted, left, late, twice, stolen>>
vars    == <<life, connected, leaving, compid, map, pc, reaping, history>>

Key   == Id \union {NoId}
Owner == Session \union {NoSession}
Idle         == [at |-> "idle", user |-> NoSession, id |-> NoId]
Kicking(a,u) == [at |-> a, user |-> u, id |-> NoId]
Setting(c)   == [at |-> "set", user |-> NoSession, id |-> c]
Entering(c)  == [at |-> "enter", user |-> NoSession, id |-> c]
Rejecting    == [at |-> "reject", user |-> NoSession, id |-> NoId]

TypeOK ==
  /\ fresh \subseteq Session
  /\ connected \in [Session -> BOOLEAN]
  /\ armed \in [Session -> BOOLEAN]
  /\ frames \in Nat
  /\ leaving \in [Session -> Nat]
  /\ compid \in [Session -> Key]
  /\ map \in [Key -> Owner]
  /\ pc \in [Session -> [at : {"idle", "evict", "close", "closing", "set", "enter", "reject"},
                         user : Owner, id : Key]]
  /\ \A s \in Session :
       pc[s].at \in {"evict", "close", "closing"} <=> pc[s].user \in Session
  /\ reaping \in Owner
  /\ granted \in [Session -> Key]
  /\ left \subseteq Session /\ late \subseteq Session
  /\ twice \subseteq Session /\ stolen \subseteq Session

Init ==
  /\ fresh = Session
  /\ connected = [s \in Session |-> FALSE]
  /\ armed = [s \in Session |-> FALSE]
  /\ frames = 0
  /\ leaving = [s \in Session |-> 0]
  /\ compid = [s \in Session |-> NoId]
  /\ map = [k \in Key |-> NoSession]
  /\ pc = [s \in Session |-> Idle]
  /\ reaping = NoSession
  /\ granted = [s \in Session |-> NoId]
  /\ left = {} /\ late = {} /\ twice = {} /\ stolen = {}

-----------------------------------------------------------------------------
(* The map's operations, each under its lock                               *)

\* lookup answers nobody for id 0, whatever is stored there.
Lookup(c) == IF c = NoId THEN NoSession ELSE map[c]

\* session_leave(k) on behalf of session u: id 0 and a missing entry are only
\* logged.
Unregister(k, u) ==
  /\ map' = IF k = NoId THEN map ELSE [map EXCEPT ![k] = NoSession]
  /\ stolen' = IF k = NoId THEN stolen ELSE stolen \union ({map[k]} \ {u, NoSession})

\* on_close of session u, from its test on: what follows set_closed.
Closes(u) ==
  /\ connected' = [connected EXCEPT ![u] = FALSE]
  /\ leaving' = [leaving EXCEPT ![u] = @ + 1]

ClosesIfConnected(u) ==
  IF connected[u] THEN Closes(u) ELSE UNCHANGED <<connected, leaving>>

-----------------------------------------------------------------------------
(* Connections                                                             *)

Starts(s) ==
  /\ s \in fresh
  /\ fresh' = fresh \ {s}
  /\ connected' = [connected EXCEPT ![s] = TRUE]
  /\ armed' = [armed EXCEPT ![s] = TRUE]
  /\ UNCHANGED <<frames, leaving, compid, map, pc, reaping, history>>

ReadFails(s) ==
  /\ pc[s] = Idle /\ armed[s]
  /\ armed' = [armed EXCEPT ![s] = FALSE]
  /\ ClosesIfConnected(s)
  /\ UNCHANGED <<fresh, frames, compid, map, pc, reaping, history>>

\* The keep-alive task closes an idle session: on_close's test ...
ReapChecks(s) ==
  /\ reaping = NoSession
  /\ connected[s]
  /\ reaping' = s
  /\ UNCHANGED <<life, connected, leaving, compid, map, pc, history>>

\* ... and its set.
ReapSets ==
  /\ reaping # NoSession
  /\ Closes(reaping)
  /\ reaping' = NoSession
  /\ UNCHANGED <<life, compid, map, pc, history>>

-----------------------------------------------------------------------------
(* Handlers on the strands                                                 *)

\* A frame of s reaches on_route, which goes on at p; the next read is armed
\* before, unless the session was closed.
Frame(s, p) ==
  /\ pc[s] = Idle /\ armed[s]
  /\ frames < MaxFrames
  /\ frames' = frames + 1
  /\ armed' = [armed EXCEPT ![s] = connected[s]]
  /\ pc' = [pc EXCEPT ![s] = p]
  /\ UNCHANGED <<fresh, connected, leaving, compid, map, reaping, history>>

\* LOGIN looks its id up; when nobody has it, it only answers.
LoginFrame(s, c) ==
  Frame(s, IF c = NoId THEN Rejecting
           ELSE IF Lookup(c) = NoSession THEN Idle
           ELSE Kicking("evict", Lookup(c)))

\* ACCESS refuses an id that somebody has.
AccessFrame(s, c) ==
  Frame(s, IF Lookup(c) = NoSession THEN Setting(c) ELSE Rejecting)

\* The packets that leave the registry alone, and those on_route refuses.
OtherFrame(s, ok) == Frame(s, IF ok THEN Idle ELSE Rejecting)

\* LOGIN erases the entry of the session it found, under the id that session
\* has by now.
Evicts(s) ==
  /\ pc[s].at = "evict"
  /\ Unregister(compid[pc[s].user], pc[s].user)
  /\ pc' = [pc EXCEPT ![s] = Kicking("close", pc[s].user)]
  /\ UNCHANGED <<life, connected, leaving, compid, reaping, granted, left, late,
                 twice>>

\* Mutant of KickChecks: LOGIN erases the entry but does not close the session.
KickChecksForgets(s) ==
  /\ pc[s].at = "close"
  /\ pc' = [pc EXCEPT ![s] = Idle]
  /\ UNCHANGED <<life, connected, leaving, compid, map, reaping, history>>

\* LOGIN closes the session it found: on_close's test ...
KickChecks(s) ==
  /\ pc[s].at = "close"
  /\ pc' = [pc EXCEPT ![s] = IF connected[pc[s].user]
                             THEN Kicking("closing", pc[s].user) ELSE Idle]
  /\ UNCHANGED <<life, connected, leaving, compid, map, reaping, history>>

\* ... and its set.
KickSets(s) ==
  /\ pc[s].at = "closing"
  /\ Closes(pc[s].user)
  /\ pc' = [pc EXCEPT ![s] = Idle]
  /\ UNCHANGED <<life, compid, map, reaping, history>>

\* ACCESS sets the session's id; set() ignores id 0.
SetsId(s) ==
  LET c == pc[s].id
  IN  /\ pc[s].at = "set"
      /\ compid' = IF c = NoId THEN compid ELSE [compid EXCEPT ![s] = c]
      /\ twice' = IF c = NoId \/ compid[s] \in {NoId, c} THEN twice
                  ELSE twice \union {s}
      /\ pc' = [pc EXCEPT ![s] = Entering(c)]
      /\ UNCHANGED <<life, connected, leaving, map, reaping, granted, left, late, stolen>>

\* Mutant of Enters: the entry is overwritten, not tried.
EntersOverwrites(s) ==
  /\ pc[s].at = "enter"
  /\ map' = [map EXCEPT ![compid[s]] = s]
  /\ granted' = [granted EXCEPT ![s] = pc[s].id]
  /\ pc' = [pc EXCEPT ![s] = Idle]
  /\ UNCHANGED <<life, connected, leaving, compid, reaping, left, stolen, twice, late>>

\* ACCESS registers the session under its id, unless somebody has taken the id
\* since the lookup.
Enters(s) ==
  /\ pc[s].at = "enter"
  /\ IF map[compid[s]] = NoSession
     THEN /\ map' = [map EXCEPT ![compid[s]] = s]
          /\ granted' = [granted EXCEPT ![s] = pc[s].id]
          /\ late' = IF s \in left THEN late \union {s} ELSE late
          /\ pc' = [pc EXCEPT ![s] = Idle]
     ELSE /\ pc' = [pc EXCEPT ![s] = Rejecting]
          /\ UNCHANGED <<map, granted, late>>
  /\ UNCHANGED <<life, connected, leaving, compid, reaping, left, twice, stolen>>

\* on_route returned false.
Rejects(s) ==
  /\ pc[s].at = "reject"
  /\ ClosesIfConnected(s)
  /\ pc' = [pc EXCEPT ![s] = Idle]
  /\ UNCHANGED <<life, compid, map, reaping, history>>

\* Mutant of Leaves: on_user_leave leaves the registry alone.
LeavesRegistered(s) ==
  /\ pc[s] = Idle /\ leaving[s] > 0
  /\ leaving' = [leaving EXCEPT ![s] = @ - 1]
  /\ left' = left \union {s}
  /\ UNCHANGED <<life, connected, compid, map, pc, reaping, granted, late, twice,
                 stolen>>

\* handler::on_user_leave.
Leaves(s) ==
  /\ pc[s] = Idle /\ leaving[s] > 0
  /\ leaving' = [leaving EXCEPT ![s] = @ - 1]
  /\ Unregister(compid[s], s)
  /\ left' = left \union {s}
  /\ UNCHANGED <<life, connected, compid, pc, reaping, granted, late, twice>>

-----------------------------------------------------------------------------
Routes(s) ==
  \/ \E c \in Key : LoginFrame(s, c) \/ AccessFrame(s, c)
  \/ \E ok \in BOOLEAN : OtherFrame(s, ok)

Continues(s) ==
  \/ Evicts(s) \/ KickChecks(s) \/ KickSets(s)
  \/ SetsId(s) \/ Enters(s) \/ Rejects(s)

Next ==
  \/ \E s \in Session : \/ Starts(s) \/ ReadFails(s) \/ ReapChecks(s)
                        \/ Routes(s) \/ Continues(s) \/ Leaves(s)
  \/ ReapSets

Spec == Init /\ [][Next]_vars

\* A handler that has begun is finished; a posted on_user_leave is run.
Fairness == \A s \in Session : WF_vars(Continues(s)) /\ WF_vars(Leaves(s))

FairSpec == Spec /\ Fairness

-----------------------------------------------------------------------------
(* Properties                                                              *)

\* A session is found under its own id: only one that asked for a second id
\* is still there under the first.
KeyIsCompid ==
  \A k \in Id : LET s == map[k] IN s # NoSession => compid[s] = k \/ s \in twice

\* Nothing will happen to s any more.
Gone(s) ==
  /\ s \notin fresh /\ ~connected[s] /\ ~armed[s]
  /\ leaving[s] = 0 /\ pc[s] = Idle /\ reaping # s
  /\ \A t \in Session : pc[t].user # s

\* The registry does not keep sessions that are gone, except one that was
\* registered after its own on_user_leave or asked for a second id.
GhostsExplained ==
  \A k \in Id : LET s == map[k] IN
     s # NoSession /\ Gone(s) => s \in late \/ s \in twice

\* A LOGIN has erased the entry of s and is about to close it.
Kicked(s) ==
  \E t \in Session : pc[t].at \in {"close", "closing"} /\ pc[t].user = s

\* A connected session that was granted an id is registered under it, unless a
\* LOGIN is throwing it out or another session's departure took its entry.
GrantedIsRegistered ==
  \A s \in Session :
    granted[s] # NoId /\ connected[s] =>
      map[granted[s]] = s \/ Kicked(s) \/ s \in stolen \/ s \in twice

\* LOGIN disconnects the session it found under its id.
LoginDisconnects ==
  \A s, t \in Session : (pc[s].at = "evict" /\ pc[s].user = t) ~> ~connected[t]

\* What session_leave takes for granted and logs as an error otherwise: the id
\* of the session that leaves is in the map.
LeaveFindsEntry ==
  [][ \A s \in Session :
        leaving'[s] < leaving[s] /\ compid[s] # NoId => map[compid[s]] # NoSession
    ]_vars

-----------------------------------------------------------------------------
(* What makes the properties inductive                                     *)

\* Nothing refers to a session that has not been started.
FreshUntouched ==
  \A s \in fresh :
    /\ ~connected[s] /\ leaving[s] = 0 /\ pc[s] = Idle /\ ~armed[s]
    /\ granted[s] = NoId /\ reaping # s
    /\ \A k \in Key : map[k] # s
    /\ \A t \in Session : pc[t].user # s

\* on_user_leave is posted after set_closed.
LeavingIsClosed == \A s \in Session : leaving[s] > 0 => ~connected[s]

\* ACCESS registers under the id it has set, which no other strand sets.
EntersOwnId ==
  \A s \in Session : pc[s].at = "enter" => pc[s].id \in {NoId, compid[s]}

IInv == /\ FreshUntouched /\ LeavingIsClosed /\ EntersOwnId
        /\ KeyIsCompid /\ GrantedIsRegistered
=============================================================================

----------------------------- MODULE DummyClient -----------------------------
(***************************************************************************)
(* A client of project/dummy, from its first on_connect() on: connecting,  *)
(* trying again after a failure, telling the server who it is, sending     *)
(* from its tasks, and losing the connection.                              *)
(*                                                                         *)
(* Three things run beside each other: on_connect(), which starts the      *)
(* connection and stores the session afterwards; the handler of            *)
(* async_connect, which is not on the session's strand; and the strand     *)
(* with the handlers of reads and writes.  The first and the second write  *)
(* to the client's own flags and pointer without any lock.                 *)
(*                                                                         *)
(* Sessions are numbered; only the newest one can be more than a closed    *)
(* object that somebody still points to.                                   *)
(***************************************************************************)
EXTENDS Naturals

CONSTANT Attempts  \* bound: the sessions that are made

ASSUME AttemptsAssumption == Attempts \in Nat \ {0}

VARIABLES
  \* the client (base_handler, tcp_handler, tcp_client)
  hconn,      \* _is_connected
  hclos,      \* _is_closing
  stored,     \* _session, 0 being null
  storing,    \* sessions whose on_connect() has yet to store them
  job,        \* what leads to the next on_connect()
  \* the newest session
  n,          \* its number
  phase,      \* how far the handler of its async_connect is
  sconn,      \* its _is_connected
  sock,       \* its socket
  link,       \* the connection under it
  read,       \* its async_read
  write,      \* whether an async_write is outstanding
  closer,     \* how far an on_close() on its strand is
  \* what became of access_server(), and history
  access,
  early,      \* its read failed before it was connected
  crossed,    \* it was closed before connected() had returned
  displaced   \* an older session was stored after it

clientVars  == <<hconn, hclos>>
sessionVars == <<sconn, sock, link, read, write, closer>>
history     == <<early, crossed, displaced>>
vars == <<clientVars, stored, storing, job, n, phase, sessionVars, access, history>>

Bools ==
  /\ hconn \in BOOLEAN /\ hclos \in BOOLEAN /\ sconn \in BOOLEAN /\ write \in BOOLEAN
  /\ early \in BOOLEAN /\ crossed \in BOOLEAN /\ displaced \in BOOLEAN

Counts == n \in 0 .. Attempts /\ stored \in 0 .. n /\ storing \in SUBSET (1 .. n)

Stages ==
  /\ job \in {"none", "posted", "timer"}
  /\ phase \in {"none", "pending", "arming", "flagging", "calling", "setting",
                "completing", "done", "failed"}
  /\ sock \in {"none", "open", "closed"} /\ link \in {"none", "up", "down"}
  /\ read \in {"none", "waiting", "frame"}
  /\ closer \in {"no", "closing", "closed", "leaving"}
  /\ access \in {"no", "sent", "dropped"}

TypeOK == Bools /\ Counts /\ Stages

\* main() has posted the first on_connect().
Init ==
  /\ hconn = FALSE /\ hclos = TRUE
  /\ stored = 0 /\ storing = {} /\ job = "posted"
  /\ n = 0 /\ phase = "none"
  /\ sconn = FALSE /\ sock = "none" /\ link = "none" /\ read = "none" /\ write = FALSE
  /\ closer = "no"
  /\ access = "no" /\ early = FALSE /\ crossed = FALSE /\ displaced = FALSE

-----------------------------------------------------------------------------
(* on_connect() and what leads to it                                       *)

\* Mutant of FailedJob: the client does not wait for another try.
FailedJobGivesUp == "none"

\* on_connect_failed() starts a timer, unless the client is connected.
FailedJob == IF hconn THEN "none" ELSE "timer"

Refuses == ~hclos \/ hconn

\* on_connect() makes a session and starts its async_connect, unless the client
\* takes itself for connected; then on_connect_failed() is what it posts.
OnConnect ==
  /\ job = "posted"
  /\ IF Refuses
     THEN /\ job' = FailedJob
          /\ UNCHANGED <<n, phase, sessionVars, storing, early, crossed, displaced>>
     ELSE /\ n < Attempts
          /\ job' = "none"
          /\ n' = n + 1 /\ phase' = "pending" /\ storing' = storing \union {n + 1}
          /\ sconn' = FALSE /\ sock' = "none" /\ link' = "none" /\ read' = "none"
          /\ write' = FALSE /\ closer' = "no"
          /\ early' = FALSE /\ crossed' = FALSE /\ displaced' = FALSE
  /\ UNCHANGED <<clientVars, stored, access>>

\* Only then it stores the session.
Store(m) ==
  /\ m \in storing
  /\ storing' = storing \ {m}
  /\ stored' = m
  /\ displaced' = (displaced \/ (m # n /\ n \notin storing))
  /\ UNCHANGED <<clientVars, job, n, phase, sessionVars, access, early, crossed>>

\* The timer goes off: on_reconnect() posts on_connect(), unless it refuses as well.
TimerExpires ==
  /\ job = "timer"
  /\ job' = IF Refuses THEN FailedJob ELSE "posted"
  /\ UNCHANGED <<clientVars, stored, storing, n, phase, sessionVars, access, history>>

-----------------------------------------------------------------------------
(* The handler of async_connect, tcp_session::connect                      *)

ConnectSucceeds ==
  /\ phase = "pending"
  /\ phase' = "arming"
  /\ sock' = "open" /\ link' = "up"
  /\ UNCHANGED <<clientVars, stored, storing, job, n, sconn, read, write, closer, access,
                 history>>

\* The session closes its socket and reports to the client: closing(), then
\* connect_failed().
ConnectFails ==
  /\ phase = "pending"
  /\ phase' = "failed"
  /\ hclos' = TRUE
  /\ sconn' = FALSE /\ sock' = "closed"
  /\ job' = FailedJob
  /\ UNCHANGED <<hconn, stored, storing, n, link, read, write, closer, access, history>>

\* The first read is armed ...
Arms ==
  /\ phase = "arming"
  /\ phase' = "flagging"
  /\ read' = "waiting"
  /\ UNCHANGED <<clientVars, stored, storing, job, n, sconn, sock, link, write, closer,
                 access, history>>

\* ... before the session is marked as connected ...
SetConnected ==
  /\ phase = "flagging"
  /\ phase' = "calling"
  /\ sconn' = TRUE
  /\ UNCHANGED <<clientVars, stored, storing, job, n, sock, link, read, write, closer,
                 access, history>>

\* Mutant of ClearsClosing: only the other flag is seen to.
ClearsNothing ==
  /\ phase = "calling"
  /\ phase' = "setting"
  /\ UNCHANGED <<clientVars, stored, storing, job, n, sessionVars, access, history>>

\* ... and connected() called, which lets the client know in two steps ...
ClearsClosing ==
  /\ phase = "calling"
  /\ phase' = "setting"
  /\ hclos' = FALSE
  /\ UNCHANGED <<hconn, stored, storing, job, n, sessionVars, access, history>>

SetsConnected ==
  /\ phase = "setting"
  /\ phase' = "completing"
  /\ hconn' = TRUE
  /\ UNCHANGED <<hclos, stored, storing, job, n, sessionVars, access, history>>

\* A packet gets to the session if the client has it stored and both take
\* themselves for connected (base_handler::send, tcp_handler::on_send).
Passes == ~hclos /\ hconn /\ stored = n /\ sconn

\* ... and has it send ACCESS, once and for all, and start its tasks.
Completes ==
  /\ phase = "completing"
  /\ phase' = "done"
  /\ access' = IF Passes THEN "sent" ELSE "dropped"
  /\ write' = (Passes /\ closer = "no")
  /\ UNCHANGED <<clientVars, stored, storing, job, n, sconn, sock, link, read, closer,
                 history>>

ConnectHandler == Arms \/ SetConnected \/ ClearsClosing \/ SetsConnected \/ Completes

-----------------------------------------------------------------------------
(* The peer and the system                                                 *)

LinkBreaks ==
  /\ link = "up"
  /\ link' = "down"
  /\ UNCHANGED <<clientVars, stored, storing, job, n, phase, sconn, sock, read, write,
                 closer, access, history>>

\* The server sends nothing to somebody whose ACCESS it has not had.
FrameArrives ==
  /\ read = "waiting" /\ link = "up" /\ access = "sent"
  /\ read' = "frame"
  /\ UNCHANGED <<clientVars, stored, storing, job, n, phase, sconn, sock, link, write,
                 closer, access, history>>

WriteCompletes ==
  /\ write /\ link = "up" /\ closer = "no"
  /\ write' = FALSE
  /\ UNCHANGED <<clientVars, stored, storing, job, n, phase, sconn, sock, link, read,
                 closer, access, history>>

-----------------------------------------------------------------------------
(* The session's strand                                                    *)

\* on_close(), called on the strand: nothing if the session is not connected,
\* else closing() is called first.
BeginsClose ==
  IF sconn
  THEN /\ closer' = "closing" /\ hclos' = TRUE
       /\ crossed' = (crossed \/ phase \in {"calling", "setting"})
  ELSE UNCHANGED <<closer, hclos, crossed>>

\* A frame has been read; the next read is armed if the session is connected.
HandleFrame ==
  /\ closer = "no"
  /\ read = "frame"
  /\ read' = IF sconn THEN "waiting" ELSE "none"
  /\ UNCHANGED <<clientVars, stored, storing, job, n, phase, sconn, sock, link, write,
                 closer, access, history>>

\* The read fails.
ReadFails ==
  /\ closer = "no"
  /\ read = "waiting" /\ link = "down"
  /\ read' = "none"
  /\ early' = (early \/ (~sconn /\ phase = "flagging"))
  /\ BeginsClose
  /\ UNCHANGED <<hconn, stored, storing, job, n, phase, sconn, sock, link, write, access,
                 displaced>>

\* Mutant of WriteFails: the session is not closed.
WriteFailsQuietly ==
  /\ closer = "no"
  /\ write /\ link = "down"
  /\ write' = FALSE
  /\ UNCHANGED <<clientVars, stored, storing, job, n, phase, sconn, sock, link, read,
                 closer, access, history>>

\* The write fails.
WriteFails ==
  /\ closer = "no"
  /\ write /\ link = "down"
  /\ write' = FALSE
  /\ BeginsClose
  /\ UNCHANGED <<hconn, stored, storing, job, n, phase, sconn, sock, link, read, access,
                 early, displaced>>

\* on_close() goes on: the session is marked as closed, ...
SetClosed ==
  /\ closer = "closing"
  /\ closer' = "closed"
  /\ sconn' = FALSE
  /\ UNCHANGED <<clientVars, stored, storing, job, n, phase, sock, link, read, write,
                 access, history>>

\* ... its socket is closed and disconnected() called, which tells the client
\* in two steps.
Disconnects ==
  /\ closer = "closed"
  /\ closer' = "leaving"
  /\ sock' = "closed" /\ link' = "down"
  /\ hclos' = TRUE
  /\ UNCHANGED <<hconn, stored, storing, job, n, phase, sconn, read, write, access, history>>

\* Mutant of Disconnected: the client's flag is forgotten.
DisconnectedForgets ==
  /\ closer = "leaving"
  /\ closer' = "no"
  /\ UNCHANGED <<clientVars, stored, storing, job, n, phase, sconn, sock, link, read, write,
                 access, history>>

Disconnected ==
  /\ closer = "leaving"
  /\ closer' = "no"
  /\ hconn' = FALSE
  /\ UNCHANGED <<hclos, stored, storing, job, n, phase, sconn, sock, link, read, write,
                 access, history>>

Strand == HandleFrame \/ ReadFails \/ WriteFails \/ SetClosed \/ Disconnects \/ Disconnected

-----------------------------------------------------------------------------
\* The tasks send, five times a second.
TaskSends ==
  /\ phase = "done"
  /\ Passes /\ closer = "no"
  /\ ~write
  /\ write' = TRUE
  /\ UNCHANGED <<clientVars, stored, storing, job, n, phase, sconn, sock, link, read,
                 closer, access, history>>

Next ==
  \/ OnConnect \/ TimerExpires \/ (\E m \in 1 .. n : Store(m))
  \/ ConnectSucceeds \/ ConnectFails \/ ConnectHandler
  \/ LinkBreaks \/ FrameArrives \/ WriteCompletes
  \/ Strand \/ TaskSends

Spec == Init /\ [][Next]_vars

\* The io_context's threads go on with what they are at, timers expire, and an
\* attempt to connect comes to an end.
Fairness ==
  /\ WF_vars(OnConnect \/ TimerExpires)
  /\ \A m \in 1 .. Attempts : WF_vars(Store(m))
  /\ WF_vars(ConnectSucceeds \/ ConnectFails \/ ConnectHandler)
  /\ WF_vars(Strand)
  /\ WF_vars(TaskSends)

FairSpec == Spec /\ Fairness

-----------------------------------------------------------------------------
(* Properties                                                              *)

\* Nothing the client does by itself is ever refused: while it is about to
\* connect it knows that it is not connected.
NeverRefused == job # "none" => hclos /\ ~hconn

\* A connected session that reads no more is one whose first read failed before
\* the session was marked as connected, so that on_close() did nothing.
DeafExplained == sconn /\ read = "none" /\ closer = "no" => early

\* When everything has come to rest the client and its session agree on being
\* connected, unless the session was closed before connected() had returned:
\* the client can then take itself for connected for ever.
AtRest == phase = "done" /\ closer = "no"
FlagsExplained == AtRest /\ ~crossed => (hconn <=> sconn) /\ (hclos <=> ~sconn)

\* A client whose packets go nowhere although it is connected has its session
\* not stored yet, or another thread stored an older one over it.
MuteExplained ==
  AtRest /\ hconn /\ sconn /\ ~Passes => n \in storing \/ displaced \/ crossed

\* ACCESS, which is sent only once, is dropped only if connected() overtook the
\* thread that stores the session, or if the session was closed by then.
AccessExplained ==
  [][access' = "dropped" /\ access # "dropped"
       => n \in storing \/ displaced \/ crossed \/ ~sconn \/ closer # "no"]_vars

\* That a connection is gone is noticed, if not by the read then by a write,
\* except by a session that has neither.
BreakIsNoticed == sconn /\ link = "down" ~> ~sconn \/ (early /\ displaced)

\* As long as it has not got a connection, the client tries again.
KeepsTrying == phase = "failed" /\ n < Attempts ~> phase = "pending"

\* How the two pairs of flags go together while the handler of async_connect
\* and the strand both write to them.
FlagShape ==
  /\ job # "none" => phase \in {"none", "failed"}
  /\ phase \in {"none", "failed", "pending", "arming", "flagging"} =>
       hclos /\ ~hconn /\ ~sconn /\ closer = "no" /\ ~crossed
  /\ phase = "calling" => ~hconn /\ (~crossed => hclos /\ sconn /\ closer = "no")
  /\ phase = "setting" => ~hconn /\ (~crossed => ~hclos /\ sconn /\ closer = "no")
  /\ phase \in {"completing", "done"} /\ ~crossed =>
       /\ closer = "no" => (hconn <=> sconn) /\ (hclos <=> ~sconn)
       /\ closer # "no" => hclos
  /\ closer # "no" => (sconn <=> closer = "closing")

\* The session of the client is stored, about to be, or was stored and is not
\* any more.
StoreShape ==
  /\ n = 0 <=> phase = "none"
  /\ n > 0 => stored = n \/ n \in storing \/ displaced

\* Every session that has been started and may still be read from is.
ReadShape ==
  /\ phase \in {"none", "failed", "pending", "arming"} => read = "none" /\ ~early
  /\ phase = "flagging" /\ read = "none" => early
  /\ access = "sent" => phase = "done"
  /\ read = "frame" => phase = "done"
  /\ DeafExplained

IInv == TypeOK /\ FlagShape /\ StoreShape /\ ReadShape
=============================================================================

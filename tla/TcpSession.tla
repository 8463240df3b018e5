----------------------------- MODULE TcpSession -----------------------------
(***************************************************************************)
(* One server-side connection: impl::network::server::tcp_session together *)
(* with the two pieces of impl::network::server::handler state it shares,  *)
(* its membership in _user_set and its keep-alive flag.                    *)
(*                                                                         *)
(* Every completion handler of a session is bound to the session's strand, *)
(* so the handlers run one at a time in the order in which they were       *)
(* queued; `strand` is that queue.  A dispatch from inside the strand runs *)
(* inline; a dispatch from elsewhere goes through the queue, though it is  *)
(* run at once when the strand is idle, and so does every post.  Three     *)
(* things run outside the strand: start(), the keep-alive task, and other  *)
(* sessions' handlers that call on_close or on_fast_send on this one.      *)
(*                                                                         *)
(* A read that succeeds has filled its whole buffer (boost::asio's         *)
(* async_read), so that the branches on a short or empty transfer are not  *)
(* separate outcomes.  route() and route_poll() run inline on the strand,  *)
(* so _inbound_q holds the frame being routed and nothing else; `pc` is    *)
(* where that routing stands.                                              *)
(***************************************************************************)
EXTENDS FiniteSets, StrandQueue

CONSTANTS
  Kicker,     \* threads that may call on_close from outside the strand
  Chunks,     \* writes of the socket that one packet takes
  MaxFrame,   \* bound: frames the peer sends
  MaxSend,    \* bound: packets accepted by on_send
  MaxFast     \* bound: packets accepted by on_fast_send

ASSUME BoundAssumption ==
  /\ Chunks \in Nat \ {0}
  /\ MaxFrame \in Nat
  /\ MaxSend \in Nat
  /\ MaxFast \in Nat
  /\ "keepalive" \notin Kicker

ASSUME KickerAssumption == IsFiniteSet(Kicker)

VARIABLES
  phase,      \* how far start() has come
  connected,  \* _is_connected
  open,       \* the socket is usable: on_close's lambda has not closed it
  strand,     \* handlers waiting for the strand, in order
  reading,    \* the outstanding async_read, if any
  inbound,    \* _inbound is not null
  pc,         \* what the handler that owns the strand still has to do
  verdict,    \* what on_route is going to return
  outq,       \* _outbound_q, as the numbers of the accepted packets
  writes,     \* outstanding async_writes of queued packets
  fasting,    \* how many async_writes of on_fast_send are outstanding
  accepted,   \* packets on_send has put into _outbound_q so far
  fasts,      \* packets on_fast_send has accepted so far
  frames,     \* frames received so far
  wire,       \* last piece of a queued packet put on the wire
  member,     \* the session is in the handler's _user_set
  alive,      \* _keep_alive_flag
  idle,       \* keep-alive ticks since the last header (counted up to 2)
  closer,     \* a thread outside the strand halfway through on_close
  leaves,     \* calls of on_user_leave so far
  late        \* on_user_enter ran after on_user_leave

ioVars     == <<reading, inbound, frames>>
sendVars   == <<outq, writes, accepted, fasting, fasts, wire>>
memberVars == <<member, alive, idle, leaves, late>>
runVars    == <<pc, verdict>>
vars == <<phase, connected, open, strand, closer, ioVars, sendVars, memberVars,
          runVars>>

KeepAlive == "keepalive"
Closer    == Kicker \union {KeepAlive}
Op        == {"enter", "leave", "close", "header", "body", "write", "fast"}
Handler   == [op : Op, ok : BOOLEAN]
WriteOp   == [pk : Nat, left : 0 .. Chunks]

Task(op)         == [op |-> op, ok |-> TRUE]
Completion(o, b) == [op |-> o, ok |-> b]

FlagsOK ==
  /\ connected \in BOOLEAN
  /\ open \in BOOLEAN
  /\ inbound \in BOOLEAN
  /\ verdict \in BOOLEAN
  /\ member \in BOOLEAN
  /\ alive \in BOOLEAN
  /\ late \in BOOLEAN

ControlOK ==
  /\ phase \in {"new", "armed", "started"}
  /\ strand \in Seq(Handler)
  /\ reading \in {"none", "header", "body"}
  /\ pc \in {"idle", "route", "send", "reject"}
  /\ closer \in [Closer -> {"idle", "checked"}]
  /\ frames \in Nat
  /\ idle \in 0 .. 2
  /\ leaves \in Nat

SendOK ==
  /\ outq \in Seq(Nat)
  /\ writes \subseteq WriteOp
  /\ fasting \in Nat
  /\ accepted \in Nat
  /\ fasts \in Nat
  /\ wire \in [frame : Nat, chunk : 0 .. Chunks]

TypeOK == FlagsOK /\ ControlOK /\ SendOK

Init ==
  /\ phase = "new"
  /\ connected = FALSE
  /\ open = TRUE
  /\ strand = <<>>
  /\ reading = "none"
  /\ inbound = FALSE
  /\ pc = "idle"
  /\ verdict = TRUE
  /\ outq = <<>>
  /\ writes = {}
  /\ accepted = 0
  /\ fasting = 0
  /\ fasts = 0
  /\ frames = 0
  /\ wire = [frame |-> 0, chunk |-> Chunks]
  /\ member = FALSE
  /\ alive = FALSE
  /\ idle = 0
  /\ closer = [c \in Closer |-> "idle"]
  /\ leaves = 0
  /\ late = FALSE

-----------------------------------------------------------------------------
(* start(), on the thread that accepted the connection                     *)

\* The first read is armed; its completion can overtake the rest of start().
StartArm ==
  /\ phase = "new"
  /\ phase' = "armed"
  /\ connected' = TRUE
  /\ inbound' = TRUE
  /\ reading' = "header"
  /\ UNCHANGED <<open, strand, closer, frames, sendVars, memberVars, runVars>>

\* No inbound packet can be had: on_close() and return, nothing is posted.
StartFails ==
  /\ phase = "new"
  /\ phase' = "started"
  /\ strand' = Append(strand, Task("close"))
  /\ UNCHANGED <<connected, open, closer, ioVars, sendVars, memberVars, runVars>>

StartPost ==
  /\ phase = "armed"
  /\ phase' = "started"
  /\ strand' = Append(strand, Task("enter"))
  /\ UNCHANGED <<connected, open, closer, ioVars, sendVars, memberVars, runVars>>

-----------------------------------------------------------------------------
(* The operating system and the peer                                       *)

\* A header arrives, or the whole body that a header announced.
ReadCompletes ==
  /\ reading # "none"
  /\ reading = "header" => frames < MaxFrame
  /\ frames' = IF reading = "header" THEN frames + 1 ELSE frames
  /\ strand' = Append(strand, Completion(reading, TRUE))
  /\ reading' = "none"
  /\ UNCHANGED <<phase, connected, open, inbound, closer, sendVars, memberVars,
                 runVars>>

\* The peer went away, or the socket was closed under the read.
ReadFails ==
  /\ reading # "none"
  /\ strand' = Append(strand, Completion(reading, FALSE))
  /\ reading' = "none"
  /\ UNCHANGED <<phase, connected, open, inbound, closer, frames, sendVars,
                 memberVars, runVars>>

\* Part of a queued packet goes out.
PutChunk(w) ==
  /\ open
  /\ w.left > 0
  /\ writes' = (writes \ {w}) \union {[w EXCEPT !.left = @ - 1]}
  /\ wire' = [frame |-> w.pk, chunk |-> Chunks - w.left + 1]
  /\ UNCHANGED <<phase, connected, open, strand, closer, ioVars, outq, accepted,
                 fasting, fasts, memberVars, runVars>>

\* The completion of a queued write goes through the strand.
WriteEnds(w, ok) ==
  /\ writes' = writes \ {w}
  /\ strand' = Append(strand, Completion("write", ok))
  /\ UNCHANGED <<phase, connected, open, closer, ioVars, outq, accepted, fasting,
                 fasts, wire, memberVars, runVars>>

\* The completion of a fast one is bound to no strand and only logs.
FastEnds ==
  /\ fasting > 0
  /\ fasting' = fasting - 1
  /\ UNCHANGED <<phase, connected, open, strand, closer, ioVars, outq, writes,
                 accepted, fasts, wire, memberVars, runVars>>

WriteCompletes(w) == w.left = 0 /\ WriteEnds(w, TRUE)
WriteFails(w)     == WriteEnds(w, FALSE)

-----------------------------------------------------------------------------
(* Threads outside the strand that close the session.  on_close tests and  *)
(* clears _is_connected in two steps, so two closers can both get through. *)

KickChecks(k) ==
  /\ connected
  /\ closer[k] = "idle"
  /\ closer' = [closer EXCEPT ![k] = "checked"]
  /\ UNCHANGED <<phase, connected, open, strand, ioVars, sendVars, memberVars,
                 runVars>>

CloserSets(c) ==
  /\ closer[c] = "checked"
  /\ closer' = [closer EXCEPT ![c] = "idle"]
  /\ connected' = FALSE
  /\ strand' = Append(strand, Task("close"))
  /\ UNCHANGED <<phase, open, ioVars, sendVars, memberVars, runVars>>

\* The keep-alive task holds _user_set shared until it is through with every
\* session, on_close included.
UserSetFree == closer[KeepAlive] = "idle"

\* Mutant of KeepAliveTick: on_init_keep_alive_flag is forgotten.
KeepAliveTickKeepsFlag ==
  /\ UserSetFree
  /\ member
  /\ idle' = IF idle < 2 THEN idle + 1 ELSE idle
  /\ closer' = [closer EXCEPT ![KeepAlive] =
                  IF ~alive /\ connected THEN "checked" ELSE "idle"]
  /\ UNCHANGED <<phase, connected, open, strand, ioVars, sendVars, member, alive,
                 leaves, late, runVars>>

KeepAliveTick ==
  /\ UserSetFree
  /\ member
  /\ idle' = IF idle < 2 THEN idle + 1 ELSE idle
  /\ alive' = FALSE
  /\ closer' = [closer EXCEPT ![KeepAlive] =
                  IF ~alive /\ connected THEN "checked" ELSE "idle"]
  /\ UNCHANGED <<phase, connected, open, strand, ioVars, sendVars, member,
                 leaves, late, runVars>>

\* on_fast_send from another session's broadcast.
FastSend ==
  /\ connected
  /\ fasts < MaxFast
  /\ fasts' = fasts + 1
  /\ strand' = Append(strand, Task("fast"))
  /\ UNCHANGED <<phase, connected, open, closer, ioVars, outq, writes, accepted,
                 fasting, wire, memberVars, runVars>>

-----------------------------------------------------------------------------
(* Handlers on the strand                                                  *)

Runs(op) == pc = "idle" /\ strand # <<>> /\ Head(strand).op = op

\* Mutant of OnClose: on_user_leave is not posted.
OnCloseSilent(rest) ==
  /\ connected' = FALSE
  /\ open' = (open /\ ~connected)
  /\ strand' = rest

\* on_close called on the strand, whose queue is then rest: the lambda that
\* closes the socket runs inline, on_user_leave is posted.
OnClose(rest) ==
  /\ connected' = FALSE
  /\ open' = (open /\ ~connected)
  /\ strand' = IF connected THEN Append(rest, Task("leave")) ELSE rest

NoClose(rest) ==
  /\ strand' = rest
  /\ UNCHANGED <<connected, open>>

\* Mutant of HandleClose: the socket is shut down later than on_user_leave.
HandleCloseLeavesOpen ==
  /\ Runs("close")
  /\ strand' = Append(Tail(strand), Task("leave"))
  /\ UNCHANGED <<phase, connected, open, closer, ioVars, sendVars, memberVars,
                 runVars>>

\* The lambda of an on_close that was called outside the strand.
HandleClose ==
  /\ Runs("close")
  /\ open' = FALSE
  /\ strand' = Append(Tail(strand), Task("leave"))
  /\ UNCHANGED <<phase, connected, closer, ioVars, sendVars, memberVars, runVars>>

\* handler::on_user_enter; the server is full when refused.
HandleEnter(refused) ==
  /\ Runs("enter")
  /\ UserSetFree
  /\ strand' = Tail(strand)
  /\ member' = (member \/ ~refused)
  /\ alive' = (alive \/ ~refused)
  /\ idle' = IF refused THEN idle ELSE 0
  /\ late' = (leaves > 0)
  /\ UNCHANGED <<phase, connected, open, closer, leaves, ioVars, sendVars, runVars>>

\* Mutant of HandleLeave: the session is not erased from _user_set.
HandleLeaveKeeps ==
  /\ Runs("leave")
  /\ UserSetFree
  /\ strand' = Tail(strand)
  /\ leaves' = leaves + 1
  /\ UNCHANGED <<phase, connected, open, closer, member, alive, idle, late, ioVars,
                 sendVars, runVars>>

\* handler::on_user_leave.
HandleLeave ==
  /\ Runs("leave")
  /\ UserSetFree
  /\ strand' = Tail(strand)
  /\ member' = FALSE
  /\ leaves' = leaves + 1
  /\ UNCHANGED <<phase, connected, open, closer, alive, idle, late, ioVars,
                 sendVars, runVars>>

HandleReadError ==
  /\ Runs("header") \/ Runs("body")
  /\ ~inbound \/ ~Head(strand).ok
  /\ OnClose(Tail(strand))
  /\ UNCHANGED <<phase, closer, ioVars, sendVars, memberVars, runVars>>

Heard == alive' = TRUE /\ idle' = 0

\* Mutant of HandleHeader: the body is read without another look at
\* is_connected.
HandleHeaderUnchecked ==
  /\ Runs("header") /\ inbound /\ Head(strand).ok
  /\ Heard
  /\ reading' = "body"
  /\ NoClose(Tail(strand))
  /\ UNCHANGED <<phase, closer, inbound, frames, sendVars, member, leaves, late,
                 runVars>>

\* A header that announces a body.
HandleHeader ==
  /\ Runs("header") /\ inbound /\ Head(strand).ok
  /\ Heard
  /\ reading' = IF connected THEN "body" ELSE "none"
  /\ NoClose(Tail(strand))
  /\ UNCHANGED <<phase, closer, inbound, frames, sendVars, member, leaves, late,
                 runVars>>

\* Mutant of HandleFrame: no read is armed for the next frame.
HandleFrameStops(op) ==
  /\ Runs(op) /\ inbound /\ Head(strand).ok
  /\ IF op = "header" THEN Heard ELSE UNCHANGED <<alive, idle>>
  /\ pc' = "route"
  /\ NoClose(Tail(strand))
  /\ UNCHANGED <<phase, closer, inbound, reading, frames, sendVars, member, leaves,
                 late, verdict>>

\* A frame is complete: the next read is armed before the frame is routed.
HandleFrame(op) ==
  /\ Runs(op) /\ inbound /\ Head(strand).ok
  /\ IF op = "header" THEN Heard ELSE UNCHANGED <<alive, idle>>
  /\ reading' = IF connected THEN "header" ELSE "none"
  /\ pc' = "route"
  /\ NoClose(Tail(strand))
  /\ UNCHANGED <<phase, closer, inbound, frames, sendVars, member, leaves, late,
                 verdict>>

\* The same when no inbound packet can be had for the next frame.
HandleFrameNoInbound(op) ==
  /\ Runs(op) /\ inbound /\ Head(strand).ok
  /\ IF op = "header" THEN Heard ELSE UNCHANGED <<alive, idle>>
  /\ inbound' = FALSE
  /\ pc' = "route"
  /\ OnClose(Tail(strand))
  /\ UNCHANGED <<phase, closer, reading, frames, sendVars, member, leaves, late,
                 verdict>>

\* Mutant of RouteSilently: the next read is armed after routing as well.
RouteSilentlyReads(ok) ==
  /\ pc = "route"
  /\ pc' = IF ok THEN "idle" ELSE "reject"
  /\ reading' = IF connected THEN "header" ELSE reading
  /\ UNCHANGED <<phase, connected, open, strand, closer, verdict, inbound, frames,
                 sendVars, memberVars>>

\* on_route answers nothing, or the session is closed and send() refuses.
RouteSilently(ok) ==
  /\ pc = "route"
  /\ pc' = IF ok THEN "idle" ELSE "reject"
  /\ UNCHANGED <<phase, connected, open, strand, closer, verdict, ioVars,
                 sendVars, memberVars>>

\* on_route sends one packet: on_send finds the session connected.
RouteSends(ok) ==
  /\ pc = "route"
  /\ connected
  /\ accepted < MaxSend
  /\ pc' = "send"
  /\ verdict' = ok
  /\ UNCHANGED <<phase, connected, open, strand, closer, ioVars, sendVars,
                 memberVars>>

\* on_route broadcasts, this session included.
RouteBroadcasts ==
  /\ pc = "route"
  /\ connected
  /\ fasts < MaxFast
  /\ fasts' = fasts + 1
  /\ fasting' = fasting + 1
  /\ pc' = "idle"
  /\ UNCHANGED <<phase, connected, open, strand, closer, verdict, ioVars, outq,
                 writes, accepted, wire, memberVars>>

QueuedWrite(pk) == [pk |-> pk, left |-> Chunks]

\* The lambda of on_send, inline.
SendQueues ==
  /\ pc = "send"
  /\ accepted' = accepted + 1
  /\ outq' = Append(outq, accepted + 1)
  /\ writes' = IF outq = <<>> /\ connected
               THEN writes \union {QueuedWrite(accepted + 1)} ELSE writes
  /\ pc' = IF verdict THEN "idle" ELSE "reject"
  /\ UNCHANGED <<phase, connected, open, strand, closer, verdict, fasting,
                 fasts, wire, ioVars, memberVars>>

\* on_route returned false, or closed the session itself (a LOGIN under the id
\* that the session has).
RouteRejects ==
  /\ pc = "reject"
  /\ pc' = "idle"
  /\ OnClose(strand)
  /\ UNCHANGED <<phase, closer, verdict, ioVars, sendVars, memberVars>>

HandleFast ==
  /\ Runs("fast")
  /\ fasting' = IF connected THEN fasting + 1 ELSE fasting
  /\ NoClose(Tail(strand))
  /\ UNCHANGED <<phase, closer, ioVars, outq, writes, accepted, fasts, wire,
                 memberVars, runVars>>

\* Mutant of HandleWrite: the packet is dropped, the next one not started.
HandleWriteStops ==
  /\ Runs("write") /\ Head(strand).ok /\ outq # <<>>
  /\ outq' = Tail(outq)
  /\ NoClose(Tail(strand))
  /\ UNCHANGED <<phase, closer, ioVars, writes, accepted, fasting, fasts, wire,
                 memberVars, runVars>>

\* Mutant of HandleWrite: the packet in front is written again.
HandleWriteRepeats ==
  /\ Runs("write") /\ Head(strand).ok /\ outq # <<>>
  /\ writes' = IF connected THEN writes \union {QueuedWrite(Head(outq))} ELSE writes
  /\ NoClose(Tail(strand))
  /\ UNCHANGED <<phase, closer, ioVars, outq, accepted, fasting, fasts, wire,
                 memberVars, runVars>>

\* write() with success: drop the packet and start the next one.
HandleWrite ==
  /\ Runs("write") /\ Head(strand).ok /\ outq # <<>>
  /\ outq' = Tail(outq)
  /\ writes' = IF outq' # <<>> /\ connected
               THEN writes \union {QueuedWrite(Head(outq'))} ELSE writes
  /\ NoClose(Tail(strand))
  /\ UNCHANGED <<phase, closer, ioVars, accepted, fasting, fasts, wire, memberVars,
                 runVars>>

\* write() with an error, or with an empty queue, which it logs as fatal.
HandleWriteError ==
  /\ Runs("write")
  /\ ~Head(strand).ok \/ outq = <<>>
  /\ outq' = IF outq = <<>> THEN outq ELSE Tail(outq)
  /\ OnClose(Tail(strand))
  /\ UNCHANGED <<phase, closer, ioVars, writes, accepted, fasting, fasts, wire,
                 memberVars, runVars>>

-----------------------------------------------------------------------------
Start   == StartArm \/ StartFails \/ StartPost
Network == \/ ReadCompletes \/ ReadFails \/ FastEnds
           \/ \E w \in writes : PutChunk(w) \/ WriteCompletes(w) \/ WriteFails(w)
Outside == \/ \E k \in Kicker : KickChecks(k)
           \/ \E c \in Closer : CloserSets(c)
           \/ KeepAliveTick \/ FastSend
OnRoute == \/ \E ok \in BOOLEAN : RouteSilently(ok) \/ RouteSends(ok)
           \/ RouteBroadcasts \/ SendQueues \/ RouteRejects
Strand  == \/ HandleClose \/ HandleLeave \/ HandleFast
           \/ \E refused \in BOOLEAN : HandleEnter(refused)
           \/ HandleReadError \/ HandleHeader
           \/ \E op \in {"header", "body"} : HandleFrame(op) \/ HandleFrameNoInbound(op)
           \/ HandleWrite \/ HandleWriteError
           \/ OnRoute

Next == Start \/ Network \/ Outside \/ Strand

Spec == Init /\ [][Next]_vars

\* The io_context's threads run what is queued, a thread that has begun
\* start() or on_close finishes it, and operations on a closed socket end.
\* Nothing makes the peer send or receive.
Fairness ==
  /\ WF_vars(StartPost)
  /\ WF_vars(Strand)
  /\ \A c \in Closer : WF_vars(CloserSets(c))
  /\ WF_vars(~open /\ (ReadFails \/ FastEnds \/ \E w \in writes : WriteFails(w)))

FairSpec == Spec /\ Fairness

-----------------------------------------------------------------------------
(* Properties                                                              *)

Reads      == [op : {"header", "body"}, ok : BOOLEAN]
Writes     == [op : {"write"}, ok : BOOLEAN]
Written    == {Completion("write", TRUE)}
Closings   == [op : {"close", "leave"}, ok : BOOLEAN]
Queued(hs) == QueuedIn(strand, hs)

\* One read at a time: never a second async_read while one is outstanding or
\* its completion handler waits (read_header and read_body share _inbound).
OneRead ==
  /\ OnceIn(strand, Reads)
  /\ reading # "none" => ~Queued(Reads)

\* One queued write at a time, and it writes the packet at the front of
\* _outbound_q, the one its completion handler is going to drop.
OneWrite ==
  /\ OnceIn(strand, Writes)
  /\ writes # {} => ~Queued(Writes)
  /\ \A v, w \in writes : v = w
  /\ \A w \in writes : outq # <<>> /\ w.pk = Head(outq)

\* The branches that log fatal, a completed read without _inbound and a
\* completed write with an empty _outbound_q, are never taken.
NeverFatal ==
  /\ (reading # "none" \/ Queued(Reads)) => inbound
  /\ Queued(Writes) => outq # <<>>

\* A connected session is always listening to its peer: it has a read
\* outstanding or a completed one to handle, so an error is noticed.
NeverDeaf == connected => reading # "none" \/ Queued(Reads)

\* A connected session with packets to send is sending: no accepted packet
\* waits for another send() to come along.
NeverMute == connected /\ outq # <<>> => writes # {} \/ Queued(Writes)

\* Neither async_read nor async_write is ever started on the closed socket,
\* although _is_connected is cleared outside the strand.
StartsOnOpenSocket ==
  [][ \/ reading = "none" /\ reading' # "none"
      \/ \E w \in writes' : w.left = Chunks /\ w \notin writes
      \/ fasting' > fasting
      => open ]_vars

\* on_user_leave runs only after the socket was closed.  It may run more than
\* once, because on_close's test and set are apart, but at most once for every
\* thread that can be inside on_close.
LeaveAfterClose ==
  /\ leaves > 0 \/ Queued({Task("leave")}) => ~open
  /\ leaves <= Cardinality(Kicker) + 2

\* A member that sent nothing for two ticks of the keep-alive task is closed.
IdleIsReaped == member /\ idle = 2 => ~connected \/ ~UserSetFree

\* Everything that holds a reference to the session has let go of it.
Drained ==
  /\ phase = "started" /\ strand = <<>> /\ pc = "idle"
  /\ reading = "none" /\ writes = {} /\ fasting = 0
  /\ \A c \in Closer : closer[c] = "idle"

\* A drained session stays in _user_set only if on_user_enter, posted last by
\* start(), was overtaken by the on_user_leave of its first read's failure.
LeaksOnlyWhenOvertaken == Drained /\ ~connected /\ member => late

\* After a close every reference goes away and on_user_leave has run.
CloseCompletes == (phase # "new" /\ ~connected) ~> [](Drained /\ leaves > 0)

\* What send() accepts goes out in order, whole, once.
Stream == INSTANCE FrameStream WITH broken <- ~open
StreamSpec == Stream!Spec

-----------------------------------------------------------------------------
(* What makes the properties inductive                                     *)

\* Before start() nothing has touched the session.
Untouched ==
  phase = "new" => /\ open /\ ~connected /\ ~member /\ pc = "idle"
                   /\ strand = <<>> /\ reading = "none"
                   /\ writes = {} /\ fasting = 0
                   /\ outq = <<>> /\ accepted = 0
                   /\ wire = [frame |-> 0, chunk |-> Chunks]
                   /\ \A c \in Closer : closer[c] = "idle"

\* The lambda that closes the socket runs after set_closed.
ClosedIsDisconnected ==
  ~open \/ Queued(Closings) => ~connected

\* _outbound_q holds the last packets accepted, in order.
QueueInOrder ==
  /\ Len(outq) <= accepted
  /\ \A i \in 1 .. Len(outq) : outq[i] = (accepted - Len(outq)) + i

\* What is on the wire is what the packet in front of the queue has put there.
WireFollowsQueue ==
  /\ \A w \in writes :
       wire = IF w.left < Chunks THEN [frame |-> w.pk, chunk |-> Chunks - w.left]
              ELSE [frame |-> w.pk - 1, chunk |-> Chunks]
  /\ Queued(Written) =>
       outq # <<>> /\ wire = [frame |-> Head(outq), chunk |-> Chunks]
  /\ connected /\ outq = <<>> => wire = [frame |-> accepted, chunk |-> Chunks]

IInv ==
  /\ Untouched /\ ClosedIsDisconnected
  /\ OneRead /\ NeverDeaf
  /\ OneWrite /\ NeverFatal /\ NeverMute /\ QueueInOrder /\ WireFollowsQueue
=============================================================================

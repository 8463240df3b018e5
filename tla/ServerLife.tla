------------------------------ MODULE ServerLife ------------------------------
(***************************************************************************)
(* The server from listen_start() to the end of on_destroy(): the accept   *)
(* loop of impl::network::server::acceptor, the connection handler's       *)
(* _user_set with its keep-alive task, and the control thread that starts  *)
(* and stops them while the io_context's threads run.                      *)
(*                                                                         *)
(* The keep-alive task calls its functor with the task's spin lock held    *)
(* (see RepeatTask), and the functor holds _user_set's shared lock while   *)
(* it looks at the sessions, so `tick` stands for both locks.  Sections    *)
(* that hold _user_set exclusively do nothing that could block: each is    *)
(* one step that waits for the scan to be over.                            *)
(*                                                                         *)
(* A session is reduced to what the handler and the acceptor know of it;   *)
(* TcpSession has the details.  io_context::stop() lets the handlers that  *)
(* run come to their end and starts no more of them.                       *)
(*                                                                         *)
(* An exception that leaves a handler leaves boost::asio's run() and the   *)
(* thread, which only runs that: nothing catches it and the process ends.  *)
(***************************************************************************)
EXTENDS FiniteSets, Naturals

CONSTANTS
  Sessions,  \* bound: the connections that are accepted
  Limit      \* _default_connect_size_

ASSUME LimitAssumption == Limit \in Nat \ {0}

VARIABLES
  ctl,         \* where the control thread stands
  shutdown,    \* acceptor::_is_shutdown
  listening,   \* _acceptor is open
  accepting,   \* where the accept loop stands
  conn,        \* the connection of a session
  entering,    \* how far the posted on_user_enter of a session has come
  leaving,     \* sessions whose on_user_leave is posted
  members,     \* _user_set
  alive,       \* sessions whose keep-alive flag is set
  registered,  \* sessions with an entry in session_manager
  running,     \* repeat tasks of the handler that have been started
  tick,        \* what the keep-alive task does
  todo,        \* members the scan has still to look at
  refused,     \* history: sessions turned away by the limit
  cleared,     \* history: sessions that on_stop() took out of _user_set
  late         \* history: sessions started with _is_shutdown set

loopVars    == <<shutdown, listening, accepting>>
sessionVars == <<conn, entering, leaving, alive, registered, refused>>
tickVars    == <<tick, todo>>
vars == <<ctl, loopVars, sessionVars, members, running, tickVars, cleared, late>>

Ctl == {"boot", "tasks", "run", "flag", "sixty1", "clear1", "keep1", "closed",
        "sixty2", "clear2", "keep2", "logoff", "halt", "done",
        "unstarted", "crashed"}

TypeOK ==
  /\ ctl \in Ctl
  /\ shutdown \in BOOLEAN /\ listening \in BOOLEAN
  /\ accepting \in {"none", "waiting", "accepted", "failed", "checking", "rearming",
                   "over", "broken"}
  /\ conn \in [Sessions -> {"none", "open", "closed"}]
  /\ entering \in [Sessions -> {"no", "posted", "passed", "yes"}]
  /\ leaving \in SUBSET Sessions /\ members \in SUBSET Sessions
  /\ alive \in SUBSET Sessions /\ registered \in SUBSET Sessions
  /\ running \in SUBSET {"keepalive", "sixty", "onesec"}
  /\ tick \in {"idle", "called", "scanning"}
  /\ todo \in SUBSET Sessions
  /\ refused \in SUBSET Sessions /\ cleared \in SUBSET Sessions
  /\ late \in SUBSET Sessions

\* _acceptor.listen() has succeeded; the io_context's threads run already.
Init ==
  /\ ctl = "boot"
  /\ shutdown = FALSE /\ listening = TRUE /\ accepting = "none"
  /\ conn = [s \in Sessions |-> "none"]
  /\ entering = [s \in Sessions |-> "no"]
  /\ leaving = {} /\ members = {} /\ alive = {} /\ registered = {}
  /\ running = {} /\ tick = "idle" /\ todo = {}
  /\ refused = {} /\ cleared = {} /\ late = {}

\* The io_context still takes handlers from its queue.
Serving == ctl \notin {"halt", "done"}

-----------------------------------------------------------------------------
(* The control thread                                                      *)

\* listen_start() calls handler::on_start(), which starts three tasks ...
StartTasks ==
  /\ ctl = "boot"
  /\ ctl' = "tasks"
  /\ running' = {"onesec", "sixty", "keepalive"}
  /\ UNCHANGED <<loopVars, sessionVars, members, tickVars, cleared, late>>

\* ... and begins the first async_accept.
StartAccept ==
  /\ ctl = "tasks"
  /\ ctl' = "run"
  /\ accepting' = "waiting"
  /\ UNCHANGED <<shutdown, listening, sessionVars, members, running, tickVars,
                 cleared, late>>

\* That may throw, which is logged: on_create() fails and the program gives up.
StartAcceptThrows ==
  /\ ctl = "tasks"
  /\ ctl' = "unstarted"
  /\ UNCHANGED <<loopVars, sessionVars, members, running, tickVars, cleared, late>>

\* on_destroy() calls acceptor::stop(): _is_shutdown is set first ...
SetShutdown ==
  /\ ctl = "run"
  /\ ctl' = "flag"
  /\ shutdown' = TRUE
  /\ UNCHANGED <<listening, accepting, sessionVars, members, running, tickVars,
                 cleared, late>>

\* ... then handler::on_stop() runs, which on_destroy() calls once more: the
\* one-minute task is stopped,
StopSixty(from, to) ==
  /\ ctl = from
  /\ ctl' = to
  /\ running' = running \ {"sixty"}
  /\ UNCHANGED <<loopVars, sessionVars, members, tickVars, cleared, late>>

\* _user_set is cleared under its exclusive lock,
ClearSet(from, to) ==
  /\ ctl = from
  /\ tick # "scanning"
  /\ ctl' = to
  /\ cleared' = cleared \union members
  /\ members' = {}
  /\ UNCHANGED <<loopVars, sessionVars, running, tickVars, late>>

\* Mutant of StopKeepAlive: the task's spin lock is not taken.
StopKeepAliveUnlocked(from, to) ==
  /\ ctl = from
  /\ ctl' = to
  /\ running' = running \ {"keepalive"}
  /\ UNCHANGED <<loopVars, sessionVars, members, tickVars, cleared, late>>

\* and the keep-alive task is stopped, which waits for a call of its functor.
StopKeepAlive(from, to) ==
  /\ ctl = from
  /\ tick = "idle"
  /\ ctl' = to
  /\ running' = running \ {"keepalive"}
  /\ UNCHANGED <<loopVars, sessionVars, members, tickVars, cleared, late>>

\* stop() closes the acceptor; an outstanding async_accept is aborted.
CloseAcceptor ==
  /\ ctl = "keep1"
  /\ ctl' = "closed"
  /\ listening' = FALSE
  /\ accepting' = IF accepting = "waiting" THEN "failed" ELSE accepting
  /\ UNCHANGED <<shutdown, sessionVars, members, running, tickVars, cleared, late>>

\* base_server_instance::on_destroy() stops its own timer and the log.
LogOff ==
  /\ ctl = "keep2"
  /\ ctl' = "logoff"
  /\ UNCHANGED <<loopVars, sessionVars, members, running, tickVars, cleared, late>>

\* io_context::stop() ...
Halt ==
  /\ ctl = "logoff"
  /\ ctl' = "halt"
  /\ UNCHANGED <<loopVars, sessionVars, members, running, tickVars, cleared, late>>

\* ... joins its threads, each of which first ends the handler it runs.
Join ==
  /\ ctl = "halt"
  /\ tick = "idle"
  /\ accepting \notin {"checking", "rearming"}
  /\ \A s \in Sessions : entering[s] # "passed"
  /\ ctl' = "done"
  /\ UNCHANGED <<loopVars, sessionVars, members, running, tickVars, cleared, late>>

OnStop ==
  \/ StopSixty("flag", "sixty1")     \/ StopSixty("closed", "sixty2")
  \/ ClearSet("sixty1", "clear1")    \/ ClearSet("sixty2", "clear2")
  \/ StopKeepAlive("clear1", "keep1") \/ StopKeepAlive("clear2", "keep2")

Control == \/ StartTasks \/ StartAccept \/ StartAcceptThrows
           \/ SetShutdown \/ OnStop \/ CloseAcceptor \/ LogOff \/ Halt \/ Join

-----------------------------------------------------------------------------
(* The accept loop                                                         *)

\* A connection comes in while there is one left, or cannot be taken (the
\* system is out of something).
AcceptCompletes ==
  /\ accepting = "waiting"
  /\ listening
  /\ \/ accepting' = "failed"
     \/ accepting' = "accepted" /\ \E s \in Sessions : conn[s] = "none"
  /\ UNCHANGED <<ctl, shutdown, listening, sessionVars, members, running, tickVars,
                 cleared, late>>

\* accept() runs start() of the session, which posts on_user_enter ...
AcceptStarts(s) ==
  /\ Serving
  /\ accepting = "accepted"
  /\ conn[s] = "none"
  /\ accepting' = "checking"
  /\ conn' = [conn EXCEPT ![s] = "open"]
  /\ entering' = [entering EXCEPT ![s] = "posted"]
  /\ late' = IF shutdown THEN late \union {s} ELSE late
  /\ UNCHANGED <<ctl, shutdown, listening, leaving, alive, registered, refused,
                 members, running, tickVars, cleared>>

\* ... unless the peer has gone already, when the socket's options cannot be set
\* or start() cannot ask for its address: the exception ends the process.
AcceptCrashes ==
  /\ Serving
  /\ accepting = "accepted"
  /\ ctl' = "crashed"
  /\ UNCHANGED <<loopVars, sessionVars, members, running, tickVars, cleared, late>>

\* Mutant of AcceptFails: an error ends the loop.
AcceptGivesUp ==
  /\ Serving
  /\ accepting = "failed"
  /\ accepting' = "over"
  /\ UNCHANGED <<ctl, shutdown, listening, sessionVars, members, running, tickVars,
                 cleared, late>>

\* It leaves it at an error of the accept, logged unless it is that of closing.
AcceptFails ==
  /\ Serving
  /\ accepting = "failed"
  /\ accepting' = "checking"
  /\ UNCHANGED <<ctl, shutdown, listening, sessionVars, members, running, tickVars,
                 cleared, late>>

\* Mutant of AcceptChecks: _is_shutdown is not looked at.
AcceptChecksNot ==
  /\ accepting = "checking"
  /\ accepting' = "rearming"
  /\ UNCHANGED <<ctl, shutdown, listening, sessionVars, members, running, tickVars,
                 cleared, late>>

\* It looks at _is_shutdown ...
AcceptChecks ==
  /\ accepting = "checking"
  /\ accepting' = IF shutdown THEN "over" ELSE "rearming"
  /\ UNCHANGED <<ctl, shutdown, listening, sessionVars, members, running, tickVars,
                 cleared, late>>

\* ... and begins the next async_accept, which fails if stop() came in between.
AcceptRearms ==
  /\ accepting = "rearming"
  /\ accepting' = IF listening THEN "waiting" ELSE "failed"
  /\ UNCHANGED <<ctl, shutdown, listening, sessionVars, members, running, tickVars,
                 cleared, late>>

\* ... unless there is no memory for the next session, or asio throws: that is
\* logged, and nothing is armed.
AcceptThrows ==
  /\ accepting = "rearming"
  /\ accepting' = "broken"
  /\ UNCHANGED <<ctl, shutdown, listening, sessionVars, members, running, tickVars,
                 cleared, late>>

AcceptHandler ==
  \/ \E s \in Sessions : AcceptStarts(s)
  \/ AcceptCrashes \/ AcceptFails \/ AcceptChecks \/ AcceptRearms \/ AcceptThrows

-----------------------------------------------------------------------------
(* The sessions                                                            *)

\* on_user_enter of a session finds too many ids registered ...
EnterRefused(s) ==
  /\ Serving
  /\ entering[s] = "posted"
  /\ Cardinality(registered) >= Limit
  /\ entering' = [entering EXCEPT ![s] = "yes"]
  /\ refused' = refused \union {s}
  /\ UNCHANGED <<ctl, loopVars, conn, leaving, alive, registered, members, running,
                 tickVars, cleared, late>>

\* ... or passes that test, whatever is registered before it has the lock.
EnterPasses(s) ==
  /\ Serving
  /\ entering[s] = "posted"
  /\ Cardinality(registered) < Limit
  /\ entering' = [entering EXCEPT ![s] = "passed"]
  /\ UNCHANGED <<ctl, loopVars, conn, leaving, alive, registered, refused, members,
                 running, tickVars, cleared, late>>

\* Mutant of EnterAdds: the flag is set and the session left out of _user_set.
EnterForgets(s) ==
  /\ entering[s] = "passed"
  /\ tick # "scanning"
  /\ entering' = [entering EXCEPT ![s] = "yes"]
  /\ alive' = alive \union {s}
  /\ UNCHANGED <<ctl, loopVars, conn, leaving, registered, refused, members, running,
                 tickVars, cleared, late>>

\* It is added to _user_set under the exclusive lock, with its flag set.
EnterAdds(s) ==
  /\ entering[s] = "passed"
  /\ tick # "scanning"
  /\ entering' = [entering EXCEPT ![s] = "yes"]
  /\ members' = members \union {s}
  /\ alive' = alive \union {s}
  /\ UNCHANGED <<ctl, loopVars, conn, leaving, registered, refused, running, tickVars,
                 cleared, late>>

\* A header arrives, LOGIN or ACCESS registers; a refused session can as well.
Receive(s) ==
  /\ Serving
  /\ conn[s] = "open"
  /\ alive' = alive \union {s}
  /\ registered' \in {registered, registered \union {s}}
  /\ UNCHANGED <<ctl, loopVars, conn, entering, leaving, refused, members, running,
                 tickVars, cleared, late>>

\* on_close() of a connected session posts on_user_leave.
Close(s) ==
  /\ conn[s] = "open"
  /\ conn' = [conn EXCEPT ![s] = "closed"]
  /\ leaving' = leaving \union {s}

\* The session is closed by one of its own handlers.
SessionCloses(s) ==
  /\ Serving
  /\ Close(s)
  /\ UNCHANGED <<ctl, loopVars, entering, alive, registered, refused, members, running,
                 tickVars, cleared, late>>

\* on_user_leave; it can overtake on_user_enter.
Leave(s) ==
  /\ Serving
  /\ s \in leaving
  /\ tick # "scanning"
  /\ leaving' = leaving \ {s}
  /\ registered' = registered \ {s}
  /\ members' = members \ {s}
  /\ UNCHANGED <<ctl, loopVars, conn, entering, alive, refused, running, tickVars,
                 cleared, late>>

Session(s) == EnterRefused(s) \/ EnterPasses(s) \/ EnterAdds(s) \/ Leave(s)

-----------------------------------------------------------------------------
(* The keep-alive task                                                     *)

\* The timer has gone off and the task calls its functor.
TickCall ==
  /\ Serving
  /\ "keepalive" \in running
  /\ tick = "idle"
  /\ tick' = "called"
  /\ UNCHANGED <<ctl, loopVars, sessionVars, members, running, todo, cleared, late>>

\* The functor takes the shared lock.
TickScan ==
  /\ tick = "called"
  /\ tick' = "scanning"
  /\ todo' = members
  /\ UNCHANGED <<ctl, loopVars, sessionVars, members, running, cleared, late>>

TickSpares(s) ==
  /\ tick = "scanning" /\ s \in todo
  /\ s \in alive
  /\ alive' = alive \ {s}
  /\ todo' = todo \ {s}
  /\ UNCHANGED <<ctl, loopVars, conn, entering, leaving, registered, refused, members,
                 running, tick, cleared, late>>

\* Mutant of TickCloses: on_user_leave is called and not posted.
TickClosesInline(s) ==
  /\ tick = "scanning" /\ s \in todo
  /\ s \notin alive
  /\ conn[s] = "open" => tick # "scanning" /\ Close(s)
  /\ conn[s] # "open" => UNCHANGED <<conn, leaving>>
  /\ todo' = todo \ {s}
  /\ UNCHANGED <<ctl, loopVars, entering, alive, registered, refused, members, running,
                 tick, cleared, late>>

\* on_close() returns at once for a session that is closed already.
TickCloses(s) ==
  /\ tick = "scanning" /\ s \in todo
  /\ s \notin alive
  /\ Close(s) \/ (conn[s] # "open" /\ UNCHANGED <<conn, leaving>>)
  /\ todo' = todo \ {s}
  /\ UNCHANGED <<ctl, loopVars, entering, alive, registered, refused, members, running,
                 tick, cleared, late>>

TickReturns ==
  /\ tick = "scanning"
  /\ todo = {}
  /\ tick' = "idle"
  /\ UNCHANGED <<ctl, loopVars, sessionVars, members, running, todo, cleared, late>>

TickGoesOn == TickScan \/ TickReturns \/ \E s \in Sessions : TickSpares(s) \/ TickCloses(s)

-----------------------------------------------------------------------------
Next ==
  /\ ctl # "crashed"
  /\ \/ Control \/ AcceptCompletes \/ AcceptHandler \/ TickCall \/ TickGoesOn
     \/ \E s \in Sessions : Session(s) \/ Receive(s) \/ SessionCloses(s)

Spec == Init /\ [][Next]_vars

\* The threads go on with what they are at.  boost::shared_mutex keeps new
\* readers out while a writer waits and a tick is short against the interval,
\* so that the scans cannot lock the others out for ever (SF).
Fairness ==
  /\ WF_vars(StartTasks \/ StartAccept \/ StartAcceptThrows \/ CloseAcceptor \/ LogOff \/ Halt \/ Join)
  /\ SF_vars(OnStop)
  /\ WF_vars(AcceptHandler)
  /\ WF_vars(TickGoesOn)
  /\ \A s \in Sessions : SF_vars(Session(s))

FairSpec == Spec /\ Fairness

-----------------------------------------------------------------------------
(* Properties                                                              *)

\* Whatever becomes of one accept, the server accepts again, until it is told
\* to stop: only an exception ends the loop, one that accept() logs, or one that
\* ends the process.
AcceptsAgain ==
  accepting \in {"accepted", "failed", "checking", "rearming"}
    ~> accepting \in {"waiting", "broken"} \/ shutdown \/ ctl = "crashed"

\* Once _is_shutdown is set at most one connection still gets in: the one the
\* loop was at.
OneLateSession == Cardinality(late) <= 1

\* An open connection that no keep-alive tick can reach any more was turned
\* away by the limit, which leaves it open, or taken out by on_stop().
OutsideExplained ==
  \A s \in Sessions :
    conn[s] = "open" /\ entering[s] = "yes" /\ s \notin members
      => s \in refused \union cleared

\* After on_stop() the handler's functors are not called any more, and neither
\* is one that had been called at work; the one-second task is not stopped.
AfterStop == {"keep1", "closed", "sixty2", "clear2", "keep2", "logoff", "halt", "done"}
QuietAfterStop == ctl \in AfterStop => tick = "idle" /\ running = {"onesec"}

\* The control thread gets through on_destroy() whatever the keep-alive scan,
\* the sessions and the accept loop are doing: they never wait for each other
\* in a circle.  Only the exception that ends the process comes before.
StopCompletes == shutdown ~> ctl \in {"done", "crashed"}

\* What accept() and stop() have to agree on for the loop to end in time.
LoopShape ==
  /\ ~listening => shutdown /\ accepting # "waiting"
  /\ accepting = "none" <=> ctl \in {"boot", "tasks", "unstarted"}
  /\ accepting = "over" => shutdown
  /\ ctl # "crashed" => (shutdown <=> ctl \in AfterStop \union {"flag", "sixty1", "clear1"})
  /\ accepting \notin {"checking", "over"} \/ ~shutdown => late = {}
  /\ OneLateSession

\* How far a session has come, and what on_stop() and the limit did to it.
SessionShape ==
  /\ \A s \in Sessions : conn[s] = "none" => entering[s] = "no"
  /\ \A s \in Sessions : s \in members \union refused \union cleared => entering[s] = "yes"
  /\ \A s \in Sessions : s \in leaving => conn[s] = "closed"
  /\ OutsideExplained

\* Which tasks run at which step of the control thread.
RunningShape ==
  /\ ctl = "boot" => running = {} /\ tick = "idle"
  /\ ctl \in {"tasks", "unstarted", "run", "flag"} => running = {"onesec", "sixty", "keepalive"}
  /\ ctl \in {"sixty1", "clear1"} => running = {"onesec", "keepalive"}

IInv == TypeOK /\ LoopShape /\ SessionShape /\ RunningShape /\ QuietAfterStop

-----------------------------------------------------------------------------
(* Refinement                                                              *)

\* The keep-alive task as its owner sees it: started once, in on_start().
KeepAlive == INSTANCE PeriodicTask
  WITH task    <- IF "keepalive" \in running THEN 1 ELSE 0,
       calling <- IF tick = "idle" THEN 0 ELSE 1,
       starts  <- IF ctl = "boot" THEN 0 ELSE 1

\* One call at a time, each from on_start() on and none once on_stop() has
\* stopped the task: the scan is what PeriodicTask says of a repeat_task.
KeepAliveKept == KeepAlive!Safety
=============================================================================

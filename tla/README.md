# A TLA+ verification of iocptest

iocptest is a C++ game server framework on `boost::asio`, a small game server
built with it and a dummy client that loads it. Messages travel over TCP as
frames (a header with an id and a size, then a body); any number of
`io_context` threads run completion handlers, and what belongs to one
connection is serialised by that connection's strand. This directory holds
TLA+ models of the parts where the order of those handlers matters, the TLC
runs that check them and the TLAPS proofs about them.

Paths below are relative to the repository's root; `net/` stands for
`source/impl/network/server/`.

## 1. Inventory

| Component | State | Operations | Talks to |
|---|---|---|---|
| **TCP session** `net/tcp_session.ipp`, `net/server.cpp` | `_is_connected`, socket, strand, `_inbound`, `_inbound_q`, `_outbound_q` | `start`, `on_close`, `read_header`, `read_body`, `route`, `route_poll`, `on_send`, `write`, `on_fast_send` | handler (`on_user_enter`, `on_user_leave`, `on_route`), packet pools, the peer |
| **Connection handler** `net/handler.ipp` | `_user_set` under a shared mutex, `_keep_alive_task` | `on_start`, `on_stop`, `on_user_enter`, `on_user_leave`, keep-alive tick | sessions (`on_close`, keep-alive flag), repeat task |
| **Game registry** `project/server/session_manager.cpp`, `session.cpp` | `_map` from id to session, `_compid` of each session | `session_enter`, `session_leave`, `lookup`, `users`, `set` | game handlers |
| **Game packet handlers** `project/server/handler.cpp` | two repeat tasks, limit of connections | one `dispatch_…` for each packet, `on_user_enter`, `on_user_leave`, `on_start`, `on_stop` | registry, sessions (also *other* sessions: `on_close`, `fast_send`) |
| **Repeat task** `source/impl/util/timer/timer.cpp` | `_functor`, `_timer`, a spin lock | `start`, `stop`, `handler` | the timer, the functor |
| **Timed tasks** `source/impl/util/timer/timed_task*` | `_set` and `_map` of timers, a spin lock each | `invoke` with and without a key, `cancel`, the timer's handler | the timer, the functor |
| **Acceptor, service** `net/acceptor.ipp`, `project/server/common.cpp`, `game_server.cpp` | `_is_shutdown`, the listening socket, service state | `listen_start`, `accept`, `stop`, service control | handler, sessions (`start`) |
| **Packet pools** `net/server.cpp` | `_outbound_pool` (locked), `_inbound_pool` (on the strand) | `alloc_…`, `dealloc_…` | session |
| **Packets** `source/impl/network/packet/*` | header, buffer, sizes | `encode`, `decide…`, encryption hooks | session |
| **ODBC** `source/impl/odbc/*` | pool: `_q`, `_early_pool_size`; handler: three handles, `_is_connected` | `alloc_odbc_ptr`, `release_odbc_ptr`, `connect`, `exec`, `fetch`, `ping`, the retries of `stored_procedure` | the database |
| **Dummy client** `project/dummy/*` | `_is_connected`, `_is_closing`, `_session`; the session's own flags; reconnect timer | `on_connect`, `connect`, `connected`, `disconnected`, `on_close`, `on_send`, reads, timers | the server |
| **Object pools** `source/impl/util/memory_pool/*` | free list | `construct`, `destroy` | anything pooled |
| SSL and websocket sessions `net/ssl_*`, `net/ws_*`, `net/wss_*` | as TCP session | as TCP session | never compiled: no project file lists them |
| Logging, dumps, utilities | – | formatting, file output | – |
| quicklz, Crypto++ | – | vendored | – |

What is hard in this code:

* **Two worlds in one session.** Completion handlers run on the strand, but
  `start()`, the keep-alive task and other sessions' packet handlers call into
  a session from outside of it; `on_close` tests and clears `_is_connected`
  in two steps on whatever thread calls it, and only then goes to the strand.
* **Handlers that cannot be called back.** A completed read is routed although
  the session was closed meanwhile; an expired timer's handler runs after
  `stop()`; `on_user_enter` is posted after the first read was armed and can be
  overtaken by `on_user_leave`.
* **Chains kept up by hand.** The next read, the next write and the next timer
  wait are started by the handler of the previous one, in every branch of it.
  A branch too few and the chain stops for ever, one too many and it forks.
* **Check, then act, on shared maps.** LOGIN and ACCESS consult the registry
  under its lock and act after releasing it, by id and not by session.
* **Exceptions.** Some of `accept()` is inside a `try` and some is not, and a
  failed value conversion is caught where a failed call of the driver is.
* **Locks held over calls.** The repeat task calls its functor with a spin
  lock held; the keep-alive tick holds `_user_set` while it closes sessions.

What makes each component correct:

* TCP session: one read at a time and always one while connected; queued
  packets reach the wire whole, once, in order, and none is left behind; no
  operation starts on a closed socket; after a close everything drains and the
  handler is told; idle sessions are closed.
* Game registry: entries are filed under the id their session has; a session
  that was granted an id stays registered, which makes ids unique among connected
  sessions; sessions that are gone are not registered; LOGIN gets the
  former owner disconnected.
* Repeat task: one call at a time, none after `stop()`, never asleep while it
  runs, calls beyond the interval bounded by the restarts.
* Life cycle: the server accepts again after each accept until it is told to
  stop, and lets one connection in at most after that; stopping gets to its end whatever the keep-alive scan, the sessions
  and the accept loop do; afterwards no functor of the handler is called; who
  is open and outside of `_user_set` has a named reason.
* Packets and pools: a packet is in one place at a time and holds what its
  sender encoded until it is written; the unlocked inbound pool is used by one
  at a time and never runs empty; the frame that is routed is the frame that
  was sent.
* Timed tasks: a task that may still be called can be found by `cancel`; a
  cancelled one is not called; a key is free when its task is done; an accepted
  task is not lost without a reason.
* ODBC: no handle is leaked or used after it was freed; a statement runs a
  bounded number of times and again only for a reason; an answer is what one
  run brought; with the database well a stale connection is replaced; the
  pool's count is that of its handlers, refusals end, and a handler given as a
  good one is one.
* Dummy client: client and session agree on being connected, breaks are
  noticed and failures tried again, ACCESS is not dropped; up to races that the
  properties name.

`PROJECT.json` lists the hazards line by line with the properties that cover
each.

## 2. Modules

| Module | Models | Role |
|---|---|---|
| `TcpSession` | a server-side TCP session with its strand, membership and keep-alive flag | detailed specification |
| `FrameStream` | what `send()` promises: accepted packets go out whole, in order, once, until the connection breaks | abstract specification of the send path |
| `StrandQueue` | "some queued handler is …", "at most one queued handler is …" | operators used by `TcpSession` |
| `GameRegistry` | `session_manager::_map`, `compid`, and the handlers of LOGIN, ACCESS and departures over several sessions | detailed specification |
| `RepeatTask` | `repeat_task` with its lock, waits and expired handlers | detailed specification |
| `PeriodicTask` | what a repeat task promises | abstract specification |
| `TimedTask` | `timed_task` and `timed_task_expansion`: containers, timers and handlers on their way | detailed specification |
| `OneShot` | what a timed task promises | abstract specification |
| `ServerLife` | acceptor, connection handler, keep-alive task and the control thread, over a set of sessions | specification; composes what `TcpSession` and `RepeatTask` have in detail, and its keep-alive scan is shown to be a `PeriodicTask` |
| `PacketPool` | the outbound and the inbound pool of a session with everybody who has a packet in hand | specification |
| `PacketLayout` | `encode`, `decide` and the buffers that are used again | specification |
| `OdbcHandler` | a stored procedure: connect, exec, fetch, ping, reconnect, retry | specification |
| `OdbcPool` | the pool of database handlers and its callers | specification |
| `DummyClient` | a client of the load generator with its newest session | specification |
| `MCPacketPool` | `PacketPool` with its symmetry; the other modules are checked as they are | model checking |
| `TcpSessionProofs`, `GameRegistryProofs`, `RepeatTaskProofs`, `TimedTaskProofs`, `ServerLifeProofs`, `PacketProofs`, `OdbcProofs`, `DummyClientProofs` | lemmas and theorems | proofs |

An operator whose comment begins with *Mutant of X* is a deliberately wrong
version of the action X that follows it. It is never part of a next-state
relation; substituted for X it breaks one of the properties, which shows that
the property can tell a wrong program from the right one.

### TcpSession

The strand is a queue of handlers (`strand`), each an operation with an error
flag. A handler is at its head when it runs; `pc` says where the handler that
owns the strand stands when it takes more than one step (routing a frame,
queueing a reply, rejecting). `post` and a `dispatch` from outside append to
the queue; a `dispatch` on the strand runs inline, as in asio. A dispatch from
outside would run at once on an idle strand; that is the same as appending to
the empty queue and taking the handler's step next.

| Variable | In the code |
|---|---|
| `phase` | how far `start()` is: it arms the read first and posts `on_user_enter` second |
| `connected`, `open` | `_is_connected`; whether the lambda in `on_close` has shut the socket down |
| `reading`, `inbound` | the outstanding `async_read`; `_inbound` holds a packet |
| `outq`, `writes`, `fasting` | `_outbound_q`; outstanding queued and fast `async_write`s |
| `member`, `alive` | membership in `_user_set`; `_keep_alive_flag` |
| `closer[k]` | a thread outside the strand between `on_close`'s test and its set |
| `wire`, `accepted`, `fasts`, `frames`, `leaves`, `idle`, `late` | history kept for the properties and the bounds |

The actions are the functions of the class, one for each outcome:
`StartArm`/`StartFails`/`StartPost` are `start()`; `HandleHeader`,
`HandleFrame`, `HandleFrameNoInbound` and `HandleReadError` are
`read_header`/`read_body`; `RouteSilently`, `RouteSends`, `RouteBroadcasts` and
`RouteRejects` are `route`/`route_poll` with what `on_route` can do;
`SendQueues` is the lambda in `on_send`; `HandleWrite` and `HandleWriteError`
are `write`; `KickChecks`/`CloserSets`/`HandleClose` are the three stages of an
`on_close` from outside, `OnClose` is the same from the strand;
`KeepAliveTick`, `HandleEnter` and `HandleLeave` are the handler's.
`ReadCompletes`, `ReadFails`, `PutChunk`, `WriteCompletes`, `WriteFails` and
`FastEnds` are the operating system and the peer.

Choices worth knowing:

* `boost::asio::async_read` succeeds only when the buffer is full, so the
  branches on a short or an empty transfer have no outcome of their own; a
  write that ends short or empty takes the error branch.
* `route()` dispatches `route_poll` on the strand it is on, so it runs inline
  and `_inbound_q` holds only the frame being routed.
* The keep-alive task holds `_user_set` shared during its whole tick,
  `on_close` included, and `on_user_enter`/`on_user_leave` take it exclusively;
  hence `UserSetFree` in their guards.
* `on_fast_send` writes beside the queue. Its writes are counted, but what two
  concurrent composed writes do to each other's pieces on the wire is not
  modelled; `FrameStream` speaks of queued packets alone.

### GameRegistry

Several sessions, each with its own strand (`pc[s]`), and one map. A step is
one access to the locked map or to a session's flag, so that everything
between two such accesses interleaves: LOGIN looks up (`LoginFrame`), erases
(`Evicts`), tests (`KickChecks`) and clears (`KickSets`) the former owner's
`_is_connected`; ACCESS looks up (`AccessFrame`) and later sets the id (`SetsId`) and, in a step of
its own, registers (`Enters`); `Leaves` is `on_user_leave`; `ReapChecks`/`ReapSets` are
the keep-alive task's `on_close`. Of a session's connection only what the
registry can see is kept: `connected`, whether a read or its frame is still to
come (`armed`), and how many calls of `on_user_leave` wait (`leaving`).
`TcpSession` justifies that reduction: one read at a time, none armed once
`connected` is false, a frame whose read had completed still routed, and one
`on_user_leave` for each closer that got past the test. `Evicts` merges the
read of the other session's `_compid` with the erase that follows it, nothing
but the map's lock being in between. Id 0
(`NoId`) is kept: `set` ignores it, `session_enter` stores it, `lookup` and
`session_leave` refuse it.

`stolen`, `twice`, `late` and `left` are history: the sessions whose entry was
erased on behalf of another one, that asked for a second id, that were
registered after their own `on_user_leave`, and that have left.

### RepeatTask

`waiting` counts the timer's waits that have not expired, `expired` the
handlers of expired waits that do not hold the lock yet; `expires_from_now` and
`cancel` abort the former and cannot touch the latter. The spin lock is held
while the functor is called, so `calling # 0` *is* the lock. The number of the
`start()` that set the functor stands for the functor.

### TimedTask

A task is one call of `invoke()` with its timer and functor. `stage` follows
it: *emplaced* (in its container, the timer not armed: `invoke()` releases the
lock first), *waiting*, *expired* (its handler is on its way), *calling*, then
*called* or *dropped*. The container and the thread inside `invoke()` hold the
timer, the handler holds it weakly, so a timer with neither holder is destroyed
and its wait with it (`Return`, `CancelKey`, `CancelSet`, `CancelMap`).
`HandlerCalls` is the handler's test of its weak pointer, `HandlerFindsNone`
the early return, `HandlerErasesTimer` and `HandlerErasesKey` the erasure after
the call, the latter by key and not by timer. `cancel()` clears the two
containers one after the other (`clearing`).

`OneShot` is the task seen from outside. Under the refinement mapping at the end
of `TimedTask` everything from `invoke()` to the handler is *pending*, and a task
is *released* when a `cancel()` found it or another handler took its entry. A
released task whose `invoke()` has returned is not called any more; its functor
may be dropped at once or only when its handler finds it gone (`Drop`).

### ServerLife

The control thread walks through `on_listen`, `on_start` and, once, through
`on_destroy` (`ctl`; the handler's `on_stop` runs twice, from `acceptor::stop`
and from `server::on_destroy`). `accepting` is the place of the accept loop,
`conn`, `entering`, `leaving` and `members` what the handler knows of a session,
`tick` and `todo` the keep-alive scan. `tick # "idle"` stands for the repeat
task's spin lock and, during the scan, for the shared lock of `_user_set`:
whatever takes `_user_set` exclusively waits for it in its guard, and so does
`repeat_task::stop()`. `Halt` is `io_context::stop()`, after which no handler
is begun; `Join` is the end of the threads.

`accept()` is `AcceptStarts` or `AcceptFails`, then `AcceptChecks`, then
`AcceptRearms`. An exception has three places. The options of the new socket and
the peer's address are asked for with overloads that throw, outside of any
`try`: the exception leaves the handler, `io_context::run` and the thread
(`AcceptCrashes`; *crashed* ends every behaviour). The next session and
`async_accept` are inside one, whose `catch` logs and begins nothing
(`AcceptThrows`; the loop is *broken* for good, the rest runs on). The first
`async_accept` is inside another, after which `listen_start` fails
(`StartAcceptThrows`).

### PacketPool

One action for each access to a pool, so that everything in between
interleaves. `Calls`, `Alloc`, `Encode` and `OnSend` are a sender's way through
`send()`; `Enqueue` and `WriteEnds` the strand's; `Blank` and `GiveBack` the two
halves of `dealloc_outbound()`, which any thread of the `io_context` runs.
Taking from the inbound pool is `front()` and `pop_front()` in two steps
(`StartTakes`/`StartPops`, `FrameTakes`/`FramePops`), because that pool has no
lock. `content` and `meant` number what is encoded in a packet.

### PacketLayout

A byte is what it belongs to and the place it was encoded at, so that a byte
out of place shows. `Encode` writes header and body over what the buffer held,
`ReadHeader` is `decide()` with the zero byte it puts behind the body,
`ReadBody` overwrites what the body covers, `Route` moves on to the next of the
buffers in use. Sizes are taken modulo `Width`.

### OdbcHandler

`proc` is the place in `stored_procedure`, `exec` the place in `handler::exec`
when it is called from there. The driver is external: it gives and takes back
handles (`driver` counts them), and while `trouble` lasts or the `link` is
broken its calls may fail. `ProbeFine`/`ProbeDead` are the test of the
connection at the head of `exec`, `Redo` the branches that connect anew,
`Statement` the allocation and preparation of the statement, `Executes` and
`ExecuteFails` its execution, `FetchRow`, `FetchEnd` and `FetchFails` the
cursor, `ValueThrows` the `catch` of `exec` around a conversion that throws; `Answer`, `ExecFailed`, `TryAgain`, `PingSucceeds` and `PingFails` the
two nested loops of retries. A row in `outs` is the number of the run that
brought it.

### OdbcPool

`q` and `early` are the pool's queue and count, `base` what each handler was
connected to. `AllocFromPool`, `AllocNew` and `Refuses` are the branches of
`alloc_odbc_ptr`, `Compel` is `compulsion_alloc_odbc_ptr`, `Release` is
`release_odbc_ptr`; `Connect` and `ConnectFails` are `pool::connect`, which may
be called while handlers are out. `Drop` is a caller that lets go of a handler
it was told is not connected: nothing in the pool makes it give that back.

Who was told is remembered for as long as that caller has the handler
(`warned`): `release_odbc_ptr` queues it like any other, and the next
`alloc_odbc_ptr` answers true. What such a handler is worth from then on is kept
in `spoiled`; `outlived` are the handlers that were with callers while a
`connect()` gave the pool other names.

### DummyClient

`on_connect()` makes a session, starts `async_connect` and stores the session
afterwards (`OnConnect`, `Store`); the handler of `async_connect` goes through
`Arms` (the first read), `SetConnected`, `ClearsClosing`, `SetsConnected` and
`Completes` (the client's own flags and ACCESS), off the strand; the strand runs
`HandleFrame`, `ReadFails`, `WriteFails` and the three steps of a close
(`SetClosed`, `Disconnects`, `Disconnected`). Only the newest session is kept in
detail: an older one is closed and matters only if `Store` puts it in place of
the newer (`displaced`).

## 3. Runs

| Run | Instance | Shows |
|---|---|---|
| `session_life` | one other session that closes it and the keep-alive task, 3 frames, 2 queued packets of 2 pieces and 1 fast packet, with fairness | `OneRead`, `NeverDeaf`, `NeverMute`, `IdleIsReaped`, `LeaksOnlyWhenOvertaken`, `LeaveAfterClose`, `StartsOnOpenSocket`, `CloseCompletes`, and `StreamSpec`: the send path implements `FrameStream` |
| `registry_rivals` | 2 sessions, 2 ids, 4 frames, with fairness | `GhostsExplained`, `GrantedIsRegistered`, `LoginDisconnects` |
| `registry_leave` | 2 sessions, 1 id, 3 frames | `LeaveFindsEntry` is violated (section 6) |
| `repeat_task` | 8 calls of `start()`, with fairness | `BurstBounded`, and `TaskSpec`: implements `PeriodicTask`, liveness included |
| `timed_task` | 3 calls of `invoke()`, 2 keys, with fairness | `NeverForgotten`, `DisplacedByCancelled`, `AcceptedIsCalled`, and `ShotSpec`: implements `OneShot` |
| `server_life` | 2 connections, limit 1, with fairness | `OneLateSession`, `OutsideExplained`, `QuietAfterStop`, `AcceptsAgain`, `StopCompletes` |
| `packet_pools` | 3 outbound packets, 2 of them pooled at first, 2 inbound packets, 2 senders, 4 sends, symmetric in all of them | `NotShared`, `Intact`, `InboundConserved` |
| `packet_layout` | `Width` 8, a header of 2 bytes, 4 packets of every size that fits, 2 buffers | `Faithful` |
| `odbc_calls` | 5 retries and 5 reconnects, as in the code, up to 2 rows, with fairness | `HandlesMatch`, `OneRunAnswered`, `RepeatsExplained`, `SteadyIsAnswered`, `CallsEnd` |
| `odbc_values` | the same | `ValuesWereRead` is violated (section 6) |
| `odbc_pool` | sizes 1 to 2, 4 handlers, 2 databases, with fairness | `Accounting`, `AnswersExplained`, `ServedAgain` |
| `dummy_client` | 4 sessions one after the other, with fairness | `FlagsExplained`, `AccessExplained`, `BreakIsNoticed`, `KeepsTrying` |

The runs check the properties that matter most. Type invariants, inductive
invariants and the properties that follow from them are theorems (section 5);
in `OdbcPool` and `PacketLayout` the types are part of `Accounting` and of
`Faithful`. Modules that share a module of proofs name their parts apart:
`PoolSpec` and `PoolInit` are those of `OdbcPool`, `LayoutSpec` and `LayoutInit`
those of `PacketLayout`, and so on.

Why the bounds are enough:

* `session_life`: `on_close` has three kinds of caller (strand, keep-alive
  task, another session) and each is there, so all races between two and three
  closers happen. Three frames let a read be rearmed, fail and complete at every
  stage, and two of them queue a packet while the third is broadcast: there is a
  packet behind the one that is being written, and two pieces make a write
  interruptible. The invariants and the refinement are proved for any numbers.
* `registry_rivals`: the properties relate two sessions, and changing an id
  takes two ids. Four frames are LOGIN and ACCESS of both rivals, or an id for
  each, a second id and a LOGIN that evicts. What more
  frames or a third session could add to the two invariants is covered by the
  proofs, which hold for any number; `LoginDisconnects` is a chain of three
  steps that a further frame does not lengthen.
* `repeat_task`: each `start()` can leave one more expired handler behind;
  eight are far past the number at which new combinations appear, and the
  proofs hold for any bound.

* `timed_task`: three calls under one key are the task that lost its key, the
  one that has it now and one that is lost in turn; a second key and plain tasks
  run beside them.
* `server_life`: one connection in the set and one at the limit or on its way
  in. More connections repeat these; the proofs hold for any number.
* `packet_pools`: two senders race for a packet and for the strand, a third
  packet goes back meanwhile; with one packet more than the pool keeps, its
  limit is met. The pool of the code keeps four.
* `packet_layout`: only the relation of sizes matters: a packet that fills the
  buffer, whose size with its header is the largest number that fits, one of a
  single byte, and shorter ones after longer ones in the same buffers. Four
  packets in two buffers use each buffer twice. `Width` stands for 2^16 and
  `PacketSize` is one less, as in the code.
* `odbc_calls`: the counts are those of the code. Two rows tell "the first row",
  "the rest" and "none" apart.
* `odbc_pool`: a pool between its two sizes, full and exceeded: two handlers
  beyond its limit are alive. Two databases make a handler of an earlier
  `connect()` recognisable.
* `dummy_client`: the third session is the first whose predecessors can both be
  stored late; a fourth shows that nothing builds up.

Deadlock is not reported as an error where the system may stop: a closed
session, a stopped server and a task that is not started again have nothing
left to do, and the bounds on frames, packets and calls end every behaviour.
That nothing gets stuck *before* that is what the liveness properties say.
`odbc_calls` and `odbc_pool` can always go on and are checked for deadlock.

### Fairness

* `TcpSession`: the `io_context`'s threads run whatever is queued (`Strand`), a
  thread that has begun `start()` or `on_close` goes on (`StartPost`,
  `CloserSets`), and asio completes every operation on a closed socket with an
  error. Nothing is assumed of the peer, of the keep-alive timer or of other
  sessions.
* `GameRegistry`: a handler that has begun goes on, a posted `on_user_leave`
  runs. Nothing is assumed of clients.
* `RepeatTask`: timers expire, and handlers run and return. Nothing makes
  anybody call `start()` or `stop()`. The fairness on `Handler` as a whole is
  weak: it is disabled for no reason but the absence of handlers, since a held
  lock means that a handler holds it and will return.
* `TimedTask`: a thread inside `invoke()` arms the timer and returns, timers
  expire, handlers run. Nobody has to cancel.
* `ServerLife`: threads go on. It is strong for `OnStop` and for a session's
  `on_user_enter` and `on_user_leave`, which wait for `_user_set` or for the
  task's spin lock between ticks that come again and again: a waiting writer of
  `boost::shared_mutex` keeps new readers out, and a tick is short against the
  minutes between ticks.
* `OdbcHandler`: calls of the driver return; the database may be in trouble for ever. `OdbcPool`: every
  caller gives its handler back or lets go of it.
* `DummyClient`: the threads go on, timers expire, connects end, and a task
  that sends goes on sending, which is what the players do.

## 4. What the properties say

Those that only a theorem states (section 5) are marked *(proved)*.

* `NeverDeaf`, `NeverMute`, `NeverAsleep` *(proved)* are the chains kept up by
  hand: a connected session has a read outstanding or completed, a connected
  session with queued packets has a write outstanding or completed, a running
  task has its next call coming. `OneRead`, `OneWrite` *(proved)* and
  `BurstBounded` are their counterparts: the chains never fork.
* `NeverFatal` *(proved)*: the branches that log "fatal" in the read and write handlers
  are dead code.
* `StartsOnOpenSocket`: although `_is_connected` is cleared from other threads,
  no handler starts an operation after the socket was shut down, because that
  happens on the strand and after the flag was cleared.
* `LeaveAfterClose`: `on_user_leave` runs after the socket was shut down. It
  may run more than once, as two closers can pass `on_close`'s test together,
  but no more often than there are closers.
* `LeaksOnlyWhenOvertaken`: a session that has nothing left to run stays in
  `_user_set` in exactly one case, that of `on_user_enter` overtaken by
  `on_user_leave`. That case is real (the first read can fail before `start()`
  posts); the keep-alive tick meets such a session again and again, and its
  `on_close` returns at once.
* `CloseCompletes`: every close drains the session and tells the handler.
* `GhostsExplained`, `GrantedIsRegistered`: the registry's
  promises with every exception named. The exceptions are behaviours of the
  code: an entry is erased by id on behalf of a session that no longer owns it
  (`stolen`), a second ACCESS under another id leaves the first entry behind
  (`twice`), an ACCESS whose frame was routed after `on_user_leave` registers a
  session that is gone (`late`).
* `TaskSpec`: after `stop()` has returned the functor is not called, calls do
  not overlap, and a running task is called again and again.
* `DisplacedByCancelled`, `LostExplained` *(proved)*: the handler of an expired timer
  erases its *key*. It can throw out a task that was invoked under that key
  meanwhile, but only when its own entry had been taken away before; nothing
  else loses an accepted task.
* `ShotSpec`: an accepted functor is called once at most, is dropped uncalled only
  after its task was let go, and is not called from then on, since the weak
  pointer makes `cancel()` win against an expired timer, unless the task's own
  `invoke()` has not returned yet (`NoLateCall` *(proved)*, for a single step).
* `AcceptsAgain`, `OneLateSession`, `QuietAfterStop`, `StopCompletes`: the
  accept loop against `stop()` and against its exceptions, and the two locks of
  the keep-alive scan against everything that needs one of them. `AcceptsAgain`
  names the two ways in which an exception ends the loop although nobody asked
  for it, `StopCompletes` the one that ends the process. `_1sec_task` goes on after `on_stop()`.
  `KeepAliveKept` *(proved)*: what the handler makes of its keep-alive task is
  what `PeriodicTask` says of one.
* `OutsideExplained`: a connection the limit turned away stays open without a
  keep-alive; `on_stop()` clears `_user_set` without closing anybody.
* `NotShared`, `Intact`, `PoolIsBlank` *(proved)*: a packet on its way back from a write is
  never one that still waits to be written. `encode` may refuse and the packet
  is sent all the same; it is empty then, because the pool is blank.
* `InboundAlone` *(proved)*, `InboundConserved`: why the inbound pool needs no lock.
* `Faithful`: sizes with and without the header agree on both sides, the reader
  never waits for more than a frame has, and the zero byte that handlers rely on
  for strings is there unless the body fills the packet. `NeverStarved`
  *(proved)*: the reader never waits for bytes that were not sent while a frame
  that was written is not yet routed.
* `HandlesMatch`, `StatementAtHand` *(proved)*: handles and statement after
  branches that ignore what `connect()` came to. `OneRunAnswered`,
  `RepeatsExplained`, `RunsBounded` *(proved)*: what retries do to a statement
  with effects; a value that cannot be converted is a reason for them like a
  failure of the database. `SteadyIsAnswered`: `db_reconnect`
  finds out about a stale connection.
* `AnswersExplained`: the answer true of `alloc_odbc_ptr` is worth what it says,
  but for handlers that came back from somebody who knew that they were not
  connected, and for handlers from before the last `connect()`.
* `Accounting`, `ServedAgain`: the pool's count, with `lost`
  for what counts without a handler: a failed `connect()` and handlers that were
  let go. That the count is too high then is what the code does; `lost` takes it
  over, so the two properties show where the count is right and do not judge
  this. `BlameShared` *(proved)* draws the conclusion: whoever is refused finds
  every handler the pool may have with callers or lost, and when a caller comes
  back to a pool that is full, some handler about is one the pool does not count.
* `FlagsExplained`, `AccessExplained`, `MuteExplained` and `DeafExplained`
  *(proved)*: what the
  client believes, with the races between `connected()`, the storing of the
  session and the first read named one by one.

## 5. What is proved

All proofs are checked by `tlapm` with Z3, Zenon and LS4, for every value of
the constants that the modules' named assumptions admit (`BoundAssumption`,
`KickerAssumption`, `RegistryAssumption`, `StartsAssumption`, `NullAssumption`,
`LimitAssumption`, `PoolAssumption`, `CountAssumption`, `SizesAssumption`,
`LayoutAssumption`, `AttemptsAssumption`).

**TcpSession** (`TcpSessionProofs`). `TypeCorrect`, then `Invariance`:
`Spec => [](TypeOK /\ IInv)`, where `IInv` is

    Untouched /\ ClosedIsDisconnected /\ OneRead /\ NeverDeaf
    /\ OneWrite /\ NeverFatal /\ NeverMute /\ QueueInOrder /\ WireFollowsQueue

None of `OneRead`, `OneWrite`, `NeverFatal` or `NeverMute` is inductive alone.
A second read could only be started by a second completion, so "one read"
must speak of the read, its queued handler and the two together; that a handler
which drops the front of `_outbound_q` drops what was written needs `OneWrite`
(the write is of the front) and `NeverFatal` (the queue is not empty when a
completion waits); `ClosedIsDisconnected` carries "the socket is shut down on
the strand, after the flag was cleared", from which the action property
`OpenSocket` follows; `WireFollowsQueue` and `QueueInOrder` say which piece
follows on the wire, which is what `Implements` (`Spec => StreamSpec`) needs:
every step of the session is `Accept`, `SendPiece` or `Break` of `FrameStream`,
or leaves its variables alone. `Reading`, `Listening`, `Writing`, `Sending` and
`FatalUnreachable` are read off the invariant. Each action's preservation proof
is split in four: control, reads, writes and the wire. The lemmas at the head of
the module say what a strand that loses its head and gains handlers at its end
holds.

`Leavings` and `Leaks` follow a close through the strand. Every step has one of
ten effects on it (`EveryEffect`: a close is begun, set, handled, posts its
`on_user_leave`, …), and the invariants are proved for effects instead of
actions. `LeaveAfterClose` needs an upper bound on calls of `on_user_leave`, so
every closer that may still come, every one under way, every queued handler of
a close and every leave done is counted, and the sum never grows. This is where
the set of closers must be finite (`KickerAssumption`). `Reaping` follows two
ticks and the flag.

**GameRegistry** (`GameRegistryProofs`). `Invariance` of
`FreshUntouched /\ LeavingIsClosed /\ EntersOwnId /\ KeyIsCompid /\ GrantedIsRegistered`,
from which `FiledUnderOwnId` and `GrantsHold` follow.
`Ghosts` (`GhostsExplained`) is an invariant of its own: a session that has left
erased its entry as it left, and who is closed has its `on_user_leave` to come
or behind it. `EntersOwnId` carries the id that `SetsId` wrote to the `Enters` that
registers under it: nobody but the session's own strand writes its `_compid`.
`GrantedIsRegistered` needs `KeyIsCompid` for `Evicts` and `Leaves`, which erase by
`compid` and not by session, and `LeavingIsClosed`, so that a session which
erases its own entry is no longer connected.

**RepeatTask** (`RepeatTaskProofs`). One lemma for each function of the class
(`StartFits`, `StopFits`, `CallFits`, `ReturnFits`, and `UnseenFits` for what nobody
outside sees) says that the parts of the task still fit together afterwards and
which step of `PeriodicTask` it was. `StepFits` puts them together; `Invariance`,
`KeepsGoing`, `NoMultiplication` and `Implements` (the safety part of
`PeriodicTask`) are read off it. The conjunct behind the last one is
`CallsCurrent`: a call's functor is the task's functor for as long as the call
lasts, which is the lock at work.

**TimedTask** (`TimedTaskProofs`). `Invariance` of the four properties together
with `Bookkeeping`: an unarmed timer is in the hands of its `invoke()`, a
waiting one in somebody's, and what was taken out of a container never gets
back into one. `CancelWins` (the action property `NoLateCall`) follows from it.
`Implements` (`Spec => ShotSpec`) maps every action to one of `OneShot` or to a
stutter. The step that needs the invariant most is a drop: that a task which
`Return` or `HandlerFindsNone` finds gone was released is `NeverForgotten`
(`UnheldIsReleased`); that a handler whose timer is alive calls a task that was
not released, or whose `invoke()` is under way, is `Bookkeeping`. `AbortReleases`
treats the three ways of `cancel`, `EraseEnds` the erasure of a key that has
meanwhile become another task's.

**ServerLife** (`ServerLifeProofs`). `Invariance` of `LoopShape` (what accept loop
and `stop()` agree on), `SessionShape`, `RunningShape` and `QuietAfterStop`, for
any number of sessions and any limit. `LateSessions`, `Outsiders` and `Quiet` are read off it. `KeepAliveTask` maps the steps of the
handler's keep-alive task to those of `PeriodicTask` (`on_start` to `Start`, the
two calls of `on_stop` to `Stop`, the tick to `Call` and `Return`) and everything
else to a stutter; `RunningShape` says that `on_start` finds no task running.
What `ServerLife` assumes of the task is thereby what `RepeatTask` provides, as
both are shown to keep to the same abstract specification.

**PacketPool** (`PacketProofs`). `Invariance` of three parts: where outbound
packets are and what they hold (`OutboundInv`: `Intact` needs `NotShared`, so that
nobody encodes into a queued packet, and `NotShared` needs to know which senders
have a packet in hand and that a write is of a queue that is not empty), the
pool's size (`SizeInv`), and the inbound packets (`InboundInv`: a taker finds the
pool not empty because one packet at most is in `_inbound` and one is being
routed, and the constructor made more than one).

**PacketLayout** (`PacketProofs`). `LayoutInvariance` of `LayoutTypeOK`,
`WriterHolds`, `ReaderHolds` and the existence of a function `end` with
`IsStream(end)`, for every size of header, packet and number of buffers.
`Faithful` alone says nothing about the bytes still on the wire. `end[m]` is the
place in the stream at which frame `m` ends; the reader's `Position` in the
stream and what is on the wire add up to the end of what was written, and byte
`k` of a frame that is on the wire is found at the place `end` gives it. No
definition could sum up the sizes of frames without recursion, so the invariant
asks for a function that does. Writing a frame extends it, reading drops a
prefix of the wire (`Consume`), and the next frame begins where the reader is
(`NextFrame`). `Decoded` (`Faithful`) and `Unstarved` (`NeverStarved`) follow.
`SizeComesBack` is where the width counts: a packet's size with its header is
still below `Width`, which is all that `encode` and `decide` need to agree.

**OdbcHandler** (`OdbcProofs`). `Invariance` for any number of retries,
reconnects and rows. `Shape` ties `exec` to `proc` and to the handles, `RunShape`
counts the runs and says whose rows are in `outs`, `SteadyShape` follows a call
during which nothing fails: the first execution may meet a stale connection,
the second one cannot.

**OdbcPool** (`OdbcProofs`). `PoolInvariance` of `Accounting`, `AnswersExplained`
and the finiteness of what is counted, without which the cardinality in
`Accounting` would say nothing; for any sizes, handlers and databases. The lemmas
`HeadLeaves` and `AppendAdds` say what taking from and adding to a queue without
repetitions does to the set of its members, `NewcomersDistinct` and `ClampBounds`
what `connect()` fills it with. Each branch of `alloc_odbc_ptr`,
`compulsion_alloc_odbc_ptr` and `release_odbc_ptr` has a lemma of its own.
`Accounted`, `Answered` and `Blame` follow; the last (`BlameShared`) compares
cardinalities of the queue, of what is counted and of what is alive.

**DummyClient** (`DummyClientProofs`). `Invariance` of `FlagShape`, `StoreShape` and
`ReadShape` for any number of attempts; the five properties that name the races
follow, `AccessExplained` as an action property.

**Only model-checked.** Liveness, which the prover does not reach
(`CloseCompletes`, `LoginDisconnects`, the liveness part of `TaskSpec`,
`AcceptedIsCalled`, `AcceptsAgain`, `StopCompletes`, `CallsEnd`, `ServedAgain`, `BreakIsNoticed`,
`KeepsTrying`). Every invariant, action property and safety refinement
that a passing run checks is a theorem too.

## 6. Findings

`registry_leave`: `session_manager::session_leave` logs an error when the id it
is given is not in the map (`project/server/session_manager.cpp:87`), so whoever
leaves is taken to be registered. `handler::on_user_leave` calls it for every
session that has an id (`project/server/handler.cpp:89`), and the entry can be
gone: LOGIN erased it before it closed the session (`handler.cpp:198`), or two
closers got past `on_close`'s test and `on_user_leave` runs twice. When another
session has registered the id in between, the same call erases *its* entry.

`odbc_values`: `handler::fetch` keeps the outcome of `SQLGetData` in `rc`
(`source/impl/odbc/odbc.cpp:1230`), while the switch that follows tests `ret`
(`odbc.cpp:1239`). Its error branch can never be taken, and a row with a value
that could not be read is answered as if it had been read.

Not expressed as runs, but visible in the properties' exceptions:

* `late` members of `_user_set`, `late` and `twice` ghosts in the registry.
* An exception that `accept()` logs ends the accept loop while the server runs
  on; one of a socket option or of `remote_endpoint` ends the process
  (`AcceptsAgain`).
* `_1sec_task` is started by `on_start` and never stopped (`QuietAfterStop`).
* A connection that the limit turned away stays open (`OutsideExplained`).
* The ODBC pool loses a place for every handler that could not connect and was
  let go, and a `connect()` that fails half-way leaves the count as if all its
  handlers were there (`lost` in `Accounting`).
* A handler that never connected, or that is connected by the names of before,
  is handed out as a good one once it was given back (`spoiled` and `outlived` in
  `AnswersExplained`).
* The dummy client can take itself for connected over a closed session, drop
  its ACCESS, or read no more (`crossed`, `displaced`, `early`).

## 7. Not modelled

* SSL and websocket sessions: no project file lists them, and they cannot be
  compiled, since they use names (`encode_type`, `body_decode`,
  `on_bodyless_route`) that no file declares.
* Object pools: packets come from `singleton_pool_allocator`, a wrapper of
  `boost::singleton_pool`; the pools with buffers and locks have no user.
* The Windows service dispatcher, console handler and command line
  (`project/server/common.cpp`): what they come to is one call of `on_create`
  and one of `on_destroy`, with which `ServerLife` begins and ends.
* ODBC: binding of parameters, the conversions of values (that one can throw is
  modelled) and fetch buffers, `set_delay_time`; the database is external.
* `encode` for a body larger than the buffer, and the encryption hooks, whose
  ciphers are commented out.
* The contents of packets, the players' game data, remote addresses: no
  property depends on them.
* Exceptions out of handlers other than `accept()` (a log line with too few
  arguments, failed allocations other than those the code turns into "no
  packet"): nothing between a handler and the thread's entry catches them, and
  the process ends, as `ServerLife` has it for `accept()`.
* What two concurrent composed writes do to each other on the wire
  (`on_fast_send` beside the queue): it is left to `boost::asio` and the system.
* Logging, exception dumps, formatting: no state other parts depend on.
  quicklz and Crypto++ are vendored; they are some 100,000 of the repository's
  106,000 lines of implementation, which is why the share of lines modelled here
  is small although most of the repository's own code is.

## 8. Plan

Modelled and checked: everything of the inventory but what section 7 lists. In
order of use, what could follow:

1. `PacketPool`'s part of the strand shown to be implemented by `TcpSession`, so
   that the two speak of the same queue of packets.
2. The reduction of a session in `GameRegistry` (`armed`, `leaving`) shown to
   follow from `TcpSession`'s invariants.
3. The service status machine of `project/server/common.cpp` around
   `ServerLife`.

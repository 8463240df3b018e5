----------------------------- MODULE OdbcHandler -----------------------------
(***************************************************************************)
(* A stored procedure called through impl::odbc::handler: connecting,      *)
(* executing, fetching, and what stored_procedure does when that fails     *)
(* (ping, reconnect, execute again).                                       *)
(*                                                                         *)
(* A handler belongs to one thread at a time (it is taken from the pool);  *)
(* what it has to live with is the database: calls fail while `trouble`    *)
(* lasts, a connection breaks at any moment, and the driver may notice     *)
(* that only when the connection is used.  A statement that has broken off *)
(* may have been run by the database all the same.                         *)
(***************************************************************************)
EXTENDS Naturals, Sequences

CONSTANTS
  Retries,     \* _retry_count_
  Reconnects,  \* _reconnect_count_
  MaxRows      \* bound: rows a statement brings

ASSUME CountAssumption == Retries \in Nat \ {0} /\ Reconnects \in Nat /\ MaxRows \in Nat \ {0}

VARIABLES
  trouble,    \* the database or the driver fails calls
  link,       \* what the driver's connection is worth
  held,       \* handles that are not null: _env, _hdbc, _stmt
  driver,     \* how many handles of a kind the driver has given and not got back
  connected,  \* _is_connected
  known,      \* _connect_info is filled in
  proc,       \* where stored_procedure stands
  exec,       \* where handler::exec stands
  kind,       \* single_row or multi_row
  what,       \* what the statement is like
  retry,      \* `retry`
  attempts,   \* `reconnect_count`
  sqlret,     \* `sql_ret` of the execution under way
  outs,       \* `outs`, each row being the number of the run it comes from
  blank,      \* a value in outs was not read
  left,       \* rows the cursor has still
  size,       \* rows of the last run
  runs,       \* history: how often the database ran the statement in this call
  steady      \* history: no trouble, no break and no value that makes the conversion
              \* throw since the call began

handles == <<link, held, driver, connected>>
cursor  == <<outs, blank, left, size, runs>>
call    == <<kind, what, retry, attempts>>
vars == <<trouble, handles, known, proc, exec, sqlret, call, cursor, steady>>

Kinds == {"env", "hdbc", "stmt"}

TypeOK ==
  /\ trouble \in BOOLEAN /\ connected \in BOOLEAN /\ known \in BOOLEAN
  /\ link \in {"none", "good", "broken"}
  /\ held \in SUBSET Kinds /\ driver \in [Kinds -> Nat]
  /\ proc \in {"idle", "call", "ping", "answered", "gaveup"}
  /\ exec \in {"none", "begin", "probe", "redo", "statement", "again", "bind", "fetch",
               "ok", "failed"}
  /\ kind \in {"single", "multi"} /\ what \in {"rows", "mute", "faulty"}
  /\ retry \in 1 .. Retries + 1 /\ attempts \in 1 .. Reconnects + 1
  /\ sqlret \in {"success", "nodata", "error"}
  /\ outs \in Seq(Nat) /\ blank \in BOOLEAN
  /\ left \in 0 .. MaxRows /\ size \in 0 .. MaxRows
  /\ runs \in Nat /\ steady \in BOOLEAN

Init ==
  /\ trouble \in BOOLEAN
  /\ link = "none" /\ held = {} /\ driver = [k \in Kinds |-> 0]
  /\ connected = FALSE /\ known = FALSE
  /\ proc = "idle" /\ exec = "none" /\ kind = "single" /\ what = "rows"
  /\ retry = 1 /\ attempts = 1 /\ sqlret = "success"
  /\ outs = <<>> /\ blank = FALSE /\ left = 0 /\ size = 0 /\ runs = 0
  /\ steady = FALSE

-----------------------------------------------------------------------------
(* The database and the driver                                             *)

TroubleComes ==
  /\ ~trouble
  /\ trouble' = TRUE /\ steady' = FALSE
  /\ UNCHANGED <<handles, known, proc, exec, sqlret, call, cursor>>

TroublePasses ==
  /\ trouble
  /\ trouble' = FALSE
  /\ UNCHANGED <<handles, known, proc, exec, sqlret, call, cursor, steady>>

LinkBreaks ==
  /\ link = "good"
  /\ link' = "broken" /\ steady' = FALSE
  /\ UNCHANGED <<trouble, held, driver, connected, known, proc, exec, sqlret, call, cursor>>

\* A call of the driver may fail; one that needs an answer may get it.
CanFail == trouble \/ link # "good"
Answers == link = "good"

-----------------------------------------------------------------------------
(* Handles                                                                 *)

\* What the driver still has once every handle held is freed.
Freed == [k \in Kinds |-> IF k \in held THEN driver[k] - 1 ELSE driver[k]]

\* After close() the handles of ks are allocated.
Reset(ks) ==
  /\ held' = ks
  /\ driver' = [k \in Kinds |-> IF k \in ks THEN Freed[k] + 1 ELSE Freed[k]]

Close == Reset({}) /\ connected' = FALSE /\ link' = "none"

\* connect() with the three strings: it closes what is there and goes on until
\* a call fails, leaving the handles it had got by then to the next close().
Opens   == ~trouble /\ Reset({"env", "hdbc"}) /\ connected' = TRUE /\ link' = "good"
Refused == /\ trouble
           /\ \E ks \in {{}, {"env"}, {"env", "hdbc"}} : Reset(ks)
           /\ connected' = FALSE /\ link' = "none"

\* connect() with _connect_info, which refuses empty strings before it closes.
Connect == (known /\ (Opens \/ Refused)) \/ (~known /\ UNCHANGED handles)

\* close(), then connect() with _connect_info.
Reconnect == (known /\ (Opens \/ Refused)) \/ (~known /\ Close)

\* SQLAllocHandle for _stmt, which fails without a connection.
GetsStatement ==
  /\ connected
  /\ held' = held \union {"stmt"}
  /\ driver' = [driver EXCEPT !["stmt"] = @ + 1]
GetsNoStatement ==
  /\ CanFail \/ ~connected
  /\ held' = held \ {"stmt"}
  /\ UNCHANGED driver

-----------------------------------------------------------------------------
(* handler::exec                                                           *)

\* exec connects first if the handler is not connected ...
ExecBegins ==
  /\ exec = "begin"
  /\ sqlret' = "success"
  /\ \/ connected /\ exec' = "probe" /\ UNCHANGED handles
     \/ ~connected /\ Connect /\ exec' = IF connected' THEN "probe" ELSE "failed"
  /\ UNCHANGED <<trouble, known, proc, call, cursor, steady>>

\* ... asks whether the connection is dead, which the driver may not know yet ...
ProbeFine ==
  /\ exec = "probe"
  /\ exec' = "statement"
  /\ sqlret' = "success"
  /\ UNCHANGED <<trouble, handles, known, proc, call, cursor, steady>>

\* ... and if it is, or cannot tell, connects anew, whatever comes of it, ...
ProbeDead ==
  /\ exec = "probe"
  /\ CanFail
  /\ exec' = "redo"
  /\ Reconnect
  /\ UNCHANGED <<trouble, known, proc, sqlret, call, cursor, steady>>

\* ... since without a connection there is no statement to be had.
Redo ==
  /\ exec \in {"redo", "again"}
  /\ \/ GetsStatement /\ sqlret' = "success"
        /\ exec' = IF exec = "redo" THEN "statement" ELSE "bind"
     \/ GetsNoStatement /\ sqlret' = "error" /\ exec' = "failed"
  /\ UNCHANGED <<trouble, link, connected, known, proc, call, cursor, steady>>

\* Mutant of Statement: the statement of before is not freed.
StatementOverwritten ==
  /\ exec = "statement"
  /\ \/ GetsStatement /\ exec' = "bind" /\ UNCHANGED <<link, connected>>
     \/ CanFail /\ exec' = "again" /\ Reconnect
  /\ sqlret' = "success"
  /\ UNCHANGED <<trouble, known, proc, call, cursor, steady>>

\* The statement of before is freed and a new one allocated, if need be over a
\* new connection.
Statement ==
  /\ exec = "statement"
  /\ \/ /\ connected
        /\ held' = held \union {"stmt"}
        /\ driver' = [driver EXCEPT !["stmt"] = Freed["stmt"] + 1]
        /\ exec' = "bind"
        /\ UNCHANGED <<link, connected>>
     \/ CanFail /\ exec' = "again" /\ Reconnect
  /\ sqlret' = "success"
  /\ UNCHANGED <<trouble, known, proc, call, cursor, steady>>

\* The statement is run: the rows it brings, if any, are what the cursor has.
\* A ping does so with a statement and a result of its own.
Runs(n) ==
  /\ left' = n
  /\ IF proc = "call" THEN runs' = runs + 1 /\ size' = n ELSE UNCHANGED <<runs, size>>

\* bind_parameters() ends with the execution; a ping brings one row.
Executes ==
  /\ exec = "bind"
  /\ Answers
  /\ proc = "call" => what # "faulty"
  /\ exec' = "fetch"
  /\ IF proc = "ping" THEN Runs(1)
     ELSE \E n \in 0 .. MaxRows : (what = "mute" => n = 0) /\ Runs(n)
  /\ UNCHANGED <<trouble, handles, known, proc, sqlret, call, outs, blank, steady>>

\* It fails; when the trouble is the database's the statement may have been run.
ExecuteFails ==
  /\ exec = "bind"
  /\ CanFail \/ (proc = "call" /\ what = "faulty")
  /\ exec' = "failed"
  /\ \/ UNCHANGED <<runs, size, left>>
     \/ trouble /\ Answers /\ (proc = "call" => what # "faulty") /\ Runs(0)
  /\ UNCHANGED <<trouble, handles, known, proc, sqlret, call, outs, blank, steady>>

HasCursor == proc = "ping" \/ what = "rows"
Several   == proc = "call" /\ kind = "multi"

\* The next row is fetched.  The outcome of SQLGetData is kept in `rc` while
\* the switch after it looks at `ret`, so that a value that could not be read
\* passes for an empty one.
FetchRow ==
  /\ exec = "fetch"
  /\ HasCursor /\ left > 0
  /\ left' = left - 1
  /\ \/ proc = "ping" /\ UNCHANGED <<outs, blank>>
     \/ /\ proc = "call"
        /\ outs' = Append(outs, runs)
        /\ UNCHANGED blank \/ (CanFail /\ blank' = TRUE)
  /\ sqlret' = "success"
  /\ exec' = IF Several THEN "fetch" ELSE "ok"
  /\ UNCHANGED <<trouble, handles, known, proc, call, size, runs, steady>>

\* There is none: the end for multi_row, a failure for single_row.
FetchEnd ==
  /\ exec = "fetch"
  /\ HasCursor /\ left = 0
  /\ sqlret' = "nodata"
  /\ exec' = IF Several THEN "ok" ELSE "failed"
  /\ UNCHANGED <<trouble, handles, known, proc, call, cursor, steady>>

\* Fetching fails, for a statement without a result set always, maybe in the
\* middle of a row.
FetchFails ==
  /\ exec = "fetch"
  /\ CanFail \/ ~HasCursor
  /\ sqlret' \in {"success", "error"}
  /\ UNCHANGED outs \/ (proc = "call" /\ HasCursor /\ left > 0 /\ outs' = Append(outs, runs))
  /\ exec' = "failed"
  /\ UNCHANGED <<trouble, handles, known, proc, call, blank, left, size, runs, steady>>

\* A row is fetched and one of its values is not what its column promises: the
\* conversion throws, which exec answers like a failed call of the driver.
ValueThrows ==
  /\ exec = "fetch"
  /\ proc = "call" /\ HasCursor /\ left > 0
  /\ left' = left - 1
  /\ outs' \in {outs, Append(outs, runs)}
  /\ sqlret' = "success"
  /\ exec' = "failed" /\ steady' = FALSE
  /\ UNCHANGED <<trouble, handles, known, proc, call, blank, size, runs>>

Exec == \/ ExecBegins \/ ProbeFine \/ ProbeDead \/ Redo \/ Statement
        \/ Executes \/ ExecuteFails \/ FetchRow \/ FetchEnd \/ FetchFails \/ ValueThrows

-----------------------------------------------------------------------------
(* stored_procedure::single_row and multi_row                              *)

Answer ==
  /\ proc = "call" /\ exec = "ok"
  /\ proc' = "answered" /\ exec' = "none"
  /\ UNCHANGED <<trouble, handles, known, sqlret, call, cursor, steady>>

\* Mutant of ExecFailed: having no row is a reason to try again.
ExecFailedRetriesNoData ==
  /\ proc = "call" /\ exec = "failed"
  /\ \/ /\ retry > Retries
        /\ proc' = "gaveup" /\ exec' = "none"
        /\ UNCHANGED <<retry, attempts>>
     \/ /\ retry <= Retries
        /\ proc' = "ping" /\ exec' = "begin"
        /\ retry' = retry + 1 /\ attempts' = 1
  /\ UNCHANGED <<trouble, handles, known, sqlret, kind, what, cursor, steady>>

\* exec has failed once too often, or for want of a row; or reconnecting begins.
ExecFailed ==
  /\ proc = "call" /\ exec = "failed"
  /\ \/ /\ retry > Retries \/ sqlret = "nodata"
        /\ proc' = "gaveup" /\ exec' = "none"
        /\ UNCHANGED <<retry, attempts>>
     \/ /\ retry <= Retries /\ sqlret # "nodata"
        /\ proc' = "ping" /\ exec' = "begin"
        /\ retry' = retry + 1 /\ attempts' = 1
  /\ UNCHANGED <<trouble, handles, known, sqlret, kind, what, cursor, steady>>

\* Mutant of TryAgain: the rows of the execution that failed stay in outs.
TryAgainDirty ==
  /\ proc' = "call" /\ exec' = "begin"
  /\ UNCHANGED <<outs, blank>>

\* The call goes on with an empty result.
TryAgain ==
  /\ proc' = "call" /\ exec' = "begin"
  /\ outs' = <<>> /\ blank' = FALSE

\* db_reconnect() is content with a ping ...
PingSucceeds ==
  /\ proc = "ping" /\ exec = "ok"
  /\ TryAgain
  /\ UNCHANGED <<trouble, handles, known, sqlret, call, left, size, runs, steady>>

\* Mutant of PingFails: a connection that does not answer is kept.
PingFailsKeeps ==
  /\ proc = "ping" /\ exec = "failed"
  /\ IF connected THEN UNCHANGED handles ELSE Reconnect
  /\ \/ connected' /\ TryAgain /\ UNCHANGED attempts
     \/ /\ ~connected'
        /\ IF attempts > Reconnects
           THEN proc' = "gaveup" /\ exec' = "none" /\ UNCHANGED attempts
           ELSE proc' = "ping" /\ exec' = "begin" /\ attempts' = attempts + 1
        /\ UNCHANGED <<outs, blank>>
  /\ UNCHANGED <<trouble, known, sqlret, kind, what, retry, left, size, runs, steady>>

\* Mutant of PingFails: the attempts are not counted.
PingFailsUncounted ==
  /\ proc = "ping" /\ exec = "failed"
  /\ Reconnect
  /\ \/ connected' /\ TryAgain
     \/ ~connected' /\ proc' = "ping" /\ exec' = "begin" /\ UNCHANGED <<outs, blank>>
  /\ UNCHANGED <<trouble, known, sqlret, call, left, size, runs, steady>>

\* ... and connects anew without one, which the caller tries a few times.
PingFails ==
  /\ proc = "ping" /\ exec = "failed"
  /\ Reconnect
  /\ \/ connected' /\ TryAgain /\ UNCHANGED attempts
     \/ /\ ~connected'
        /\ IF attempts > Reconnects
           THEN proc' = "gaveup" /\ exec' = "none" /\ UNCHANGED attempts
           ELSE proc' = "ping" /\ exec' = "begin" /\ attempts' = attempts + 1
        /\ UNCHANGED <<outs, blank>>
  /\ UNCHANGED <<trouble, known, sqlret, kind, what, retry, left, size, runs, steady>>

-----------------------------------------------------------------------------
(* The owner of the handler                                                *)

\* A procedure is called; `what` says whether it brings rows, brings nothing
\* that can be fetched (no result set, too many columns), or is rejected.
Call ==
  /\ proc = "idle"
  /\ proc' = "call" /\ exec' = "begin"
  /\ kind' \in {"single", "multi"} /\ what' \in {"rows", "mute", "faulty"}
  /\ retry' = 1 /\ attempts' = 1 /\ steady' = ~trouble
  /\ UNCHANGED <<trouble, handles, known, sqlret, cursor>>

Return ==
  /\ proc \in {"answered", "gaveup"}
  /\ proc' = "idle"
  /\ kind' = "single" /\ what' = "rows" /\ retry' = 1 /\ attempts' = 1
  /\ sqlret' = "success"
  /\ outs' = <<>> /\ blank' = FALSE /\ left' = 0 /\ size' = 0 /\ runs' = 0
  /\ steady' = FALSE
  /\ UNCHANGED <<trouble, handles, known, exec>>

\* db_connect(); _connect_info is kept from the first success on.
DbConnect ==
  /\ proc = "idle"
  /\ Opens \/ Refused
  /\ known' = (known \/ connected')
  /\ UNCHANGED <<trouble, proc, exec, sqlret, call, cursor, steady>>

DbClose ==
  /\ proc = "idle"
  /\ Close
  /\ UNCHANGED <<trouble, known, proc, exec, sqlret, call, cursor, steady>>

-----------------------------------------------------------------------------
Environment == TroubleComes \/ TroublePasses \/ LinkBreaks
Procedure   == Answer \/ ExecFailed \/ PingSucceeds \/ PingFails \/ Return

Next == Environment \/ Exec \/ Procedure \/ Call \/ DbConnect \/ DbClose

Spec == Init /\ [][Next]_vars

\* A call, once made, goes on: every call of the driver returns.
FairSpec == Spec /\ WF_vars(Exec \/ Procedure)

-----------------------------------------------------------------------------
(* Properties                                                              *)

\* The driver has exactly the handles the handler holds: none is leaked and
\* none is used or freed after it was given back, and each is nested in the
\* ones it was made from.
HandlesMatch ==
  /\ \A k \in Kinds : driver[k] = IF k \in held THEN 1 ELSE 0
  /\ "stmt" \in held => "hdbc" \in held
  /\ "hdbc" \in held => "env" \in held

\* A statement is bound, run and fetched from only over a connection that was
\* made; whatever the branches that ignore connect()'s outcome did before.
StatementAtHand ==
  exec \in {"bind", "fetch"} => connected /\ held = Kinds /\ link # "none"

\* The database is never asked to run a statement more often than
\* _retry_count_ + 1 times, reconnects included.
RunsBounded == runs <= Retries + 1

\* What is answered comes from a single run of the statement, the last one, and
\* is all of it.
OneRunAnswered ==
  proc = "answered" =>
    /\ \A i \in 1 .. Len(outs) : outs[i] = runs
    /\ Len(outs) = IF kind = "multi" THEN size ELSE 1

\* A statement is run a second time only if the database or the conversion of a
\* value failed since the call was made - that the connection had been stale
\* before is not enough - or if it is one without a result set, which exec can
\* only take for a failure.
RepeatsExplained == runs > 1 => ~steady \/ what = "mute"

\* With the database and the values well a call is answered, over whatever
\* connection the handler was left with, unless there is no row for single_row, the statement
\* is at fault or has no result set, or the handler was never connected.
SteadyIsAnswered ==
  proc = "gaveup" /\ steady =>
    what # "rows" \/ ~known \/ (kind = "single" /\ size = 0)

\* What the branch after SQLGetData is there for: an answer has no value that
\* could not be read.
ValuesWereRead == proc = "answered" => ~blank

\* Every call comes to an end, whatever the database does meanwhile.
CallsEnd == proc # "idle" ~> proc = "idle"

\* Where handler::exec stands goes with where stored_procedure stands.
Shape ==
  /\ exec = "none" <=> proc \in {"idle", "answered", "gaveup"}
  /\ connected => {"env", "hdbc"} \subseteq held /\ known
  /\ connected <=> link # "none"
  /\ exec \in {"probe", "statement"} => connected
  /\ exec \in {"redo", "again"} => "stmt" \notin held

\* What the runs so far have left in outs, and how many they are.
RunShape ==
  /\ proc = "call" =>
       runs <= IF exec \in {"fetch", "ok", "failed"} THEN retry ELSE retry - 1
  /\ proc = "ping" => runs < retry
  /\ runs <= retry
  /\ exec = "bind" => sqlret = "success"
  /\ proc = "call" /\ exec \in {"begin", "probe", "redo", "statement", "again", "bind"}
       => outs = <<>>
  /\ proc = "call" /\ exec \in {"fetch", "ok"} =>
       /\ \A i \in 1 .. Len(outs) : outs[i] = runs
       /\ kind = "single" => IF exec = "fetch" THEN outs = <<>> /\ left = size ELSE Len(outs) = 1
       /\ kind = "multi" => Len(outs) + left = size
       /\ kind = "multi" /\ exec = "ok" => left = 0
  /\ proc = "idle" => runs = 0 /\ outs = <<>>

\* A call during which nothing fails: the first execution can find a connection
\* that was broken before, the second one cannot.
SteadyShape ==
  steady =>
    /\ proc # "idle" => ~trouble
    /\ what = "faulty" => runs = 0
    /\ what = "rows" /\ runs >= 1 =>
         /\ runs = 1 /\ link = "good"
         /\ proc # "ping"
         /\ proc = "call" => exec \in {"fetch", "ok"} \/ (exec = "failed" /\ sqlret = "nodata")
    /\ what = "rows" /\ known /\ proc \in {"call", "ping"} =>
         /\ retry <= 2 /\ attempts = 1
         /\ proc = "ping" => retry = 2
         /\ exec \in {"redo", "again"} => link = "good" /\ connected
         /\ exec \in {"fetch", "ok"} => link = "good"
         /\ proc = "call" /\ retry = 2 => link = "good" /\ connected
         /\ proc = "call" /\ exec = "failed" /\ sqlret = "nodata" => kind = "single" /\ size = 0
         /\ proc = "call" /\ exec = "failed" /\ retry = 2 => sqlret = "nodata"

IInv == /\ TypeOK /\ HandlesMatch /\ StatementAtHand /\ Shape /\ RunShape
        /\ SteadyShape /\ OneRunAnswered /\ SteadyIsAnswered
=============================================================================

------------------------------- MODULE OdbcPool -------------------------------
(***************************************************************************)
(* The pool of database handlers (impl::odbc::pool) and the threads that   *)
(* borrow from it.  The pool counts the handlers it has made in            *)
(* _early_pool_size and makes no more than MaxSize; it counts down only if *)
(* the memory for one cannot be had.  A handler whose connect() fails is   *)
(* given to the caller all the same, together with the answer false.       *)
(*                                                                         *)
(* A handler that was never connected stays so: to reconnect it needs the  *)
(* names that only a successful connect() writes down.                     *)
(***************************************************************************)
EXTENDS Naturals, FiniteSets, SequencesExt

CONSTANTS
  Handlers,     \* bound: the handlers alive at one time
  DefaultSize,  \* _default_db_pool_size_
  MaxSize,      \* _max_db_pool_size_
  Databases     \* names connect() is called with

ASSUME SizesAssumption ==
  /\ DefaultSize \in Nat /\ MaxSize \in Nat /\ 0 < DefaultSize /\ DefaultSize <= MaxSize
  /\ Handlers \subseteq Nat /\ 0 \notin Databases

VARIABLES
  q,        \* _q
  early,    \* _early_pool_size
  db,       \* _dsn, _id and _auth; 0 when they are empty
  base,     \* the database each handler has connected to; 0 for none
  out,      \* handlers with a caller
  warned,   \* history: handlers whose caller was told that they are not connected
  spoiled,  \* history: handlers given back by a caller who had been told that
  outlived, \* history: handlers that were with callers when connect() succeeded
  counted,  \* history: handlers that count in early
  lost      \* history: what counts in early without a handler

kept     == <<warned, spoiled, outlived, counted, lost>>
poolVars == <<q, early, db, base, out, kept>>

InPool == ToSet(q)
Alive  == InPool \union out

PoolTypeOK ==
  /\ q \in Seq(Handlers) /\ Len(q) <= MaxSize
  /\ early \in 0 .. MaxSize /\ lost \in 0 .. MaxSize
  /\ db \in Databases \union {0}
  /\ base \in [Handlers -> Databases \union {0}]
  /\ out \in SUBSET Handlers /\ counted \in SUBSET Handlers
  /\ warned \in SUBSET out /\ spoiled \in SUBSET Alive /\ outlived \in SUBSET Alive

\* The pool of a program that has not called connect() yet.
PoolInit ==
  /\ q = <<>> /\ early = DefaultSize /\ db = 0
  /\ base = [h \in Handlers |-> 0]
  /\ out = {} /\ warned = {} /\ spoiled = {} /\ outlived = {}
  /\ counted = {} /\ lost = DefaultSize

\* A new handler: the first name that nobody uses.
Fresh(used) == {h \in Handlers \ used : \A k \in Handlers \ used : h <= k}

-----------------------------------------------------------------------------
(* pool::connect, under the pool's lock                                    *)

Clamp(size) ==
  IF size < DefaultSize THEN DefaultSize ELSE IF size > MaxSize THEN MaxSize ELSE size

\* As many new handlers in a row, under the first names that no caller has.
Newcomers(n) ==
  {s \in [1 .. n -> Handlers \ out] :
     /\ \A i, j \in 1 .. n : i < j => s[i] < s[j]
     /\ \A h \in ToSet(s), k \in (Handlers \ out) \ ToSet(s) : h < k}

\* Mutant of PoolConnect: the names are not kept for later handlers.
ConnectForgetsNames(d, size) ==
  /\ \E s \in Newcomers(Clamp(size)) :
       /\ q' = s /\ counted' = ToSet(s)
       /\ base' = [h \in Handlers |-> IF h \in ToSet(s) THEN d
                                     ELSE IF h \in out THEN base[h] ELSE 0]
  /\ early' = Clamp(size) /\ lost' = 0
  /\ spoiled' = spoiled \intersect out /\ outlived' = out
  /\ UNCHANGED <<db, out, warned>>

\* Every handler connects.  Those that are with callers live on.
PoolConnect(d, size) ==
  /\ \E s \in Newcomers(Clamp(size)) :
       /\ q' = s /\ counted' = ToSet(s)
       /\ base' = [h \in Handlers |-> IF h \in ToSet(s) THEN d
                                     ELSE IF h \in out THEN base[h] ELSE 0]
  /\ early' = Clamp(size) /\ lost' = 0 /\ db' = d
  /\ spoiled' = spoiled \intersect out /\ outlived' = out
  /\ UNCHANGED <<out, warned>>

\* One of them does not: the pool is emptied, and early is not set back.
ConnectFails(size) ==
  /\ q' = <<>> /\ early' = Clamp(size)
  /\ base' = [h \in Handlers |-> IF h \in out THEN base[h] ELSE 0]
  /\ spoiled' = spoiled \intersect out /\ outlived' = outlived \intersect out
  /\ counted' = {} /\ lost' = Clamp(size)
  /\ UNCHANGED <<db, out, warned>>

-----------------------------------------------------------------------------
(* alloc_odbc_ptr, compulsion_alloc_odbc_ptr and release_odbc_ptr          *)

\* What connect() makes of a new handler, and the caller told so.
MadeFor(h) ==
  \E d \in {0, db} :
    /\ base' = [base EXCEPT ![h] = d]
    /\ warned' = IF d = 0 THEN warned \union {h} ELSE warned
    /\ out' = out \union {h}

\* The caller gets the handler in front, and is told that it is a good one
\* whatever has become of it.
AllocFromPool ==
  /\ q # <<>>
  /\ q' = Tail(q) /\ out' = out \union {Head(q)}
  /\ UNCHANGED <<early, db, base, kept>>

Refuses == q = <<>> /\ MaxSize <= early

\* Mutant of AllocNew: a handler that does not connect is not counted.
AllocNewUncounted ==
  /\ q = <<>> /\ ~Refuses
  /\ \E h \in Fresh(Alive) :
       /\ MadeFor(h)
       /\ early' = IF base'[h] = 0 THEN early ELSE early + 1
       /\ counted' = counted \union {h}
  /\ UNCHANGED <<q, db, spoiled, outlived, lost>>

\* The pool is empty and makes one more.
AllocNew ==
  /\ q = <<>> /\ ~Refuses
  /\ \E h \in Fresh(Alive) : MadeFor(h) /\ counted' = counted \union {h}
  /\ early' = early + 1
  /\ UNCHANGED <<q, db, spoiled, outlived, lost>>

\* compulsion_alloc_odbc_ptr() does not look at the pool, nor count.  It reads
\* the names without the lock: where connect() assigns them meanwhile, it comes
\* before that (and the handler has outlived it), after it, or reads a mixture,
\* which is one more way not to connect.
Compel ==
  /\ \E h \in Fresh(Alive) : MadeFor(h)
  /\ UNCHANGED <<q, early, db, spoiled, outlived, counted, lost>>

\* A handler ceases to exist, its place in early does not.
Forget(h) ==
  /\ base' = [base EXCEPT ![h] = 0]
  /\ warned' = warned \ {h} /\ spoiled' = spoiled \ {h} /\ outlived' = outlived \ {h}
  /\ counted' = counted \ {h}
  /\ lost' = lost + (IF h \in counted THEN 1 ELSE 0)

\* A handler goes back into the queue, where nobody is told anything about it.
PutBack(h) ==
  /\ q' = Append(q, h)
  /\ warned' = warned \ {h}
  /\ spoiled' = IF h \in warned THEN spoiled \union {h} ELSE spoiled
  /\ UNCHANGED <<base, outlived, counted, lost>>

\* Mutant of Release: a handler is put back only into a pool that has others.
ReleaseToSome(h) ==
  /\ h \in out
  /\ out' = out \ {h}
  /\ IF 0 < Len(q) /\ Len(q) < MaxSize THEN PutBack(h) ELSE UNCHANGED <<q, base, kept>>
  /\ UNCHANGED <<early, db>>

\* The pool takes back whatever it is given, but closes it when it is full.
Release(h) ==
  /\ h \in out
  /\ out' = out \ {h}
  /\ IF Len(q) < MaxSize THEN PutBack(h) ELSE Forget(h) /\ UNCHANGED q
  /\ UNCHANGED <<early, db>>

\* A handler that somebody was told is not connected, and that no call gets
\* through with, may be let go instead of given back.
Drop(h) ==
  /\ h \in out \intersect warned
  /\ out' = out \ {h}
  /\ Forget(h)
  /\ UNCHANGED <<q, early, db>>

PoolNext ==
  \/ \E d \in Databases, size \in 0 .. MaxSize + 1 : PoolConnect(d, size)
  \/ \E size \in 0 .. MaxSize + 1 : ConnectFails(size)
  \/ AllocFromPool \/ AllocNew \/ Compel
  \/ \E h \in Handlers : Release(h) \/ Drop(h)

PoolSpec == PoolInit /\ [][PoolNext]_poolVars

\* Every caller is done with its handler some day.
FairPoolSpec == PoolSpec /\ \A h \in Handlers : WF_poolVars(Release(h) \/ Drop(h))

-----------------------------------------------------------------------------
(* Properties                                                              *)

\* A handler is in the queue once or with one caller, the pool keeps to its sizes,
\* and early is the number of the handlers that it made and of those it has lost.
\* So who is refused shares the blame with callers that hold what is missing, but
\* for what was lost, and a handler is closed for want of room only if there are
\* some that the pool did not make.
Accounting ==
  /\ PoolTypeOK
  /\ IsInjective(q) /\ InPool \intersect out = {}
  /\ counted \subseteq Alive
  /\ early = Cardinality(counted) + lost

\* Nobody is given a handler as a good one, or will be from the queue, that is
\* not connected to the database last named, unless it came back unconnected
\* from a caller who knew, or was with a caller when the names changed.
AnswersExplained ==
  \A h \in Alive \ warned :
    (base[h] = db /\ db # 0) \/ h \in spoiled \/ h \in outlived

\* What is inductive: the two of them, and that counting ends.
PoolIInv == Accounting /\ AnswersExplained /\ IsFiniteSet(counted)

\* Whoever is refused finds all that the pool may have with callers, or lost; and
\* while the pool is full and callers have handlers as well, some handler about is
\* one that it does not count, so that closing one for want of room
\* (release_odbc_ptr) is never the fault of the pool's own handlers alone.
BlameShared ==
  /\ Refuses => counted \subseteq out /\ Cardinality(counted) + lost = MaxSize
  /\ Len(q) = MaxSize /\ out # {} => ~(Alive \subseteq counted)

\* A pool that refuses does not refuse for ever, except when everything that it
\* may count is lost.
ServedAgain == Refuses ~> ~Refuses \/ lost = MaxSize
===============================================================================

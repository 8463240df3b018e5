-------------------------- MODULE TcpSessionProofs --------------------------
(* Theorems about TcpSession, for every number of closers, frames and packets. *)
EXTENDS TcpSession, FiniteSetTheorems, FunctionTheorems, TLAPS

-----------------------------------------------------------------------------
(* How queueing and running a handler change what is queued on the strand. *)

\* Queueing a handler adds it and nothing else (strand post and dispatch).
LEMMA AppendQueued ==
  ASSUME NEW H, NEW s \in Seq(H), NEW h \in H, NEW hs
  PROVE  /\ Append(s, h) \in Seq(H)
         /\ QueuedIn(Append(s, h), hs) <=> QueuedIn(s, hs) \/ h \in hs
         /\ OnceIn(Append(s, h), hs) <=>
              OnceIn(s, hs) /\ (h \in hs => ~QueuedIn(s, hs))
<1> DEFINE t == Append(s, h)
<1>1. /\ t \in Seq(H)
      /\ Len(s) \in Nat
      /\ Len(t) = Len(s) + 1
      /\ \A i \in 1 .. Len(s) : t[i] = s[i]
      /\ t[Len(s) + 1] = h
  OBVIOUS
<1> HIDE DEF t
<1>2. QueuedIn(t, hs) <=> QueuedIn(s, hs) \/ h \in hs
  BY <1>1 DEF QueuedIn
<1>3. OnceIn(t, hs) => OnceIn(s, hs) /\ (h \in hs => ~QueuedIn(s, hs))
  BY <1>1 DEF QueuedIn, OnceIn
<1>4. OnceIn(s, hs) /\ (h \in hs => ~QueuedIn(s, hs)) => OnceIn(t, hs)
  BY <1>1 DEF QueuedIn, OnceIn
<1>5. QED
  BY <1>1, <1>2, <1>3, <1>4 DEF t

\* Taking the first handler leaves the others.
LEMMA TailQueued ==
  ASSUME NEW H, NEW s \in Seq(H), s # <<>>, NEW hs
  PROVE  /\ Tail(s) \in Seq(H)
         /\ Head(s) \in H
         /\ QueuedIn(s, hs) <=> QueuedIn(Tail(s), hs) \/ Head(s) \in hs
         /\ OnceIn(s, hs) => /\ OnceIn(Tail(s), hs)
                             /\ Head(s) \in hs => ~QueuedIn(Tail(s), hs)
<1> DEFINE t == Tail(s)
<1> DEFINE f == Head(s)
<1>1. /\ t \in Seq(H)
      /\ f \in H
      /\ Len(s) \in Nat \ {0}
      /\ Len(t) = Len(s) - 1
      /\ \A i \in 1 .. Len(t) : t[i] = s[i + 1]
      /\ f = s[1]
  OBVIOUS
<1> HIDE DEF t, f
<1>2. ASSUME QueuedIn(s, hs)
      PROVE  QueuedIn(t, hs) \/ f \in hs
  <2>1. PICK i \in 1 .. Len(s) : s[i] \in hs
    BY <1>2 DEF QueuedIn
  <2>2. CASE i = 1
    BY <1>1, <2>1, <2>2
  <2>3. CASE i # 1
    <3>1. i - 1 \in 1 .. Len(t) /\ t[i - 1] = s[i]
      BY <1>1, <2>3
    <3>2. QED
      BY <2>1, <3>1 DEF QueuedIn
  <2>4. QED
    BY <2>2, <2>3
<1>3. ASSUME QueuedIn(t, hs) \/ f \in hs
      PROVE  QueuedIn(s, hs)
  <2>1. CASE f \in hs
    BY <1>1, <2>1 DEF QueuedIn
  <2>2. CASE QueuedIn(t, hs)
    <3>1. PICK i \in 1 .. Len(t) : t[i] \in hs
      BY <2>2 DEF QueuedIn
    <3>2. i + 1 \in 1 .. Len(s) /\ s[i + 1] \in hs
      BY <1>1, <3>1
    <3>3. QED
      BY <3>2 DEF QueuedIn
  <2>3. QED
    BY <1>3, <2>1, <2>2
<1>4. ASSUME OnceIn(s, hs)
      PROVE  OnceIn(t, hs) /\ (f \in hs => ~QueuedIn(t, hs))
  <2>1. OnceIn(t, hs)
    <3> SUFFICES ASSUME NEW i \in 1 .. Len(t), NEW j \in 1 .. Len(t),
                        t[i] \in hs, t[j] \in hs
                 PROVE  i = j
      BY DEF OnceIn
    <3>1. i + 1 \in 1 .. Len(s) /\ j + 1 \in 1 .. Len(s)
      BY <1>1
    <3>2. s[i + 1] \in hs /\ s[j + 1] \in hs
      BY <1>1
    <3>3. i + 1 = j + 1
      BY <1>4, <3>1, <3>2 DEF OnceIn
    <3>4. QED
      BY <3>3
  <2>2. ASSUME f \in hs, NEW i \in 1 .. Len(t), t[i] \in hs
        PROVE  FALSE
    <3>1. 1 \in 1 .. Len(s) /\ i + 1 \in 1 .. Len(s)
      BY <1>1
    <3>2. s[1] \in hs /\ s[i + 1] \in hs
      BY <1>1, <2>2
    <3>3. 1 = i + 1
      BY <1>4, <3>1, <3>2 DEF OnceIn
    <3>4. QED
      BY <3>3
  <2>3. QED
    BY <2>1, <2>2 DEF QueuedIn
<1>5. QED
  BY <1>1, <1>2, <1>3, <1>4 DEF t, f

\* How many handlers queued in s are of hs.
PlacesOf(s, hs) == {i \in 1 .. Len(s) : s[i] \in hs}
CountIn(s, hs)  == Cardinality(PlacesOf(s, hs))

\* A count is a number, and zero when nothing of the kind is queued.
LEMMA CountType ==
  ASSUME NEW H, NEW s \in Seq(H), NEW hs
  PROVE  /\ IsFiniteSet(PlacesOf(s, hs))
         /\ CountIn(s, hs) \in Nat
         /\ CountIn(s, hs) = 0 <=> ~QueuedIn(s, hs)
<1>1. IsFiniteSet(1 .. Len(s))
  BY FS_Interval
<1>2. IsFiniteSet(PlacesOf(s, hs))
  BY <1>1, FS_Subset DEF PlacesOf
<1>3. PlacesOf(s, hs) = {} <=> ~QueuedIn(s, hs)
  BY DEF PlacesOf, QueuedIn
<1>4. QED
  BY <1>2, <1>3, FS_CardinalityType, FS_EmptySet DEF CountIn

\* Queueing a handler counts it.
LEMMA AppendCounts ==
  ASSUME NEW H, NEW s \in Seq(H), NEW h \in H, NEW hs
  PROVE  CountIn(Append(s, h), hs) = CountIn(s, hs) + IF h \in hs THEN 1 ELSE 0
<1> DEFINE t == Append(s, h)
<1>1. /\ Len(s) \in Nat /\ Len(t) = Len(s) + 1
      /\ \A i \in 1 .. Len(s) : t[i] = s[i]
      /\ t[Len(s) + 1] = h
  OBVIOUS
<1> HIDE DEF t
<1>2. PlacesOf(t, hs) = IF h \in hs THEN PlacesOf(s, hs) \union {Len(t)} ELSE PlacesOf(s, hs)
  BY <1>1 DEF PlacesOf
<1>3. Len(t) \notin PlacesOf(s, hs)
  BY <1>1 DEF PlacesOf
<1>4. IsFiniteSet(PlacesOf(s, hs)) /\ CountIn(s, hs) \in Nat
  BY CountType
<1>5. CASE h \in hs
  <2>1. Cardinality(PlacesOf(s, hs) \union {Len(t)}) = Cardinality(PlacesOf(s, hs)) + 1
    BY <1>3, <1>4, FS_AddElement
  <2>2. QED
    BY <1>2, <1>5, <2>1 DEF CountIn, t
<1>6. CASE h \notin hs
  BY <1>2, <1>4, <1>6 DEF CountIn, t
<1>7. QED
  BY <1>5, <1>6

\* Running the first handler takes it off the count.
LEMMA TailCounts ==
  ASSUME NEW H, NEW s \in Seq(H), s # <<>>, NEW hs
  PROVE  CountIn(s, hs) = CountIn(Tail(s), hs) + IF Head(s) \in hs THEN 1 ELSE 0
<1> DEFINE t == Tail(s)
<1>1. /\ t \in Seq(H) /\ Len(s) \in Nat \ {0} /\ Len(t) = Len(s) - 1
      /\ \A i \in 1 .. Len(t) : t[i] = s[i + 1]
      /\ Head(s) = s[1]
  OBVIOUS
<1> HIDE DEF t
<1> DEFINE P == PlacesOf(s, hs)
           Q == PlacesOf(t, hs)
           f == [i \in Q |-> i + 1]
<1>2. IsFiniteSet(P) /\ IsFiniteSet(Q) /\ CountIn(t, hs) \in Nat
  BY <1>1, CountType
<1>3. IsFiniteSet(P \ {1}) /\ Cardinality(P) = Cardinality(P \ {1}) + IF Head(s) \in hs THEN 1 ELSE 0
  <2>1. 1 \in P <=> Head(s) \in hs
    BY <1>1 DEF PlacesOf
  <2> HIDE DEF P
  <2>2. Cardinality(P) \in Nat
    BY <1>2, FS_CardinalityType
  <2>3. IsFiniteSet(P \ {1}) /\ Cardinality(P \ {1}) = IF 1 \in P THEN Cardinality(P) - 1 ELSE Cardinality(P)
    BY <1>2, FS_RemoveElement
  <2>4. QED
    BY <2>1, <2>2, <2>3
<1>4. f \in Bijection(Q, P \ {1})
  <2>1. \A i \in Q : i \in Nat /\ i + 1 \in P \ {1}
    BY <1>1 DEF PlacesOf
  <2>2. \A j \in P \ {1} : j \in Nat /\ j - 1 \in Q /\ (j - 1) + 1 = j
    BY <1>1 DEF PlacesOf
  <2> HIDE DEF P, Q
  <2>3. f \in [Q -> P \ {1}]
    BY <2>1
  <2>4. \A i, j \in Q : f[i] = f[j] => i = j
    BY <2>1
  <2>5. \A j \in P \ {1} : \E i \in Q : f[i] = j
    BY <2>2
  <2> HIDE DEF f
  <2>6. QED
    BY <2>3, <2>4, <2>5, Fun_IsBij
<1>5. Cardinality(Q) = Cardinality(P \ {1})
  BY <1>2, <1>4, FS_Bijection DEF ExistsBijection
<1>6. QED
  BY <1>3, <1>5 DEF CountIn, t

-----------------------------------------------------------------------------

\* Everything that is queued on the strand is a handler.
LEMMA Handlers ==
  /\ \A op \in Op : Task(op) \in Handler
  /\ \A op \in Op, b \in BOOLEAN : Completion(op, b) \in Handler
BY DEF Task, Completion, Handler

\* Queueing and running handlers keeps the strand a queue of handlers.
LEMMA StrandType ==
  /\ <<>> \in Seq(Handler)
  /\ \A s \in Seq(Handler), h \in Handler : Append(s, h) \in Seq(Handler)
  /\ \A s \in Seq(Handler) : s # <<>> => Tail(s) \in Seq(Handler) /\ Head(s) \in Handler
OBVIOUS

\* The variables keep their types (tcp_session.hpp's members).
THEOREM TypeCorrect == Spec => []TypeOK
<1> USE BoundAssumption
    DEF BoundAssumption, ioVars, sendVars, memberVars, runVars
<1>1. Init => TypeOK
  <2> SUFFICES ASSUME Init
               PROVE  TypeOK
    OBVIOUS
  <2>1. FlagsOK
    BY DEF Init, FlagsOK
  <2>2. ControlOK
    BY StrandType DEF Init, ControlOK
  <2>3. SendOK
    BY DEF Init, SendOK
  <2>4. QED
    BY <2>1, <2>2, <2>3 DEF TypeOK
<1>2. TypeOK /\ [Next]_vars => FlagsOK'
  <2> SUFFICES ASSUME FlagsOK, [Next]_vars
               PROVE  FlagsOK'
    BY DEF TypeOK
  <2> USE DEF FlagsOK
  <2>1. CASE Start
    BY <2>1 DEF Start, StartArm, StartFails, StartPost
  <2>2. CASE Network
    <3>1. CASE ReadCompletes \/ ReadFails \/ FastEnds
      BY <3>1 DEF ReadCompletes, ReadFails, FastEnds
    <3>2. ASSUME NEW w \in writes, PutChunk(w)
          PROVE  FlagsOK'
      BY <3>2 DEF PutChunk
    <3>3. ASSUME NEW w \in writes, NEW ok \in BOOLEAN, WriteEnds(w, ok)
          PROVE  FlagsOK'
      BY <3>3 DEF WriteEnds
    <3>4. QED
      BY <2>2, <3>1, <3>2, <3>3 DEF Network, WriteCompletes, WriteFails
  <2>3. CASE Outside
    BY <2>3 DEF Outside, KickChecks, CloserSets, KeepAliveTick, FastSend
  <2>4. CASE OnRoute
    <3>1. ASSUME NEW ok \in BOOLEAN, RouteSilently(ok) \/ RouteSends(ok)
          PROVE  FlagsOK'
      BY <3>1 DEF RouteSilently, RouteSends
    <3>2. CASE RouteBroadcasts \/ SendQueues
      BY <3>2 DEF RouteBroadcasts, SendQueues
    <3>3. CASE RouteRejects
      BY <3>3 DEF RouteRejects, OnClose
    <3>4. QED
      BY <2>4, <3>1, <3>2, <3>3 DEF OnRoute
  <2>5. CASE Strand /\ ~OnRoute
    <3>1. CASE HandleClose \/ HandleLeave \/ HandleFast
      BY <3>1 DEF HandleClose, HandleLeave, HandleFast, NoClose
    <3>2. ASSUME NEW refused \in BOOLEAN, HandleEnter(refused)
          PROVE  FlagsOK'
      BY <3>2 DEF HandleEnter
    <3>3. CASE HandleReadError \/ HandleHeader
      BY <3>3 DEF HandleReadError, HandleHeader, OnClose, NoClose, Heard
    <3>4. ASSUME NEW op \in {"header", "body"},
                 HandleFrame(op) \/ HandleFrameNoInbound(op)
          PROVE  FlagsOK'
      BY <3>4 DEF HandleFrame, HandleFrameNoInbound, OnClose, NoClose, Heard
    <3>5. CASE HandleWrite \/ HandleWriteError
      BY <3>5 DEF HandleWrite, HandleWriteError, OnClose, NoClose
    <3>6. QED
      BY <2>5, <3>1, <3>2, <3>3, <3>4, <3>5 DEF Strand
  <2>6. CASE UNCHANGED vars
    BY <2>6 DEF vars
  <2>7. QED
    BY <2>1, <2>2, <2>3, <2>4, <2>5, <2>6 DEF Next, Strand
<1>3. TypeOK /\ [Next]_vars => ControlOK'
  <2> SUFFICES ASSUME ControlOK, SendOK, [Next]_vars
               PROVE  ControlOK'
    BY DEF TypeOK
  <2> USE DEF ControlOK
  <2>0. /\ \A h \in Handler : Append(strand, h) \in Seq(Handler)
        /\ strand # <<>> => Tail(strand) \in Seq(Handler)
        /\ strand # <<>> => Append(Tail(strand), Task("leave")) \in Seq(Handler)
        /\ Append(strand, Task("leave")) \in Seq(Handler)
        /\ Append(strand, Task("close")) \in Seq(Handler)
        /\ Append(strand, Task("enter")) \in Seq(Handler)
        /\ Append(strand, Task("fast")) \in Seq(Handler)
    BY StrandType, Handlers DEF Op
  <2>1. CASE Start
    BY <2>0, <2>1 DEF Start, StartArm, StartFails, StartPost
  <2>2. CASE Network
    <3>1. ASSUME NEW ok \in BOOLEAN, reading # "none",
                 strand' = Append(strand, Completion(reading, ok))
          PROVE  strand' \in Seq(Handler)
      <4>1. Completion(reading, ok) \in Handler
        BY <3>1, Handlers DEF Op
      <4>2. QED
        BY <2>0, <3>1, <4>1
    <3>2. CASE ReadCompletes
      <4>1. strand' \in Seq(Handler)
        BY <3>1, <3>2 DEF ReadCompletes
      <4>2. frames' \in Nat
        BY <3>2 DEF ReadCompletes
      <4>3. QED
        BY <3>2, <4>1, <4>2 DEF ReadCompletes
    <3>3. CASE ReadFails
      BY <3>1, <3>3 DEF ReadFails
    <3>4. CASE FastEnds
      BY <3>4 DEF FastEnds
    <3>5. ASSUME NEW w \in writes, PutChunk(w)
          PROVE  ControlOK'
      BY <3>5 DEF PutChunk
    <3>6. ASSUME NEW w \in writes, NEW ok \in BOOLEAN, WriteEnds(w, ok)
          PROVE  ControlOK'
      <4>1. Completion("write", ok) \in Handler
        BY Handlers DEF Op
      <4>2. QED
        BY <2>0, <3>6, <4>1 DEF WriteEnds
    <3>7. QED
      BY <2>2, <3>2, <3>3, <3>4, <3>5, <3>6 DEF Network, WriteCompletes, WriteFails
  <2>3. CASE Outside
    <3>1. ASSUME NEW k \in Kicker, KickChecks(k)
          PROVE  ControlOK'
      BY <3>1 DEF KickChecks, Closer
    <3>2. ASSUME NEW c \in Closer, CloserSets(c)
          PROVE  ControlOK'
      BY <2>0, <3>2 DEF CloserSets
    <3>3. CASE KeepAliveTick
      BY <3>3 DEF KeepAliveTick, Closer
    <3>4. CASE FastSend
      BY <2>0, <3>4 DEF FastSend
    <3>5. QED
      BY <2>3, <3>1, <3>2, <3>3, <3>4 DEF Outside
  <2>4. CASE OnRoute
    BY <2>0, <2>4
    DEF OnRoute, RouteSilently, RouteSends, RouteBroadcasts, SendQueues,
        RouteRejects, OnClose
  <2>5. CASE Strand /\ ~OnRoute
    <3>a. ASSUME NEW op, Runs(op), NoClose(Tail(strand)) \/ OnClose(Tail(strand))
          PROVE  strand' \in Seq(Handler)
      BY <2>0, <3>a DEF Runs, NoClose, OnClose
    <3>1. CASE HandleClose \/ HandleLeave \/ HandleFast
      <4>1. strand' \in Seq(Handler)
        BY <2>0, <3>1, <3>a DEF HandleClose, HandleLeave, HandleFast, Runs
      <4>2. leaves' \in {leaves, leaves + 1} /\ UNCHANGED <<phase, closer, ioVars, idle, pc>>
        BY <3>1 DEF HandleClose, HandleLeave, HandleFast
      <4>3. QED
        BY <4>1, <4>2
    <3>2. ASSUME NEW refused \in BOOLEAN, HandleEnter(refused)
          PROVE  ControlOK'
      BY <2>0, <3>2 DEF HandleEnter, Runs
    <3>3. CASE HandleReadError \/ HandleHeader
      <4>1. strand' \in Seq(Handler)
        BY <3>3, <3>a DEF HandleReadError, HandleHeader
      <4>2. UNCHANGED <<phase, closer, frames, leaves, pc>>
        BY <3>3 DEF HandleReadError, HandleHeader
      <4>3. idle' \in {0, idle} /\ reading' \in {reading, "none", "body"}
        BY <3>3 DEF HandleReadError, HandleHeader, Heard
      <4>4. QED
        BY <4>1, <4>2, <4>3
    <3>4. ASSUME NEW op \in {"header", "body"},
                 HandleFrame(op) \/ HandleFrameNoInbound(op)
          PROVE  ControlOK'
      <4>1. strand' \in Seq(Handler)
        BY <3>4, <3>a DEF HandleFrame, HandleFrameNoInbound
      <4>2. pc' = "route" /\ UNCHANGED <<phase, closer, frames, leaves>>
        BY <3>4 DEF HandleFrame, HandleFrameNoInbound
      <4>3. idle' \in {0, idle} /\ reading' \in {reading, "none", "header"}
        BY <3>4 DEF HandleFrame, HandleFrameNoInbound, Heard
      <4>4. QED
        BY <4>1, <4>2, <4>3
    <3>5. CASE HandleWrite \/ HandleWriteError
      BY <2>0, <3>5 DEF HandleWrite, HandleWriteError, OnClose, NoClose, Runs
    <3>6. QED
      BY <2>5, <3>1, <3>2, <3>3, <3>4, <3>5 DEF Strand
  <2>6. CASE UNCHANGED vars
    BY <2>6 DEF vars
  <2>7. QED
    BY <2>1, <2>2, <2>3, <2>4, <2>5, <2>6 DEF Next, Strand
<1>4. TypeOK /\ [Next]_vars => SendOK'
  <2> SUFFICES ASSUME SendOK, [Next]_vars
               PROVE  SendOK'
    BY DEF TypeOK
  <2> USE DEF SendOK, WriteOp
  <2>1. CASE Start
    BY <2>1 DEF Start, StartArm, StartFails, StartPost
  <2>2. ASSUME NEW w \in writes, PutChunk(w)
        PROVE  SendOK'
    <3>1. w.pk \in Nat /\ w.left \in 1 .. Chunks
      BY <2>2 DEF PutChunk
    <3>2. [w EXCEPT !.left = @ - 1] \in WriteOp
      <4>1. w = [pk |-> w.pk, left |-> w.left]
        OBVIOUS
      <4>2. w.left - 1 \in 0 .. Chunks
        BY <3>1
      <4>3. QED
        BY <3>1, <4>1, <4>2
    <3>3. wire' \in [frame : Nat, chunk : 0 .. Chunks]
      BY <2>2, <3>1 DEF PutChunk
    <3>4. QED
      BY <2>2, <3>2, <3>3 DEF PutChunk
  <2>3. CASE Network /\ ~\E w \in writes : PutChunk(w)
    <3>1. CASE ReadCompletes \/ ReadFails \/ FastEnds
      <4>1. CASE FastEnds
        BY <4>1 DEF FastEnds
      <4>2. CASE ReadCompletes \/ ReadFails
        <5>1. UNCHANGED sendVars
          BY <4>2 DEF ReadCompletes, ReadFails
        <5>2. QED
          BY <5>1
      <4>3. QED
        BY <3>1, <4>1, <4>2
    <3>2. ASSUME NEW w \in writes, NEW ok \in BOOLEAN, WriteEnds(w, ok)
          PROVE  SendOK'
      BY <3>2 DEF WriteEnds
    <3>3. QED
      BY <2>3, <3>1, <3>2 DEF Network, WriteCompletes, WriteFails
  <2>4. CASE Outside
    BY <2>4 DEF Outside, KickChecks, CloserSets, KeepAliveTick, FastSend
  <2>5. CASE OnRoute
    <3>1. CASE SendQueues
      <4>1. accepted + 1 \in Nat
        OBVIOUS
      <4>2. QueuedWrite(accepted + 1) \in WriteOp
        BY <4>1 DEF QueuedWrite
      <4>3. outq' \in Seq(Nat)
        BY <3>1, <4>1 DEF SendQueues
      <4>4. writes' \subseteq WriteOp
        BY <3>1, <4>2 DEF SendQueues
      <4>5. QED
        BY <3>1, <4>1, <4>3, <4>4 DEF SendQueues
    <3>2. CASE OnRoute /\ ~SendQueues
      BY <3>2 DEF OnRoute, RouteSilently, RouteSends, RouteBroadcasts, RouteRejects
    <3>3. QED
      BY <2>5, <3>1, <3>2
  <2>6. CASE HandleWrite
    <3>1. outq' \in Seq(Nat) /\ (outq' # <<>> => Head(outq') \in Nat)
      BY <2>6 DEF HandleWrite
    <3>2. outq' # <<>> => QueuedWrite(Head(outq')) \in WriteOp
      BY <3>1 DEF QueuedWrite
    <3>3. writes' \subseteq WriteOp
      BY <2>6, <3>2 DEF HandleWrite
    <3>4. UNCHANGED <<accepted, fasting, fasts, wire>>
      BY <2>6 DEF HandleWrite
    <3>5. QED
      BY <3>1, <3>3, <3>4
  <2>7. CASE HandleWriteError
    BY <2>7 DEF HandleWriteError
  <2>8. CASE Strand /\ ~OnRoute /\ ~HandleWrite /\ ~HandleWriteError
    BY <2>8
    DEF Strand, HandleClose, HandleLeave, HandleFast, HandleEnter,
        HandleReadError, HandleHeader, HandleFrame, HandleFrameNoInbound
  <2>9. CASE UNCHANGED vars
    BY <2>9 DEF vars
  <2>10. QED
    BY <2>1, <2>2, <2>3, <2>4, <2>5, <2>6, <2>7, <2>8, <2>9 DEF Next, Strand, Network
<1>5. QED
  <2>1. TypeOK /\ [Next]_vars => TypeOK'
    BY <1>2, <1>3, <1>4 DEF TypeOK
  <2>2. QED
    BY <1>1, <2>1, PTL DEF Spec

-----------------------------------------------------------------------------
(* What a step that changes the strand does to the classes of handlers that *)
(* the invariant speaks of.                                                 *)

\* Which handlers belong to which class.
LEMMA Classes ==
  ASSUME NEW h \in Handler
  PROVE  /\ h \in Reads <=> h.op \in {"header", "body"}
         /\ h \in Writes <=> h.op = "write"
         /\ h \in Written <=> h.op = "write" /\ h.ok
         /\ h \in Closings <=> h.op \in {"close", "leave"}
BY DEF Handler, Op, Reads, Writes, Written, Closings, Completion

\* A handler that is queued adds itself to its classes and nothing else.
LEMMA StrandAppend ==
  ASSUME NEW s \in Seq(Handler), NEW h \in Handler
  PROVE  \A hs : /\ QueuedIn(Append(s, h), hs) <=> QueuedIn(s, hs) \/ h \in hs
                 /\ OnceIn(Append(s, h), hs) <=>
                      OnceIn(s, hs) /\ (h \in hs => ~QueuedIn(s, hs))
<1> TAKE hs
<1>1. QED
  BY AppendQueued

\* A post, or a dispatch from outside the strand.
LEMMA Pushed ==
  ASSUME strand \in Seq(Handler), NEW op \in Op, NEW ok \in BOOLEAN,
         strand' = Append(strand, Completion(op, ok))
  PROVE  /\ Queued(Reads)' <=> Queued(Reads) \/ op \in {"header", "body"}
         /\ OnceIn(strand', Reads) <=>
              /\ OnceIn(strand, Reads)
              /\ op \in {"header", "body"} => ~Queued(Reads)
         /\ Queued(Writes)' <=> Queued(Writes) \/ op = "write"
         /\ OnceIn(strand', Writes) <=>
              OnceIn(strand, Writes) /\ (op = "write" => ~Queued(Writes))
         /\ Queued(Written)' <=> Queued(Written) \/ (op = "write" /\ ok)
         /\ Queued(Closings)' <=> Queued(Closings) \/ op \in {"close", "leave"}
<1> DEFINE h == Completion(op, ok)
<1>1. h \in Handler /\ h.op = op /\ h.ok = ok
  BY DEF Completion, Handler
<1> HIDE DEF h
<1>2. /\ h \in Reads <=> op \in {"header", "body"}
      /\ h \in Writes <=> op = "write"
      /\ h \in Written <=> op = "write" /\ ok
      /\ h \in Closings <=> op \in {"close", "leave"}
  BY <1>1, Classes
<1>3. strand' = Append(strand, h)
  BY DEF h
<1>4. \A hs : /\ QueuedIn(strand', hs) <=> QueuedIn(strand, hs) \/ h \in hs
              /\ OnceIn(strand', hs) <=>
                   OnceIn(strand, hs) /\ (h \in hs => ~QueuedIn(strand, hs))
  BY <1>1, <1>3, StrandAppend
<1>5. QED
  BY <1>2, <1>4 DEF Queued

\* A handler has run.
LEMMA Popped ==
  ASSUME strand \in Seq(Handler), strand # <<>>, NEW s, s = Tail(strand)
  PROVE  LET op == Head(strand).op IN
         /\ s \in Seq(Handler)
         /\ Queued(Reads) <=> QueuedIn(s, Reads) \/ op \in {"header", "body"}
         /\ OnceIn(strand, Reads) =>
              /\ OnceIn(s, Reads)
              /\ op \in {"header", "body"} => ~QueuedIn(s, Reads)
         /\ Queued(Writes) <=> QueuedIn(s, Writes) \/ op = "write"
         /\ OnceIn(strand, Writes) =>
              OnceIn(s, Writes) /\ (op = "write" => ~QueuedIn(s, Writes))
         /\ Queued(Written) <=>
              QueuedIn(s, Written) \/ (op = "write" /\ Head(strand).ok)
         /\ Queued(Closings) <=> QueuedIn(s, Closings) \/ op \in {"close", "leave"}
<1> DEFINE h == Head(strand)
<1>1. h \in Handler /\ s \in Seq(Handler)
  BY StrandType
<1>2. \A hs : /\ QueuedIn(strand, hs) <=> QueuedIn(s, hs) \/ h \in hs
              /\ OnceIn(strand, hs) =>
                   OnceIn(s, hs) /\ (h \in hs => ~QueuedIn(s, hs))
  BY TailQueued
<1>3. /\ h \in Reads <=> h.op \in {"header", "body"}
      /\ h \in Writes <=> h.op = "write"
      /\ h \in Written <=> h.op = "write" /\ h.ok
      /\ h \in Closings <=> h.op \in {"close", "leave"}
  BY <1>1, Classes
<1>4. QED
  BY <1>1, <1>2, <1>3 DEF Queued

\* A handler has run and closed the session: on_user_leave is posted.
LEMMA PoppedThenLeave ==
  ASSUME strand \in Seq(Handler), strand # <<>>,
         strand' = Append(Tail(strand), Task("leave"))
  PROVE  LET s == Tail(strand) IN
         /\ Queued(Reads)' <=> QueuedIn(s, Reads)
         /\ OnceIn(strand', Reads) <=> OnceIn(s, Reads)
         /\ Queued(Writes)' <=> QueuedIn(s, Writes)
         /\ OnceIn(strand', Writes) <=> OnceIn(s, Writes)
         /\ Queued(Written)' <=> QueuedIn(s, Written)
<1> DEFINE h == Task("leave")
<1>1. h \in Handler /\ h.op = "leave"
  BY DEF Task, Handler, Op
<1> HIDE DEF h
<1>2. h \notin Reads /\ h \notin Writes /\ h \notin Written
  BY <1>1, Classes
<1> DEFINE s == Tail(strand)
<1>3. s \in Seq(Handler) /\ strand' = Append(s, h)
  BY StrandType DEF h
<1> HIDE DEF s
<1>4. \A hs : /\ QueuedIn(strand', hs) <=> QueuedIn(s, hs) \/ h \in hs
              /\ OnceIn(strand', hs) <=>
                   OnceIn(s, hs) /\ (h \in hs => ~QueuedIn(s, hs))
  <2>1. \A hs : /\ QueuedIn(Append(s, h), hs) <=> QueuedIn(s, hs) \/ h \in hs
                /\ OnceIn(Append(s, h), hs) <=>
                     OnceIn(s, hs) /\ (h \in hs => ~QueuedIn(s, hs))
    BY <1>1, <1>3, StrandAppend
  <2>2. QED
    BY <1>3, <2>1
<1>5. QED
  BY <1>2, <1>4 DEF Queued, s

-----------------------------------------------------------------------------
(* The inductive invariant                                                  *)

\* No handler is queued, so none of any class is.
LEMMA NothingQueued ==
  ASSUME NEW hs
  PROVE  ~QueuedIn(<<>>, hs) /\ OnceIn(<<>>, hs)
BY DEF QueuedIn, OnceIn

\* A new session satisfies the invariant.
LEMMA InitIInv == Init => IInv
<1> SUFFICES ASSUME Init
             PROVE  IInv
  OBVIOUS
<1>1. \A hs : ~QueuedIn(strand, hs) /\ OnceIn(strand, hs)
  BY NothingQueued DEF Init
<1>2. Untouched /\ ClosedIsDisconnected
  BY <1>1 DEF Init, Untouched, ClosedIsDisconnected, Queued
<1>3. OneRead /\ NeverDeaf
  BY <1>1 DEF Init, OneRead, NeverDeaf, Queued
<1>4. OneWrite /\ NeverFatal /\ NeverMute
  BY <1>1 DEF Init, OneWrite, NeverFatal, NeverMute, Queued
<1>5. QueueInOrder /\ WireFollowsQueue
  BY <1>1 DEF Init, QueueInOrder, WireFollowsQueue, Queued
<1>6. QED
  BY <1>2, <1>3, <1>4, <1>5 DEF IInv

\* The invariant in three parts: closing, reading and writing.
CloseInv == Untouched /\ ClosedIsDisconnected
ReadInv  == /\ OneRead /\ NeverDeaf
            /\ reading # "none" \/ Queued(Reads) => inbound
WriteInv == /\ OneWrite /\ NeverMute /\ QueueInOrder /\ WireFollowsQueue
            /\ Queued(Writes) => outq # <<>>

\* The invariant splits into what concerns closing, reading and writing.
LEMMA IInvParts ==
  /\ IInv <=> CloseInv /\ ReadInv /\ WriteInv
  /\ IInv' <=> CloseInv' /\ ReadInv' /\ WriteInv'
BY DEF IInv, CloseInv, ReadInv, WriteInv, NeverFatal

\* What a step leaves alone when it has nothing to do with a part.
SameClosings ==
  ~connected' \/ (connected /\ open' = open /\ (Queued(Closings)' => Queued(Closings)))
SameReads ==
  /\ UNCHANGED <<reading, inbound>>
  /\ connected' => connected
  /\ Queued(Reads)' <=> Queued(Reads)
  /\ OnceIn(strand, Reads) => OnceIn(strand', Reads)
SameWrites ==
  /\ UNCHANGED <<outq, writes, accepted, wire>>
  /\ connected' => connected
  /\ Queued(Writes)' <=> Queued(Writes)
  /\ OnceIn(strand, Writes) => OnceIn(strand', Writes)
  /\ Queued(Written)' => Queued(Written)

\* Once start() has begun, a step that respects the close respects CloseInv.
LEMMA CloseFrame ==
  ASSUME CloseInv, phase' # "new", SameClosings
  PROVE  CloseInv'
BY DEF CloseInv, Untouched, ClosedIsDisconnected, SameClosings

\* A step that respects the reads respects ReadInv.
LEMMA ReadFrame ==
  ASSUME ReadInv, SameReads
  PROVE  ReadInv'
BY DEF ReadInv, OneRead, NeverDeaf, SameReads

\* A step that respects the writes respects WriteInv.
LEMMA WriteFrame ==
  ASSUME WriteInv, SameWrites
  PROVE  WriteInv'
<1>1. OneWrite' /\ (Queued(Writes) => outq # <<>>)' /\ NeverMute'
  BY DEF WriteInv, OneWrite, NeverMute, SameWrites
<1>2. QueueInOrder'
  BY DEF WriteInv, QueueInOrder, SameWrites
<1>3. WireFollowsQueue'
  BY DEF WriteInv, WireFollowsQueue, SameWrites
<1>4. QED
  BY <1>1, <1>2, <1>3 DEF WriteInv

\* Steps that do not touch the strand touch no class of handlers.
LEMMA StrandKept ==
  ASSUME UNCHANGED strand
  PROVE  /\ Queued(Reads)' <=> Queued(Reads)
         /\ Queued(Writes)' <=> Queued(Writes)
         /\ Queued(Written)' <=> Queued(Written)
         /\ Queued(Closings)' <=> Queued(Closings)
         /\ OnceIn(strand', Reads) <=> OnceIn(strand, Reads)
         /\ OnceIn(strand', Writes) <=> OnceIn(strand, Writes)
BY DEF Queued

\* Nothing but start() happens to a session before start().
LEMMA Begun ==
  ASSUME CloseInv, Network \/ Outside \/ Strand
  PROVE  phase # "new" /\ phase' = phase
<1>1. phase' = phase
  <2>1. CASE Network
    BY <2>1
    DEF Network, ReadCompletes, ReadFails, FastEnds, PutChunk, WriteCompletes,
        WriteFails, WriteEnds
  <2>2. CASE Outside
    BY <2>2 DEF Outside, KickChecks, CloserSets, KeepAliveTick, FastSend
  <2>3. CASE OnRoute
    BY <2>3
    DEF OnRoute, RouteSilently, RouteSends, RouteBroadcasts, SendQueues,
        RouteRejects
  <2>4. CASE Strand /\ ~OnRoute
    BY <2>4
    DEF Strand, HandleClose, HandleLeave, HandleFast, HandleEnter,
        HandleReadError, HandleHeader, HandleFrame, HandleFrameNoInbound,
        HandleWrite, HandleWriteError
  <2>5. QED
    BY <2>1, <2>2, <2>3, <2>4 DEF Strand
<1>2. ASSUME phase = "new"
      PROVE  FALSE
  <2> USE DEF CloseInv, Untouched
  <2>1. CASE Network
    BY <1>2, <2>1 DEF Network, ReadCompletes, ReadFails, FastEnds
  <2>2. CASE Outside
    BY <1>2, <2>2
    DEF Outside, KickChecks, CloserSets, KeepAliveTick, FastSend
  <2>3. CASE OnRoute
    BY <1>2, <2>3
    DEF OnRoute, RouteSilently, RouteSends, RouteBroadcasts, SendQueues,
        RouteRejects
  <2>4. CASE Strand /\ ~OnRoute
    BY <1>2, <2>4
    DEF Strand, HandleClose, HandleLeave, HandleFast, HandleEnter,
        HandleReadError, HandleHeader, HandleFrame, HandleFrameNoInbound,
        HandleWrite, HandleWriteError, Runs
  <2>5. QED
    BY <2>1, <2>2, <2>3, <2>4
<1>3. QED
  BY <1>1, <1>2

\* start() keeps the invariant: it marks the session connected before it arms
\* the read, so the session is never deaf.
LEMMA StartStep ==
  ASSUME TypeOK, CloseInv, ReadInv, WriteInv, Start
  PROVE  CloseInv' /\ ReadInv' /\ WriteInv'
<1> USE DEF TypeOK, ControlOK, FlagsOK, ioVars, sendVars, memberVars, runVars
<1>1. CASE StartArm
  <2>1. /\ phase' = "armed" /\ reading' = "header" /\ connected' /\ inbound'
        /\ open /\ open' = open /\ strand = <<>> /\ strand' = <<>>
        /\ outq' = <<>> /\ accepted' = 0 /\ writes' = {}
        /\ wire' = [frame |-> 0, chunk |-> Chunks]
    BY <1>1 DEF StartArm, CloseInv, Untouched
  <2>2. \A hs : ~QueuedIn(strand', hs) /\ OnceIn(strand', hs)
    BY <2>1, NothingQueued
  <2>3. CloseInv'
    BY <2>1, <2>2 DEF CloseInv, Untouched, ClosedIsDisconnected, Queued
  <2>4. ReadInv'
    BY <2>1, <2>2 DEF ReadInv, OneRead, NeverDeaf, Queued
  <2>5. OneWrite' /\ NeverMute' /\ (Queued(Writes) => outq # <<>>)'
    BY <2>1, <2>2 DEF OneWrite, NeverMute, Queued
  <2>6. QueueInOrder' /\ WireFollowsQueue'
    BY <2>1, <2>2 DEF QueueInOrder, WireFollowsQueue, Queued
  <2>7. QED
    BY <2>3, <2>4, <2>5, <2>6 DEF WriteInv
<1>2. CASE StartFails
  <2>1. strand' = Append(strand, Completion("close", TRUE))
    BY <1>2 DEF StartFails, Task, Completion
  <2>2. SameReads /\ SameWrites
    BY <1>2, <2>1, Pushed DEF StartFails, SameReads, SameWrites, Op
  <2>3. ~connected' /\ phase' # "new"
    BY <1>2 DEF StartFails, CloseInv, Untouched
  <2>4. QED
    BY <2>2, <2>3, CloseFrame, ReadFrame, WriteFrame DEF SameClosings
<1>3. CASE StartPost
  <2>1. strand' = Append(strand, Completion("enter", TRUE))
    BY <1>3 DEF StartPost, Task, Completion
  <2>2. /\ Queued(Reads)' <=> Queued(Reads)
        /\ Queued(Writes)' <=> Queued(Writes)
        /\ Queued(Written)' <=> Queued(Written)
        /\ Queued(Closings)' <=> Queued(Closings)
        /\ OnceIn(strand', Reads) <=> OnceIn(strand, Reads)
        /\ OnceIn(strand', Writes) <=> OnceIn(strand, Writes)
    BY <2>1, Pushed DEF Op
  <2>3. SameReads /\ SameWrites
    BY <1>3, <2>2 DEF StartPost, SameReads, SameWrites
  <2>4. SameClosings /\ phase' # "new"
    BY <1>3, <2>2 DEF StartPost, SameClosings
  <2>5. QED
    BY <2>3, <2>4, CloseFrame, ReadFrame, WriteFrame
<1>4. QED
  BY <1>1, <1>2, <1>3 DEF Start

\* Completions keep the invariant: a read or a write that ends is queued once,
\* and the piece of a packet that goes out follows the last one.
LEMMA NetworkStep ==
  ASSUME TypeOK, CloseInv, ReadInv, WriteInv, Network
  PROVE  CloseInv' /\ ReadInv' /\ WriteInv'
<1> USE DEF TypeOK, ControlOK, FlagsOK, SendOK, ioVars, sendVars, memberVars, runVars
<1>0. phase' # "new"
  BY Begun
<1>1. ASSUME NEW ok \in BOOLEAN, reading # "none", reading' = "none",
             strand' = Append(strand, Completion(reading, ok)),
             UNCHANGED <<connected, open, inbound, sendVars>>
      PROVE  CloseInv' /\ ReadInv' /\ WriteInv'
  <2>1. reading \in Op /\ reading \in {"header", "body"}
    BY <1>1 DEF Op
  <2>2. /\ Queued(Reads)'
        /\ ~Queued(Reads) /\ OnceIn(strand, Reads) => OnceIn(strand', Reads)
        /\ Queued(Writes)' <=> Queued(Writes)
        /\ OnceIn(strand', Writes) <=> OnceIn(strand, Writes)
        /\ Queued(Written)' <=> Queued(Written)
        /\ Queued(Closings)' <=> Queued(Closings)
    BY <1>1, <2>1, Pushed
  <2>3. SameClosings /\ SameWrites
    BY <1>1, <2>2 DEF SameClosings, SameWrites
  <2>4. ReadInv'
    BY <1>1, <2>2 DEF ReadInv, OneRead, NeverDeaf
  <2>5. QED
    BY <1>0, <2>3, <2>4, CloseFrame, WriteFrame
<1>2. CASE ReadCompletes \/ ReadFails
  BY <1>1, <1>2 DEF ReadCompletes, ReadFails
<1>3. CASE FastEnds
  <2>1. SameClosings /\ SameReads /\ SameWrites
    BY <1>3, StrandKept DEF FastEnds, SameClosings, SameReads, SameWrites
  <2>2. QED
    BY <1>0, <2>1, CloseFrame, ReadFrame, WriteFrame
<1>4. ASSUME NEW w \in writes, PutChunk(w)
      PROVE  CloseInv' /\ ReadInv' /\ WriteInv'
  <2>1. SameClosings /\ SameReads
    BY <1>4, StrandKept DEF PutChunk, SameClosings, SameReads
  <2>2. /\ w.pk \in Nat /\ w.left \in 1 .. Chunks
        /\ writes = {w}
    BY <1>4 DEF PutChunk, WriteInv, OneWrite, WriteOp
  <2>3. /\ writes' = {[pk |-> w.pk, left |-> w.left - 1]}
        /\ UNCHANGED <<outq, accepted, connected>>
        /\ wire' = [frame |-> w.pk, chunk |-> Chunks - w.left + 1]
    <3>1. w = [pk |-> w.pk, left |-> w.left]
      BY <1>4 DEF WriteOp
    <3>2. [w EXCEPT !.left = @ - 1] = [pk |-> w.pk, left |-> w.left - 1]
      BY <3>1
    <3>3. QED
      BY <1>4, <2>2, <3>2 DEF PutChunk
  <2>4. OneWrite' /\ NeverMute' /\ (Queued(Writes) => outq # <<>>)'
    BY <1>4, <2>2, <2>3, StrandKept DEF PutChunk, WriteInv, OneWrite, NeverMute
  <2>5. QueueInOrder'
    BY <2>3 DEF WriteInv, QueueInOrder
  <2>6. WireFollowsQueue'
    <3>1. ~Queued(Written)'
      <4>1. ~Queued(Writes)
        BY <2>2 DEF WriteInv, OneWrite
      <4>2. Written \subseteq Writes
        BY DEF Written, Writes, Completion
      <4>3. QED
        BY <1>4, <4>1, <4>2 DEF PutChunk, Queued, QueuedIn
    <3>2. outq' # <<>>
      BY <2>2, <2>3 DEF WriteInv, OneWrite
    <3>3. wire' = [frame |-> w.pk, chunk |-> Chunks - (w.left - 1)] /\ w.left - 1 < Chunks
      BY <2>2, <2>3, BoundAssumption DEF BoundAssumption
    <3>4. QED
      BY <2>3, <3>1, <3>2, <3>3 DEF WireFollowsQueue
  <2>7. QED
    BY <1>0, <2>1, <2>4, <2>5, <2>6, CloseFrame, ReadFrame DEF WriteInv
<1>5. ASSUME NEW w \in writes, NEW ok \in BOOLEAN, WriteEnds(w, ok), ok => w.left = 0
      PROVE  CloseInv' /\ ReadInv' /\ WriteInv'
  <2>1. strand' = Append(strand, Completion("write", ok)) /\ "write" \in Op
    BY <1>5 DEF WriteEnds, Op
  <2>2. /\ Queued(Writes)'
        /\ ~Queued(Writes) /\ OnceIn(strand, Writes) => OnceIn(strand', Writes)
        /\ Queued(Reads)' <=> Queued(Reads)
        /\ OnceIn(strand', Reads) <=> OnceIn(strand, Reads)
        /\ Queued(Written)' <=> Queued(Written) \/ ok
        /\ Queued(Closings)' <=> Queued(Closings)
    BY <2>1, Pushed
  <2>3. SameClosings /\ SameReads
    BY <1>5, <2>2 DEF WriteEnds, SameClosings, SameReads
  <2>4. /\ UNCHANGED <<outq, accepted, wire, connected>>
        /\ outq # <<>> /\ w.pk = Head(outq) /\ writes' = {} /\ ~Queued(Writes)
    BY <1>5 DEF WriteEnds, WriteInv, OneWrite
  <2>5. OneWrite' /\ NeverMute' /\ (Queued(Writes) => outq # <<>>)'
    BY <2>2, <2>4 DEF WriteInv, OneWrite, NeverMute
  <2>6. QueueInOrder'
    BY <2>4 DEF WriteInv, QueueInOrder
  <2>7. WireFollowsQueue'
    <3>1. ~Queued(Written)
      <4>1. Written \subseteq Writes
        BY DEF Written, Writes, Completion
      <4>2. QED
        BY <2>4, <4>1 DEF Queued, QueuedIn
    <3>2. ok => wire = [frame |-> w.pk, chunk |-> Chunks]
      BY <1>5, BoundAssumption DEF WriteInv, WireFollowsQueue, BoundAssumption
    <3>3. QED
      BY <2>2, <2>4, <3>1, <3>2 DEF WireFollowsQueue
  <2>8. QED
    BY <1>0, <2>3, <2>5, <2>6, <2>7, CloseFrame, ReadFrame DEF WriteInv
<1>6. QED
  BY <1>2, <1>3, <1>4, <1>5 DEF Network, WriteCompletes, WriteFails

\* Closers outside the strand keep the invariant: they clear _is_connected
\* before the lambda that closes the socket can run.
LEMMA OutsideStep ==
  ASSUME TypeOK, CloseInv, ReadInv, WriteInv, Outside
  PROVE  CloseInv' /\ ReadInv' /\ WriteInv'
<1> USE DEF TypeOK, ControlOK, FlagsOK, ioVars, sendVars, memberVars, runVars
<1>0. phase' # "new"
  BY Begun
<1>1. ASSUME UNCHANGED <<connected, open, strand, ioVars, sendVars>>
      PROVE  CloseInv' /\ ReadInv' /\ WriteInv'
  <2>1. SameClosings /\ SameReads /\ SameWrites
    BY <1>1, StrandKept DEF SameClosings, SameReads, SameWrites
  <2>2. QED
    BY <1>0, <2>1, CloseFrame, ReadFrame, WriteFrame
<1>2. CASE KeepAliveTick \/ \E k \in Kicker : KickChecks(k)
  BY <1>1, <1>2 DEF KeepAliveTick, KickChecks
<1>3. ASSUME NEW op \in {"close", "fast"}, strand' = Append(strand, Task(op)),
             UNCHANGED <<open, ioVars, outq, writes, accepted, wire>>,
             connected' => connected, op = "close" => ~connected'
      PROVE  CloseInv' /\ ReadInv' /\ WriteInv'
  <2>1. op \in Op /\ strand' = Append(strand, Completion(op, TRUE))
    BY <1>3 DEF Op, Task, Completion
  <2>2. /\ Queued(Reads)' <=> Queued(Reads)
        /\ OnceIn(strand', Reads) <=> OnceIn(strand, Reads)
        /\ Queued(Writes)' <=> Queued(Writes)
        /\ OnceIn(strand', Writes) <=> OnceIn(strand, Writes)
        /\ Queued(Written)' <=> Queued(Written)
        /\ op = "fast" => (Queued(Closings)' <=> Queued(Closings))
    BY <2>1, Pushed
  <2>3. SameClosings /\ SameReads /\ SameWrites
    BY <1>3, <2>2 DEF SameClosings, SameReads, SameWrites
  <2>4. QED
    BY <1>0, <2>3, CloseFrame, ReadFrame, WriteFrame
<1>4. CASE FastSend
  BY <1>3, <1>4 DEF FastSend
<1>5. CASE \E c \in Closer : CloserSets(c)
  BY <1>3, <1>5 DEF CloserSets
<1>6. QED
  BY <1>2, <1>4, <1>5 DEF Outside

\* on_close on the strand: whatever was queued stays queued, the session is
\* disconnected, and on_user_leave follows if it was connected.
LEMMA OnCloseEffect ==
  ASSUME NEW rest \in Seq(Handler), TypeOK, OnClose(rest)
  PROVE  /\ ~connected'
         /\ Queued(Reads)' <=> QueuedIn(rest, Reads)
         /\ OnceIn(strand', Reads) <=> OnceIn(rest, Reads)
         /\ Queued(Writes)' <=> QueuedIn(rest, Writes)
         /\ OnceIn(strand', Writes) <=> OnceIn(rest, Writes)
         /\ Queued(Written)' <=> QueuedIn(rest, Written)
<1>1. ~connected'
  BY DEF OnClose
<1>2. CASE ~connected
  BY <1>1, <1>2 DEF OnClose, Queued
<1>3. CASE connected
  <2> DEFINE h == Task("leave")
  <2>1. h \in Handler /\ h.op = "leave"
    BY DEF Task, Handler, Op
  <2> HIDE DEF h
  <2>2. h \notin Reads /\ h \notin Writes /\ h \notin Written
    BY <2>1, Classes
  <2>3. strand' = Append(rest, h)
    BY <1>3 DEF OnClose, h
  <2>4. \A hs : /\ QueuedIn(strand', hs) <=> QueuedIn(rest, hs) \/ h \in hs
                /\ OnceIn(strand', hs) <=>
                     OnceIn(rest, hs) /\ (h \in hs => ~QueuedIn(rest, hs))
    BY <2>1, <2>3, AppendQueued
  <2>5. QED
    BY <1>1, <2>2, <2>4 DEF Queued
<1>4. QED
  BY <1>2, <1>3

\* on_route's steps keep the invariant: a packet is written at once only if the
\* queue was empty, and then it is the packet in front.
LEMMA RouteStep ==
  ASSUME TypeOK, CloseInv, ReadInv, WriteInv, OnRoute
  PROVE  CloseInv' /\ ReadInv' /\ WriteInv'
<1> USE DEF TypeOK, ControlOK, FlagsOK, SendOK, ioVars, sendVars, memberVars, runVars
<1>0. phase' # "new"
  BY Begun DEF Strand
<1>1. ASSUME UNCHANGED <<connected, open, strand, ioVars, outq, writes, accepted, wire>>
      PROVE  CloseInv' /\ ReadInv' /\ WriteInv'
  <2>1. SameClosings /\ SameReads /\ SameWrites
    BY <1>1, StrandKept DEF SameClosings, SameReads, SameWrites
  <2>2. QED
    BY <1>0, <2>1, CloseFrame, ReadFrame, WriteFrame
<1>2. CASE RouteBroadcasts \/ \E ok \in BOOLEAN : RouteSilently(ok) \/ RouteSends(ok)
  BY <1>1, <1>2 DEF RouteSilently, RouteSends, RouteBroadcasts
<1>3. CASE SendQueues
  <2>1. SameClosings /\ SameReads
    BY <1>3, StrandKept DEF SendQueues, SameClosings, SameReads
  <2>2. /\ outq' = Append(outq, accepted + 1)
        /\ accepted' = accepted + 1
        /\ UNCHANGED <<connected, strand, wire>>
        /\ Queued(Writes)' <=> Queued(Writes)
        /\ Queued(Written)' <=> Queued(Written)
    BY <1>3, StrandKept DEF SendQueues
  <2>3. /\ outq' # <<>>
        /\ Len(outq') = Len(outq) + 1
        /\ \A i \in 1 .. Len(outq) : outq'[i] = outq[i]
        /\ outq'[Len(outq) + 1] = accepted + 1
        /\ Head(outq') = outq'[1]
        /\ outq # <<>> => Head(outq') = Head(outq)
        /\ Len(outq) \in Nat
    BY <2>2
  <2>4. QueueInOrder'
    <3>1. /\ Len(outq) <= accepted
          /\ \A i \in 1 .. Len(outq) : outq[i] = (accepted - Len(outq)) + i
      BY DEF WriteInv, QueueInOrder
    <3>2. accepted' - Len(outq') = accepted - Len(outq) /\ Len(outq') <= accepted'
      BY <2>2, <2>3, <3>1
    <3>3. ASSUME NEW i \in 1 .. Len(outq')
          PROVE  outq'[i] = (accepted' - Len(outq')) + i
      <4>1. CASE i \in 1 .. Len(outq)
        BY <2>3, <3>1, <3>2, <4>1
      <4>2. CASE i = Len(outq) + 1
        BY <2>3, <3>1, <3>2, <4>2
      <4>3. QED
        BY <2>3, <4>1, <4>2
    <3>4. QED
      BY <3>2, <3>3 DEF QueueInOrder
  <2>5. CASE outq = <<>> /\ connected
    <3> DEFINE q == QueuedWrite(accepted + 1)
    <3>1. /\ q.pk = accepted + 1
          /\ q.left = Chunks
          /\ Head(outq') = accepted + 1
      BY <2>3, <2>5 DEF QueuedWrite
    <3> HIDE DEF q
    <3>2. writes' = {q} /\ ~Queued(Writes) /\ wire = [frame |-> accepted, chunk |-> Chunks]
      <4>1. writes = {}
        BY <2>5 DEF WriteInv, OneWrite
      <4>2. writes' = writes \union {q}
        BY <1>3, <2>5 DEF SendQueues, q
      <4>3. QED
        BY <2>5, <4>1, <4>2 DEF WriteInv, WireFollowsQueue
    <3>3. OneWrite' /\ NeverMute' /\ (Queued(Writes) => outq # <<>>)'
      BY <2>2, <2>3, <3>1, <3>2 DEF WriteInv, OneWrite, NeverMute
    <3>4. ~Queued(Written)
      <4>1. Written \subseteq Writes
        BY DEF Written, Writes, Completion
      <4>2. QED
        BY <3>2, <4>1 DEF Queued, QueuedIn
    <3>5. q.pk - 1 = accepted /\ ~(q.left < Chunks)
      BY <3>1, BoundAssumption DEF BoundAssumption
    <3>6. WireFollowsQueue'
      BY <2>2, <2>3, <3>2, <3>4, <3>5 DEF WireFollowsQueue
    <3>7. QED
      BY <1>0, <2>1, <2>4, <3>3, <3>6, CloseFrame, ReadFrame DEF WriteInv
  <2>6. CASE ~(outq = <<>> /\ connected)
    <3>1. writes' = writes
      BY <1>3, <2>6 DEF SendQueues
    <3>2. writes # {} \/ Queued(Writes) => outq # <<>>
      BY DEF WriteInv, OneWrite
    <3>3. OneWrite' /\ NeverMute' /\ (Queued(Writes) => outq # <<>>)'
      BY <2>2, <2>3, <2>6, <3>1, <3>2 DEF WriteInv, OneWrite, NeverMute
    <3>4. WireFollowsQueue'
      BY <2>2, <2>3, <3>1, <3>2 DEF WriteInv, WireFollowsQueue
    <3>5. QED
      BY <1>0, <2>1, <2>4, <3>3, <3>4, CloseFrame, ReadFrame DEF WriteInv
  <2>7. QED
    BY <2>5, <2>6
<1>4. CASE RouteRejects
  <2>1. OnClose(strand) /\ UNCHANGED <<reading, inbound, outq, writes, accepted, wire>>
    BY <1>4 DEF RouteRejects
  <2>2. SameClosings /\ SameReads /\ SameWrites
    BY <2>1, OnCloseEffect DEF SameClosings, SameReads, SameWrites, Queued
  <2>3. QED
    BY <1>0, <2>2, CloseFrame, ReadFrame, WriteFrame
<1>5. QED
  BY <1>2, <1>3, <1>4 DEF OnRoute

\* The handlers on the strand keep the invariant: a read is armed only by the
\* handler of the read before it, a write only by that of the write before it.
LEMMA HandlerStep ==
  ASSUME TypeOK, CloseInv, ReadInv, WriteInv, Strand, ~OnRoute
  PROVE  CloseInv' /\ ReadInv' /\ WriteInv'
<1> USE DEF TypeOK, ControlOK, FlagsOK, SendOK, ioVars, sendVars, memberVars, runVars
<1>0. phase' # "new"
  BY Begun
<1> DEFINE s == Tail(strand)
<1>a. strand # <<>>
  BY DEF Strand, HandleClose, HandleLeave, HandleFast, HandleEnter, Runs,
         HandleReadError, HandleHeader, HandleFrame, HandleFrameNoInbound,
         HandleWrite, HandleWriteError
<1>b. LET op == Head(strand).op IN
      /\ s \in Seq(Handler)
      /\ Queued(Reads) <=> QueuedIn(s, Reads) \/ op \in {"header", "body"}
      /\ OnceIn(strand, Reads) =>
           /\ OnceIn(s, Reads)
           /\ op \in {"header", "body"} => ~QueuedIn(s, Reads)
      /\ Queued(Writes) <=> QueuedIn(s, Writes) \/ op = "write"
      /\ OnceIn(strand, Writes) =>
           OnceIn(s, Writes) /\ (op = "write" => ~QueuedIn(s, Writes))
      /\ Queued(Written) <=>
           QueuedIn(s, Written) \/ (op = "write" /\ Head(strand).ok)
      /\ Queued(Closings) <=> QueuedIn(s, Closings) \/ op \in {"close", "leave"}
  BY <1>a, Popped
<1> HIDE DEF s
<1>c. ASSUME strand' = s
      PROVE  /\ Queued(Reads)' <=> QueuedIn(s, Reads)
             /\ Queued(Writes)' <=> QueuedIn(s, Writes)
             /\ Queued(Written)' <=> QueuedIn(s, Written)
             /\ Queued(Closings)' <=> QueuedIn(s, Closings)
  BY <1>c DEF Queued
<1>1. CASE HandleClose
  <2>1. /\ strand' = Append(Tail(strand), Task("leave"))
        /\ Head(strand).op = "close"
        /\ UNCHANGED <<connected, reading, inbound, outq, writes, accepted, wire>>
    BY <1>1 DEF HandleClose, Runs
  <2>2. ~connected'
    BY <1>b, <2>1 DEF CloseInv, ClosedIsDisconnected
  <2>3. SameReads /\ SameWrites
    BY <1>a, <1>b, <2>1, PoppedThenLeave DEF SameReads, SameWrites, s
  <2>4. QED
    BY <1>0, <2>2, <2>3, CloseFrame, ReadFrame, WriteFrame DEF SameClosings
<1>2. ASSUME strand' = s, Head(strand).op \notin {"header", "body", "write"},
             UNCHANGED <<connected, open, reading, inbound, outq, writes, accepted, wire>>
      PROVE  CloseInv' /\ ReadInv' /\ WriteInv'
  <2>1. SameReads /\ SameWrites /\ SameClosings
    BY <1>b, <1>c, <1>2 DEF SameReads, SameWrites, SameClosings
  <2>2. QED
    BY <1>0, <2>1, CloseFrame, ReadFrame, WriteFrame
<1>3. CASE HandleLeave \/ HandleFast \/ \E refused \in BOOLEAN : HandleEnter(refused)
  BY <1>2, <1>3 DEF HandleLeave, HandleFast, HandleEnter, NoClose, Runs, s
<1>4. ASSUME Head(strand).op \in {"header", "body"}, OnClose(s), reading' = reading,
             UNCHANGED <<outq, writes, accepted, wire>>
      PROVE  CloseInv' /\ ReadInv' /\ WriteInv'
  <2>1. /\ ~connected'
        /\ ~Queued(Reads)' /\ OnceIn(strand', Reads) /\ reading' = "none"
        /\ Queued(Writes)' <=> Queued(Writes)
        /\ OnceIn(strand, Writes) => OnceIn(strand', Writes)
        /\ Queued(Written)' <=> Queued(Written)
    BY <1>b, <1>4, OnCloseEffect DEF ReadInv, OneRead
  <2>2. SameClosings /\ SameWrites
    BY <1>4, <2>1 DEF SameClosings, SameWrites
  <2>3. ReadInv'
    BY <2>1 DEF ReadInv, OneRead, NeverDeaf
  <2>4. QED
    BY <1>0, <2>2, <2>3, CloseFrame, WriteFrame
<1>5. CASE HandleReadError \/ \E op \in {"header", "body"} : HandleFrameNoInbound(op)
  BY <1>4, <1>5 DEF HandleReadError, HandleFrameNoInbound, Runs, s
<1>6. ASSUME Head(strand).op \in {"header", "body"}, inbound, strand' = s,
             connected => reading' # "none",
             ~connected => reading' = "none",
             UNCHANGED <<connected, open, inbound, outq, writes, accepted, wire>>
      PROVE  CloseInv' /\ ReadInv' /\ WriteInv'
  <2>1. /\ ~Queued(Reads)' /\ OnceIn(strand', Reads)
        /\ Queued(Writes)' <=> Queued(Writes)
        /\ OnceIn(strand, Writes) => OnceIn(strand', Writes)
        /\ Queued(Written)' <=> Queued(Written)
        /\ Queued(Closings)' <=> Queued(Closings)
    BY <1>b, <1>c, <1>6 DEF ReadInv, OneRead
  <2>2. SameClosings /\ SameWrites
    BY <1>6, <2>1 DEF SameClosings, SameWrites
  <2>3. ReadInv'
    BY <1>6, <2>1 DEF ReadInv, OneRead, NeverDeaf
  <2>4. QED
    BY <1>0, <2>2, <2>3, CloseFrame, WriteFrame
<1>7. CASE HandleHeader \/ \E op \in {"header", "body"} : HandleFrame(op)
  BY <1>6, <1>7 DEF HandleHeader, HandleFrame, NoClose, Runs, s
<1>8. CASE HandleWrite
  <2>1. /\ Head(strand).op = "write" /\ Head(strand).ok /\ outq # <<>>
        /\ strand' = s
        /\ outq' = Tail(outq)
        /\ UNCHANGED <<connected, open, reading, inbound, accepted, wire>>
    BY <1>8 DEF HandleWrite, NoClose, Runs, s
  <2>2. SameClosings /\ SameReads
    BY <1>b, <1>c, <2>1 DEF SameClosings, SameReads
  <2>3. ~Queued(Writes)' /\ ~Queued(Written)' /\ OnceIn(strand', Writes) /\ writes = {}
    <3>1. OnceIn(strand, Writes) /\ Queued(Writes) /\ writes = {}
      BY <1>b, <2>1 DEF WriteInv, OneWrite
    <3>2. ~QueuedIn(s, Writes) /\ OnceIn(s, Writes)
      BY <1>b, <2>1, <3>1
    <3>3. Written \subseteq Writes
      BY DEF Written, Writes, Completion
    <3>4. QED
      BY <1>c, <2>1, <3>1, <3>2, <3>3 DEF Queued, QueuedIn
  <2>4. /\ Len(outq') = Len(outq) - 1 /\ Len(outq) \in Nat \ {0}
        /\ \A i \in 1 .. Len(outq') : outq'[i] = outq[i + 1]
        /\ outq' # <<>> <=> Len(outq) > 1
        /\ outq' # <<>> => Head(outq') = outq'[1]
        /\ Head(outq) = outq[1]
        /\ outq' \in Seq(Nat)
    <3>1. outq \in Seq(Nat) /\ outq # <<>>
      BY <2>1
    <3>2. Len(outq) \in Nat \ {0} /\ Head(outq) = outq[1]
      BY <3>1
    <3>3. outq' \in Seq(Nat) /\ Len(outq') = Len(outq) - 1
      BY <2>1, <3>1
    <3>4. \A i \in 1 .. Len(outq') : outq'[i] = outq[i + 1]
      BY <2>1, <3>1, <3>3
    <3>5. outq' # <<>> <=> Len(outq) > 1
      BY <3>2, <3>3
    <3>6. outq' # <<>> => Head(outq') = outq'[1]
      BY <3>3
    <3>7. QED
      BY <3>2, <3>3, <3>4, <3>5, <3>6
  <2>5. /\ Len(outq) <= accepted
        /\ \A i \in 1 .. Len(outq) : outq[i] = (accepted - Len(outq)) + i
    BY DEF WriteInv, QueueInOrder
  <2>6. QueueInOrder'
    <3>1. Len(outq') <= accepted' /\ accepted' = accepted
      BY <2>1, <2>4, <2>5
    <3>2. ASSUME NEW i \in 1 .. Len(outq')
          PROVE  outq'[i] = (accepted' - Len(outq')) + i
      <4>1. i + 1 \in 1 .. Len(outq) /\ outq'[i] = outq[i + 1]
        BY <2>4
      <4>2. QED
        BY <2>4, <2>5, <3>1, <4>1
    <3>3. QED
      BY <3>1, <3>2 DEF QueueInOrder
  <2>7. wire = [frame |-> Head(outq), chunk |-> Chunks]
    BY <1>b, <2>1 DEF WriteInv, WireFollowsQueue
  <2>8. Head(outq) = accepted - Len(outq) + 1
    BY <2>4, <2>5
  <2>9. CASE outq' # <<>> /\ connected
    <3> DEFINE q == QueuedWrite(Head(outq'))
    <3>1. /\ q.pk = Head(outq')
          /\ q.left = Chunks
      BY DEF QueuedWrite
    <3>2. writes' = writes \union {q}
      BY <1>8, <2>9 DEF HandleWrite
    <3> HIDE DEF q
    <3>3. writes' = {q}
      BY <2>3, <3>2
    <3>4. Head(outq') = Head(outq) + 1
      <4>1. 1 \in 1 .. Len(outq') /\ 2 \in 1 .. Len(outq)
        BY <2>4, <2>9
      <4>2. Head(outq') = outq[2]
        BY <2>4, <2>9, <4>1
      <4>3. outq[2] = (accepted - Len(outq)) + 2
        BY <2>5, <4>1
      <4>4. QED
        BY <2>4, <2>8, <4>2, <4>3
    <3>5. q.pk - 1 = Head(outq) /\ ~(q.left < Chunks)
      BY <2>4, <2>5, <2>8, <3>1, <3>4, BoundAssumption DEF BoundAssumption
    <3>6. OneWrite' /\ NeverMute' /\ (Queued(Writes) => outq # <<>>)'
      BY <2>3, <2>9, <3>1, <3>3 DEF OneWrite, NeverMute
    <3>7. WireFollowsQueue'
      BY <2>1, <2>3, <2>7, <2>9, <3>3, <3>5 DEF WireFollowsQueue
    <3>8. QED
      BY <1>0, <2>2, <2>6, <3>6, <3>7, CloseFrame, ReadFrame DEF WriteInv
  <2>10. CASE ~(outq' # <<>> /\ connected)
    <3>1. writes' = {}
      BY <1>8, <2>3, <2>10 DEF HandleWrite
    <3>2. OneWrite' /\ NeverMute' /\ (Queued(Writes) => outq # <<>>)'
      BY <2>1, <2>3, <2>10, <3>1 DEF OneWrite, NeverMute
    <3>3. outq' = <<>> => Head(outq) = accepted
      BY <2>4, <2>8
    <3>4. WireFollowsQueue'
      BY <2>1, <2>3, <2>7, <2>10, <3>1, <3>3 DEF WireFollowsQueue
    <3>5. QED
      BY <1>0, <2>2, <2>6, <3>2, <3>4, CloseFrame, ReadFrame DEF WriteInv
  <2>11. QED
    BY <2>9, <2>10
<1>9. CASE HandleWriteError
  <2>1. /\ Head(strand).op = "write" /\ outq # <<>> /\ outq' = Tail(outq)
        /\ OnClose(s)
        /\ UNCHANGED <<reading, inbound, writes, accepted, wire>>
    BY <1>9, <1>b DEF HandleWriteError, Runs, s, WriteInv
  <2>2. ~connected' /\ SameReads
    BY <1>b, <2>1, OnCloseEffect DEF SameReads
  <2>3. ~Queued(Writes)' /\ ~Queued(Written)' /\ OnceIn(strand', Writes) /\ writes' = {}
    <3>1. OnceIn(strand, Writes) /\ Queued(Writes) /\ writes = {}
      BY <1>b, <2>1 DEF WriteInv, OneWrite
    <3>2. ~QueuedIn(s, Writes) /\ OnceIn(s, Writes)
      BY <1>b, <2>1, <3>1
    <3>3. ~QueuedIn(s, Written)
      <4>1. Written \subseteq Writes
        BY DEF Written, Writes, Completion
      <4>2. QED
        BY <3>2, <4>1 DEF QueuedIn
    <3>4. QED
      BY <1>b, <2>1, <3>1, <3>2, <3>3, OnCloseEffect
  <2>4. QueueInOrder'
    <3>1. /\ Len(outq') = Len(outq) - 1 /\ Len(outq) \in Nat \ {0}
          /\ \A i \in 1 .. Len(outq') : outq'[i] = outq[i + 1]
      BY <2>1
    <3>2. /\ Len(outq) <= accepted
          /\ \A i \in 1 .. Len(outq) : outq[i] = (accepted - Len(outq)) + i
      BY DEF WriteInv, QueueInOrder
    <3>3. Len(outq') <= accepted' /\ accepted' = accepted
      BY <2>1, <3>1, <3>2
    <3>4. ASSUME NEW i \in 1 .. Len(outq')
          PROVE  outq'[i] = (accepted' - Len(outq')) + i
      <4>1. outq'[i] = outq[i + 1]
        BY <3>1
      <4>2. i + 1 \in 1 .. Len(outq)
        BY <3>1, <3>4
      <4>3. QED
        BY <3>1, <3>2, <3>3, <4>1, <4>2
    <3>5. QED
      BY <3>3, <3>4 DEF QueueInOrder
  <2>5. OneWrite' /\ NeverMute' /\ (Queued(Writes) => outq # <<>>)' /\ WireFollowsQueue'
    BY <2>2, <2>3 DEF OneWrite, NeverMute, WireFollowsQueue
  <2>6. QED
    BY <1>0, <2>2, <2>4, <2>5, CloseFrame, ReadFrame DEF WriteInv, SameClosings
<1>10. QED
  BY <1>1, <1>3, <1>5, <1>7, <1>8, <1>9 DEF Strand

-----------------------------------------------------------------------------
\* Every reachable state of a session satisfies the inductive invariant: the
\* order in which reads, writes and closes meet on the strand never matters.
THEOREM Invariance == Spec => []IInv
<1>1. TypeOK /\ IInv /\ [Next]_vars => IInv'
  <2> SUFFICES ASSUME TypeOK, CloseInv, ReadInv, WriteInv, [Next]_vars
               PROVE  CloseInv' /\ ReadInv' /\ WriteInv'
    BY IInvParts
  <2>1. CASE Start
    BY <2>1, StartStep
  <2>2. CASE Network
    BY <2>2, NetworkStep
  <2>3. CASE Outside
    BY <2>3, OutsideStep
  <2>4. CASE OnRoute
    BY <2>4, RouteStep
  <2>5. CASE Strand /\ ~OnRoute
    BY <2>5, HandlerStep
  <2>6. CASE UNCHANGED vars
    <3>1. UNCHANGED <<phase, connected, open, strand, closer, reading, inbound,
                      outq, writes, accepted, fasting, wire, member, pc>>
      BY <2>6 DEF vars, ioVars, sendVars, memberVars, runVars
    <3>2. CloseInv'
      BY <3>1 DEF CloseInv, Untouched, ClosedIsDisconnected, Queued
    <3>3. SameReads /\ SameWrites
      BY <3>1, StrandKept DEF SameReads, SameWrites
    <3>4. QED
      BY <3>2, <3>3, ReadFrame, WriteFrame
  <2>7. QED
    BY <2>1, <2>2, <2>3, <2>4, <2>5, <2>6 DEF Next
<1>2. QED
  BY <1>1, InitIInv, TypeCorrect, PTL DEF Spec

\* read_header and read_body never run two reads at once.
THEOREM Reading == Spec => []OneRead
<1>1. IInv => OneRead
  BY DEF IInv
<1>2. QED
  BY <1>1, Invariance, PTL

\* A session that is connected always has a read under way or completed, so
\* that it notices when its peer goes away.
THEOREM Listening == Spec => []NeverDeaf
<1>1. IInv => NeverDeaf
  BY DEF IInv
<1>2. QED
  BY <1>1, Invariance, PTL

\* on_send and write() never run two writes at once, and complete the packet
\* at the front of _outbound_q.
THEOREM Writing == Spec => []OneWrite
<1>1. IInv => OneWrite
  BY DEF IInv
<1>2. QED
  BY <1>1, Invariance, PTL

\* A connected session never forgets a packet that waits in _outbound_q.
THEOREM Sending == Spec => []NeverMute
<1>1. IInv => NeverMute
  BY DEF IInv
<1>2. QED
  BY <1>1, Invariance, PTL

\* The branches of the completion handlers that log fatal are dead code.
THEOREM FatalUnreachable == Spec => []NeverFatal
<1>1. IInv => NeverFatal
  BY DEF IInv
<1>2. QED
  BY <1>1, Invariance, PTL

-----------------------------------------------------------------------------
\* A connected session's socket is open.
LEMMA ConnectedIsOpen == IInv => (connected => open)
BY DEF IInv, ClosedIsDisconnected

\* Starting an operation: what StartsOnOpenSocket looks for in a step.
Begins == \/ reading = "none" /\ reading' # "none"
          \/ \E w \in writes' : w.left = Chunks /\ w \notin writes
          \/ fasting' > fasting

\* start(), read_header, read_body, write(), on_send and on_fast_send start
\* operations on the socket only while it is open.
THEOREM OpenSocket == Spec => StartsOnOpenSocket
<1> USE DEF Begins, ioVars, sendVars, memberVars, runVars
<1>1. TypeOK /\ IInv /\ [Next]_vars => (Begins => open)
  <2> SUFFICES ASSUME TypeOK, IInv, [Next]_vars, Begins
               PROVE  open
    OBVIOUS
  <2>0. connected => open
    BY ConnectedIsOpen
  <2>1. fasting \in Nat /\ Chunks \in Nat /\ ~(fasting > fasting)
    BY BoundAssumption DEF BoundAssumption, TypeOK, SendOK
  <2>2. CASE Start
    BY <2>1, <2>2 DEF Start, StartArm, StartFails, StartPost, IInv, Untouched
  <2>3. CASE Network
    <3>1. CASE ReadCompletes \/ ReadFails
      BY <2>1, <3>1 DEF ReadCompletes, ReadFails
    <3>2. CASE FastEnds
      BY <2>1, <3>2 DEF FastEnds
    <3>3. ASSUME NEW w \in writes, PutChunk(w)
          PROVE  open
      BY <3>3 DEF PutChunk
    <3>4. ASSUME NEW w \in writes, NEW ok \in BOOLEAN, WriteEnds(w, ok)
          PROVE  open
      BY <2>1, <3>4 DEF WriteEnds
    <3>5. QED
      BY <2>3, <3>1, <3>2, <3>3, <3>4 DEF Network, WriteCompletes, WriteFails
  <2>4. CASE Outside
    BY <2>1, <2>4 DEF Outside, KickChecks, CloserSets, KeepAliveTick, FastSend
  <2>5. CASE OnRoute
    BY <2>0, <2>1, <2>5
    DEF OnRoute, RouteSilently, RouteSends, RouteBroadcasts, SendQueues, RouteRejects
  <2>6. CASE HandleClose \/ HandleLeave \/ HandleFast
             \/ \E refused \in BOOLEAN : HandleEnter(refused)
    BY <2>0, <2>1, <2>6 DEF HandleClose, HandleLeave, HandleFast, HandleEnter
  <2>7. CASE HandleReadError \/ HandleHeader
    BY <2>0, <2>1, <2>7 DEF HandleReadError, HandleHeader
  <2>8. ASSUME NEW op \in {"header", "body"},
               HandleFrame(op) \/ HandleFrameNoInbound(op)
        PROVE  open
    BY <2>0, <2>1, <2>8 DEF HandleFrame, HandleFrameNoInbound
  <2>9. CASE HandleWrite \/ HandleWriteError
    BY <2>0, <2>1, <2>9 DEF HandleWrite, HandleWriteError
  <2>10. CASE UNCHANGED vars
    BY <2>1, <2>10 DEF vars
  <2>11. QED
    BY <2>2, <2>3, <2>4, <2>5, <2>6, <2>7, <2>8, <2>9, <2>10 DEF Next, Strand
<1>2. TypeOK /\ IInv /\ [Next]_vars =>
        [Begins => open]_vars
  BY <1>1
<1>3. Spec => [][Begins => open]_vars
  BY <1>2, Invariance, TypeCorrect, PTL DEF Spec
<1>4. QED
  BY <1>3 DEF StartsOnOpenSocket

-----------------------------------------------------------------------------
\* A piece goes out: it is the one that follows what the wire carried last.
LEMMA PieceFollows ==
  ASSUME TypeOK, IInv, NEW w \in writes, PutChunk(w)
  PROVE  Stream!SendPiece
<1> USE BoundAssumption DEF BoundAssumption, sendVars
<1>1. /\ open /\ w.left > 0 /\ w.left \in 0 .. Chunks /\ w.pk \in Nat
      /\ wire' = [frame |-> w.pk, chunk |-> (Chunks - w.left) + 1]
      /\ UNCHANGED <<accepted, open, outq>>
  BY DEF PutChunk, TypeOK, SendOK, WriteOp
<1>2. /\ wire \in [frame : Nat, chunk : 0 .. Chunks]
      /\ outq \in Seq(Nat)
  BY DEF TypeOK, SendOK
<1>3. /\ outq # <<>> /\ w.pk = Head(outq)
      /\ Len(outq) <= accepted
      /\ \A i \in 1 .. Len(outq) : outq[i] = (accepted - Len(outq)) + i
  BY DEF IInv, OneWrite, QueueInOrder
<1>4. w.pk <= accepted
  <2>1. Len(outq) \in Nat \ {0} /\ Head(outq) = outq[1]
    BY <1>2, <1>3
  <2>2. outq[1] = (accepted - Len(outq)) + 1 /\ accepted \in Nat
    BY <1>3, <2>1 DEF TypeOK, SendOK
  <2>3. QED
    BY <1>3, <2>1, <2>2
<1>5. wire' = Stream!Following /\ Stream!Following.frame <= accepted
  <2>1. CASE w.left < Chunks
    <3>1. wire = [frame |-> w.pk, chunk |-> Chunks - w.left]
      BY <2>1 DEF IInv, WireFollowsQueue
    <3>2. wire.chunk < Chunks
      BY <1>1, <2>1, <3>1
    <3>3. Stream!Following = [frame |-> w.pk, chunk |-> (Chunks - w.left) + 1]
      BY <1>1, <3>1, <3>2 DEF Stream!Following
    <3>4. QED
      BY <1>1, <1>4, <3>3
  <2>2. CASE ~(w.left < Chunks)
    <3>1. wire = [frame |-> w.pk - 1, chunk |-> Chunks] /\ w.left = Chunks
      BY <1>1, <2>2 DEF IInv, WireFollowsQueue
    <3>2. Stream!Following = [frame |-> (w.pk - 1) + 1, chunk |-> 1]
      BY <3>1 DEF Stream!Following
    <3>3. (w.pk - 1) + 1 = w.pk /\ (Chunks - w.left) + 1 = 1
      BY <1>1, <3>1
    <3>4. QED
      BY <1>1, <1>4, <3>2, <3>3
  <2>3. QED
    BY <2>1, <2>2
<1>6. QED
  BY <1>1, <1>5 DEF Stream!SendPiece

\* Steps that leave the packets alone can only break the stream, or stutter.
LEMMA BreakOrStutter ==
  ASSUME open \in BOOLEAN, open' \in BOOLEAN, open' => open,
         UNCHANGED <<accepted, wire>>
  PROVE  Stream!Break \/ UNCHANGED <<accepted, wire, ~open>>
BY DEF Stream!Break

\* The socket is never opened again.
LEMMA NeverReopens ==
  ASSUME [Next]_vars
  PROVE  open' => open
<1> USE DEF ioVars, sendVars, memberVars, runVars, OnClose, NoClose
<1>1. CASE Start
  BY <1>1 DEF Start, StartArm, StartFails, StartPost
<1>2. CASE Network
  BY <1>2
  DEF Network, ReadCompletes, ReadFails, FastEnds, PutChunk, WriteCompletes,
      WriteFails, WriteEnds
<1>3. CASE Outside
  BY <1>3 DEF Outside, KickChecks, CloserSets, KeepAliveTick, FastSend
<1>4. CASE OnRoute
  BY <1>4
  DEF OnRoute, RouteSilently, RouteSends, RouteBroadcasts, SendQueues, RouteRejects
<1>5. CASE Strand /\ ~OnRoute
  BY <1>5
  DEF Strand, HandleClose, HandleLeave, HandleFast, HandleEnter, HandleReadError,
      HandleHeader, HandleFrame, HandleFrameNoInbound, HandleWrite, HandleWriteError
<1>6. CASE UNCHANGED vars
  BY <1>6 DEF vars
<1>7. QED
  BY <1>1, <1>2, <1>3, <1>4, <1>5, <1>6 DEF Next, Strand

\* The queued send path implements the frame stream: the peer receives the
\* accepted packets whole, in order and once, whoever closes the session when.
THEOREM Implements == Spec => StreamSpec
<1> USE DEF ioVars, sendVars, memberVars, runVars
<1>1. Init => Stream!Init
  BY DEF Init, Stream!Init
<1>2. TypeOK /\ IInv /\ TypeOK' /\ [Next]_vars => [Stream!Next]_(Stream!vars)
  <2> SUFFICES ASSUME TypeOK, IInv, TypeOK', [Next]_vars
               PROVE  Stream!Next \/ UNCHANGED <<accepted, wire, ~open>>
    BY DEF Stream!vars
  <2>0. ASSUME UNCHANGED <<accepted, wire>>
        PROVE  Stream!Next \/ UNCHANGED <<accepted, wire, ~open>>
    BY <2>0, NeverReopens, BreakOrStutter DEF TypeOK, FlagsOK, Stream!Next
  <2>1. CASE Start
    BY <2>0, <2>1 DEF Start, StartArm, StartFails, StartPost
  <2>2. CASE Network
    <3>1. CASE ReadCompletes \/ ReadFails \/ FastEnds
      BY <2>0, <3>1 DEF ReadCompletes, ReadFails, FastEnds
    <3>2. ASSUME NEW w \in writes, PutChunk(w)
          PROVE  Stream!Next
      BY <3>2, PieceFollows DEF Stream!Next
    <3>3. ASSUME NEW w \in writes, NEW ok \in BOOLEAN, WriteEnds(w, ok)
          PROVE  Stream!Next \/ UNCHANGED <<accepted, wire, ~open>>
      BY <2>0, <3>3 DEF WriteEnds
    <3>4. QED
      BY <2>2, <3>1, <3>2, <3>3 DEF Network, WriteCompletes, WriteFails
  <2>3. CASE Outside
    BY <2>0, <2>3 DEF Outside, KickChecks, CloserSets, KeepAliveTick, FastSend
  <2>4. CASE SendQueues
    BY <2>4 DEF SendQueues, Stream!Next, Stream!Accept
  <2>5. CASE OnRoute /\ ~SendQueues
    BY <2>0, <2>5
    DEF OnRoute, RouteSilently, RouteSends, RouteBroadcasts, RouteRejects
  <2>6. CASE Strand /\ ~OnRoute
    BY <2>0, <2>6
    DEF Strand, HandleClose, HandleLeave, HandleFast, HandleEnter, HandleReadError,
        HandleHeader, HandleFrame, HandleFrameNoInbound, HandleWrite, HandleWriteError
  <2>7. CASE UNCHANGED vars
    BY <2>0, <2>7 DEF vars
  <2>8. QED
    BY <2>1, <2>2, <2>3, <2>4, <2>5, <2>6, <2>7 DEF Next, Strand
<1>3. QED
  BY <1>1, <1>2, Invariance, TypeCorrect, PTL DEF Spec, StreamSpec, Stream!Spec

-----------------------------------------------------------------------------
(* Closing: what a step does to the calls of on_close that are under way and *)
(* to what they have queued.  Every step has one of a few effects.           *)

Leaving   == [op : {"leave"}, ok : BOOLEAN]
Closes    == CountIn(strand, Closings)
Inside    == {c \in Closer : closer[c] = "checked"}
closeVars == <<phase, connected, open, leaves, member, late>>

\* The calls of on_close under way, and what they have queued, stay as they are.
Undisturbed ==
  /\ Closes' = Closes
  /\ Queued(Closings)' <=> Queued(Closings)
  /\ Queued(Leaving)' <=> Queued(Leaving)

\* A step that closes nothing.
Ordinary == UNCHANGED <<closeVars, closer>> /\ Undisturbed

\* start() up to its end.
ArmsRead ==
  /\ phase = "new" /\ connected' /\ phase' = "armed" /\ Undisturbed
  /\ UNCHANGED <<open, leaves, member, late, closer>>
GivesUp ==
  /\ phase = "new" /\ phase' = "started" /\ Closes' = Closes + 1 /\ Queued(Closings)'
  /\ Queued(Leaving)' <=> Queued(Leaving)
  /\ UNCHANGED <<connected, open, leaves, member, late, closer>>
PostsEnter ==
  /\ phase = "armed" /\ phase' = "started" /\ Undisturbed
  /\ UNCHANGED <<connected, open, leaves, member, late, closer>>

\* on_close outside of the strand: its test, and what follows it.
Tests ==
  /\ UNCHANGED closeVars /\ Undisturbed
  /\ closer' = closer \/ connected
Clears ==
  /\ \E c \in Closer : closer[c] = "checked" /\ closer' = [closer EXCEPT ![c] = "idle"]
  /\ ~connected' /\ Closes' = Closes + 1 /\ Queued(Closings)'
  /\ Queued(Leaving)' <=> Queued(Leaving)
  /\ UNCHANGED <<phase, open, leaves, member, late>>

\* on_close on the strand, of a connected session.
ClosesHere ==
  /\ connected /\ ~connected' /\ ~open'
  /\ Closes' = Closes + 1 /\ Queued(Closings)'
  /\ UNCHANGED <<phase, leaves, member, late, closer>>

\* The lambda of a call from outside.
Shuts ==
  /\ Queued(Closings) /\ Closes' = Closes /\ Queued(Closings)' /\ ~open'
  /\ UNCHANGED <<phase, connected, leaves, member, late, closer>>

\* on_user_enter and on_user_leave.
JoinsSet ==
  /\ phase # "new" /\ Undisturbed /\ late' = (leaves > 0)
  /\ UNCHANGED <<phase, connected, open, leaves, closer>>
LeavesSet ==
  /\ Queued(Leaving) /\ Queued(Closings) /\ Closes' = Closes - 1
  /\ Queued(Leaving)' => Queued(Leaving)
  /\ ~member' /\ leaves' = leaves + 1
  /\ UNCHANGED <<phase, connected, open, late, closer>>

Effect == \/ Ordinary \/ ArmsRead \/ GivesUp \/ PostsEnter \/ Tests \/ Clears
          \/ ClosesHere \/ Shuts \/ JoinsSet \/ LeavesSet

\* Queueing a handler that is no part of a close.
LEMMA QuietAppend ==
  ASSUME NEW s \in Seq(Handler), NEW h \in Handler, h.op \notin {"close", "leave"}
  PROVE  /\ CountIn(Append(s, h), Closings) = CountIn(s, Closings)
         /\ QueuedIn(Append(s, h), Closings) <=> QueuedIn(s, Closings)
         /\ QueuedIn(Append(s, h), Leaving) <=> QueuedIn(s, Leaving)
<1>1. h \notin Closings /\ h \notin Leaving
  BY Classes DEF Leaving, Task
<1>2. CountIn(s, Closings) \in Nat
  BY CountType
<1>3. CountIn(Append(s, h), Closings) = CountIn(s, Closings) + IF h \in Closings THEN 1 ELSE 0
  BY AppendCounts
<1>4. QED
  BY <1>1, <1>2, <1>3, AppendQueued

\* Queueing the lambda of on_close or on_user_leave.
LEMMA CloseAppend ==
  ASSUME NEW s \in Seq(Handler), NEW op \in {"close", "leave"}
  PROVE  /\ CountIn(Append(s, Task(op)), Closings) = CountIn(s, Closings) + 1
         /\ QueuedIn(Append(s, Task(op)), Closings)
         /\ op = "close" => (QueuedIn(Append(s, Task(op)), Leaving) <=> QueuedIn(s, Leaving))
<1> DEFINE h == Task(op)
<1>1. h \in Handler /\ h \in Closings /\ (op = "close" => h \notin Leaving)
  BY Handlers DEF Op, Closings, Leaving, Task
<1> HIDE DEF h
<1>2. CountIn(s, Closings) \in Nat
  BY CountType
<1>3. CountIn(Append(s, h), Closings) = CountIn(s, Closings) + IF h \in Closings THEN 1 ELSE 0
  BY <1>1, AppendCounts
<1>4. \A hs : QueuedIn(Append(s, h), hs) <=> QueuedIn(s, hs) \/ h \in hs
  BY <1>1, StrandAppend
<1>5. QED
  BY <1>1, <1>2, <1>3, <1>4 DEF h

\* Running a handler that is no part of a close.
LEMMA QuietTail ==
  ASSUME NEW s \in Seq(Handler), s # <<>>, Head(s).op \notin {"close", "leave"}
  PROVE  /\ Tail(s) \in Seq(Handler)
         /\ CountIn(Tail(s), Closings) = CountIn(s, Closings)
         /\ QueuedIn(Tail(s), Closings) <=> QueuedIn(s, Closings)
         /\ QueuedIn(Tail(s), Leaving) <=> QueuedIn(s, Leaving)
<1>1. Head(s) \in Handler /\ Tail(s) \in Seq(Handler)
  BY StrandType
<1>2. Head(s) \notin Closings /\ Head(s) \notin Leaving
  BY <1>1, Classes DEF Leaving, Task
<1>3. CountIn(Tail(s), Closings) \in Nat
  BY <1>1, CountType
<1>4. CountIn(s, Closings) = CountIn(Tail(s), Closings) + IF Head(s) \in Closings THEN 1 ELSE 0
  BY TailCounts
<1>5. QED
  BY <1>1, <1>2, <1>3, <1>4, TailQueued

\* Running a part of a close.
LEMMA CloseTail ==
  ASSUME NEW s \in Seq(Handler), s # <<>>, Head(s).op \in {"close", "leave"}
  PROVE  /\ Tail(s) \in Seq(Handler)
         /\ CountIn(Tail(s), Closings) = CountIn(s, Closings) - 1
         /\ QueuedIn(s, Closings)
         /\ QueuedIn(Tail(s), Leaving) => QueuedIn(s, Leaving)
<1>1. Head(s) \in Handler /\ Tail(s) \in Seq(Handler)
  BY StrandType
<1>2. Head(s) \in Closings
  BY <1>1, Classes
<1>3. CountIn(Tail(s), Closings) \in Nat
  BY <1>1, CountType
<1>4. CountIn(s, Closings) = CountIn(Tail(s), Closings) + IF Head(s) \in Closings THEN 1 ELSE 0
  BY TailCounts
<1>5. QED
  BY <1>1, <1>2, <1>3, <1>4, TailQueued

\* on_close on the strand closes a connected session and leaves another alone.
LEMMA OnCloseCloses ==
  ASSUME NEW rest \in Seq(Handler), OnClose(rest), connected \in BOOLEAN,
         CountIn(rest, Closings) = Closes,
         QueuedIn(rest, Closings) <=> Queued(Closings),
         QueuedIn(rest, Leaving) <=> Queued(Leaving),
         UNCHANGED <<phase, leaves, member, late, closer>>, open \in BOOLEAN
  PROVE  Ordinary \/ ClosesHere
<1>1. CASE connected
  <2>1. strand' = Append(rest, Task("leave")) /\ ~connected' /\ ~open'
    BY <1>1 DEF OnClose
  <2>2. Closes' = Closes + 1 /\ Queued(Closings)'
    BY <2>1, CloseAppend DEF Closes, Queued
  <2>3. QED
    BY <1>1, <2>1, <2>2 DEF ClosesHere
<1>2. CASE ~connected
  <2>1. strand' = rest /\ UNCHANGED <<connected, open>>
    BY <1>2 DEF OnClose
  <2>2. Undisturbed
    BY <2>1 DEF Undisturbed, Closes, Queued
  <2>3. QED
    BY <2>1, <2>2 DEF Ordinary, closeVars
<1>3. QED
  BY <1>1, <1>2

\* Every step has one of these effects on the closing of the session.
LEMMA EveryEffect ==
  ASSUME TypeOK, IInv, [Next]_vars
  PROVE  Effect
<1> USE DEF Effect, ioVars, sendVars, memberVars, runVars
<1>0. strand \in Seq(Handler) /\ connected \in BOOLEAN /\ open \in BOOLEAN /\ CloseInv
  BY IInvParts DEF TypeOK, FlagsOK, ControlOK
<1>a. ASSUME UNCHANGED strand
      PROVE  Undisturbed
  BY <1>a DEF Undisturbed, Closes, Queued
<1>b. ASSUME NEW op \in Op \ {"close", "leave"}, NEW ok \in BOOLEAN,
             strand' = Append(strand, Completion(op, ok))
      PROVE  Undisturbed
  <2>1. Completion(op, ok) \in Handler /\ Completion(op, ok).op = op
    BY Handlers DEF Completion
  <2>2. QED
    BY <1>0, <1>b, <2>1, QuietAppend DEF Undisturbed, Closes, Queued
<1>c. ASSUME NEW op \in Op \ {"close", "leave"}, strand' = Append(strand, Task(op))
      PROVE  Undisturbed
  BY <1>b, <1>c DEF Task, Completion
<1>d. ASSUME strand # <<>>, Head(strand).op \notin {"close", "leave"}, strand' = Tail(strand)
      PROVE  Undisturbed
  BY <1>0, <1>d, QuietTail DEF Undisturbed, Closes, Queued
<1>1. CASE Start
  <2>1. CASE StartArm
    BY <1>a, <2>1 DEF StartArm, ArmsRead
  <2>2. CASE StartFails
    <3>1. Closes' = Closes + 1 /\ Queued(Closings)' /\ (Queued(Leaving)' <=> Queued(Leaving))
      BY <1>0, <2>2, CloseAppend DEF StartFails, Closes, Queued
    <3>2. QED
      BY <2>2, <3>1 DEF StartFails, GivesUp
  <2>3. CASE StartPost
    BY <1>c, <2>3 DEF StartPost, PostsEnter, Op
  <2>4. QED
    BY <1>1, <2>1, <2>2, <2>3 DEF Start
<1>2. CASE Network
  <2>1. CASE ReadCompletes \/ ReadFails
    <3>1. reading \in Op \ {"close", "leave"}
      BY <2>1 DEF ReadCompletes, ReadFails, TypeOK, ControlOK, Op
    <3>2. Undisturbed
      BY <1>b, <2>1, <3>1 DEF ReadCompletes, ReadFails
    <3>3. QED
      BY <2>1, <3>2 DEF ReadCompletes, ReadFails, Ordinary, closeVars
  <2>2. CASE FastEnds \/ \E w \in writes : PutChunk(w)
    BY <1>a, <2>2 DEF FastEnds, PutChunk, Ordinary, closeVars
  <2>3. ASSUME NEW w \in writes, NEW ok \in BOOLEAN, WriteEnds(w, ok)
        PROVE  Ordinary
    BY <1>b, <2>3 DEF WriteEnds, Op, Ordinary, closeVars
  <2>4. QED
    BY <1>2, <2>1, <2>2, <2>3 DEF Network, WriteCompletes, WriteFails
<1>3. CASE Outside
  <2>1. ASSUME NEW k \in Kicker, KickChecks(k)
        PROVE  Tests
    BY <1>a, <2>1 DEF KickChecks, Tests, closeVars
  <2>2. ASSUME NEW c \in Closer, CloserSets(c)
        PROVE  Clears
    <3>1. Closes' = Closes + 1 /\ Queued(Closings)' /\ (Queued(Leaving)' <=> Queued(Leaving))
      BY <1>0, <2>2, CloseAppend DEF CloserSets, Closes, Queued
    <3>2. QED
      BY <2>2, <3>1 DEF CloserSets, Clears
  <2>3. CASE KeepAliveTick
    <3>1. closer' = closer \/ connected
      BY <2>3 DEF KeepAliveTick, UserSetFree, TypeOK, ControlOK
    <3>2. QED
      BY <1>a, <2>3, <3>1 DEF KeepAliveTick, Tests, closeVars
  <2>4. CASE FastSend
    BY <1>c, <2>4 DEF FastSend, Op, Ordinary, closeVars
  <2>5. QED
    BY <1>3, <2>1, <2>2, <2>3, <2>4 DEF Outside
<1>4. CASE OnRoute
  <2>1. CASE RouteRejects
    <3>1. OnClose(strand) /\ UNCHANGED <<phase, leaves, member, late, closer>>
      BY <2>1 DEF RouteRejects
    <3>2. QED
      BY <1>0, <3>1, OnCloseCloses DEF Closes, Queued
  <2>2. CASE OnRoute /\ ~RouteRejects
    BY <1>a, <2>2
    DEF OnRoute, RouteSilently, RouteSends, RouteBroadcasts, SendQueues, Ordinary, closeVars
  <2>3. QED
    BY <1>4, <2>1, <2>2
<1>5. CASE Strand /\ ~OnRoute
  <2>0. phase # "new" /\ UNCHANGED phase
    BY <1>0, <1>5, Begun
  <2>a. ASSUME strand # <<>>, Head(strand).op \notin {"close", "leave"}, OnClose(Tail(strand)),
               UNCHANGED <<phase, leaves, member, late, closer>>
        PROVE  Effect
    <3>1. /\ Tail(strand) \in Seq(Handler)
          /\ CountIn(Tail(strand), Closings) = Closes
          /\ QueuedIn(Tail(strand), Closings) <=> Queued(Closings)
          /\ QueuedIn(Tail(strand), Leaving) <=> Queued(Leaving)
      BY <1>0, <2>a, QuietTail DEF Closes, Queued
    <3>2. QED
      BY <1>0, <2>a, <3>1, OnCloseCloses
  <2>b. ASSUME strand # <<>>, Head(strand).op \notin {"close", "leave"}, NoClose(Tail(strand)),
               UNCHANGED <<phase, leaves, member, late, closer>>
        PROVE  Effect
    BY <1>d, <2>b DEF NoClose, Ordinary, closeVars
  <2>1. CASE HandleClose
    <3>1. /\ strand # <<>> /\ Head(strand).op = "close" /\ Tail(strand) \in Seq(Handler)
          /\ strand' = Append(Tail(strand), Task("leave"))
      BY <1>0, <2>1, CloseTail DEF HandleClose, Runs
    <3>2. CountIn(Tail(strand), Closings) = Closes - 1 /\ Queued(Closings) /\ Closes \in Nat
      BY <1>0, <3>1, CloseTail, CountType DEF Closes, Queued
    <3>3. Closes' = CountIn(Tail(strand), Closings) + 1 /\ Queued(Closings)'
      BY <3>1, CloseAppend DEF Closes, Queued
    <3>4. QED
      BY <2>1, <3>2, <3>3 DEF HandleClose, Shuts
  <2>2. CASE HandleLeave
    <3>1. strand # <<>> /\ Head(strand).op = "leave" /\ strand' = Tail(strand)
      BY <2>2 DEF HandleLeave, Runs
    <3>2. /\ Closes' = Closes - 1 /\ Queued(Closings)
          /\ Queued(Leaving)' => Queued(Leaving)
      BY <1>0, <3>1, CloseTail DEF Closes, Queued
    <3>3. Queued(Leaving)
      <4>1. Head(strand) \in Leaving
        BY <1>0, <3>1, StrandType DEF Leaving, Handler
      <4>2. QED
        BY <1>0, <3>1, <4>1, TailQueued DEF Queued
    <3>4. QED
      BY <2>2, <3>2, <3>3 DEF HandleLeave, LeavesSet
  <2>3. CASE HandleFast
    BY <2>b, <2>3 DEF HandleFast, Runs
  <2>4. ASSUME NEW refused \in BOOLEAN, HandleEnter(refused)
        PROVE  JoinsSet
    BY <1>d, <2>0, <2>4 DEF HandleEnter, Runs, JoinsSet
  <2>5. CASE HandleReadError
    BY <2>a, <2>5 DEF HandleReadError, Runs
  <2>6. CASE HandleHeader
    BY <2>b, <2>6 DEF HandleHeader, Runs
  <2>7. ASSUME NEW op \in {"header", "body"}, HandleFrame(op)
        PROVE  Effect
    BY <2>b, <2>7 DEF HandleFrame, Runs
  <2>8. ASSUME NEW op \in {"header", "body"}, HandleFrameNoInbound(op)
        PROVE  Effect
    BY <2>a, <2>8 DEF HandleFrameNoInbound, Runs
  <2>9. CASE HandleWrite
    BY <2>b, <2>9 DEF HandleWrite, Runs
  <2>10. CASE HandleWriteError
    BY <2>a, <2>10 DEF HandleWriteError, Runs
  <2>11. QED
    BY <1>5, <2>1, <2>2, <2>3, <2>4, <2>5, <2>6, <2>7, <2>8, <2>9, <2>10 DEF Strand
<1>6. CASE UNCHANGED vars
  BY <1>a, <1>6 DEF vars, Ordinary, closeVars
<1>7. QED
  BY <1>1, <1>2, <1>3, <1>4, <1>5, <1>6 DEF Next

\* What a step does to the keep-alive flag and the count of idle ticks.
LEMMA IdleStep ==
  ASSUME TypeOK, IInv, [Next]_vars,
         member /\ idle # 0 => ~alive, IdleIsReaped
  PROVE  (member /\ idle # 0 => ~alive)' /\ IdleIsReaped'
<1> USE DEF IdleIsReaped, UserSetFree, ioVars, sendVars, memberVars, runVars
<1>0. /\ KeepAlive \notin Kicker /\ KeepAlive \in Closer
      /\ closer \in [Closer -> {"idle", "checked"}] /\ idle \in 0 .. 2
      /\ connected \in BOOLEAN /\ alive \in BOOLEAN /\ member \in BOOLEAN
  BY BoundAssumption DEF BoundAssumption, KeepAlive, Closer, TypeOK, FlagsOK, ControlOK
<1>a. ASSUME UNCHANGED <<member, idle, alive>>, connected' => connected,
             connected' => (UserSetFree' => UserSetFree)
      PROVE  (member /\ idle # 0 => ~alive)' /\ IdleIsReaped'
  BY <1>a
<1>1. CASE Start
  BY <1>1 DEF Start, StartArm, StartFails, StartPost, IInv, Untouched
<1>2. CASE Network
  BY <1>a, <1>2
  DEF Network, ReadCompletes, ReadFails, FastEnds, PutChunk, WriteCompletes, WriteFails,
      WriteEnds
<1>3. CASE Outside
  <2>1. ASSUME NEW k \in Kicker, KickChecks(k)
        PROVE  closer'[KeepAlive] = closer[KeepAlive]
    BY <1>0, <2>1 DEF KickChecks
  <2>2. CASE KeepAliveTick
    BY <1>0, <2>2 DEF KeepAliveTick
  <2>3. QED
    BY <1>a, <1>3, <2>1, <2>2 DEF Outside, KickChecks, CloserSets, FastSend
<1>4. CASE OnRoute
  BY <1>a, <1>4
  DEF OnRoute, RouteSilently, RouteSends, RouteBroadcasts, SendQueues, RouteRejects, OnClose
<1>5. CASE Strand /\ ~OnRoute
  <2>1. CASE HandleClose \/ HandleLeave \/ HandleFast
    BY <2>1 DEF HandleClose, HandleLeave, HandleFast, NoClose
  <2>2. ASSUME NEW refused \in BOOLEAN, HandleEnter(refused)
        PROVE  (member /\ idle # 0 => ~alive)' /\ IdleIsReaped'
    BY <1>0, <2>2 DEF HandleEnter
  <2>3. CASE HandleReadError \/ HandleHeader
    BY <2>3 DEF HandleReadError, HandleHeader, OnClose, NoClose, Heard
  <2>4. ASSUME NEW op \in {"header", "body"}, HandleFrame(op) \/ HandleFrameNoInbound(op)
        PROVE  (member /\ idle # 0 => ~alive)' /\ IdleIsReaped'
    BY <2>4 DEF HandleFrame, HandleFrameNoInbound, OnClose, NoClose, Heard
  <2>5. CASE HandleWrite \/ HandleWriteError
    BY <2>5 DEF HandleWrite, HandleWriteError, OnClose, NoClose
  <2>6. QED
    BY <1>5, <2>1, <2>2, <2>3, <2>4, <2>5 DEF Strand
<1>6. CASE UNCHANGED vars
  BY <1>a, <1>6 DEF vars
<1>7. QED
  BY <1>1, <1>2, <1>3, <1>4, <1>5, <1>6 DEF Next

\* The keep-alive task closes a member that two ticks found without a header
\* in between (on_check_keep_alive and on_init_keep_alive_flag): a flag still
\* set at the second tick would have been cleared by the first.
THEOREM Reaping == Spec => []IdleIsReaped
<1> DEFINE Idling == (member /\ idle # 0 => ~alive) /\ IdleIsReaped
<1>1. Init => Idling
  BY DEF Init, IdleIsReaped
<1>2. TypeOK /\ IInv /\ Idling /\ [Next]_vars => Idling'
  BY IdleStep
<1>3. Idling => IdleIsReaped
  OBVIOUS
<1> HIDE DEF Idling
<1>4. QED
  BY <1>1, <1>2, <1>3, Invariance, TypeCorrect, PTL DEF Spec

\* What a close leaves to be done.
CloseTraced ==
  /\ leaves > 0 \/ Queued(Leaving) => ~open
  /\ phase # "new" /\ ~connected /\ leaves = 0 => Queued(Closings)
  /\ member /\ ~connected /\ ~late => Queued(Closings)

\* Whatever closes the session leaves its trace until on_user_leave has run.
LEMMA TraceStep ==
  ASSUME TypeOK, IInv, [Next]_vars, CloseTraced
  PROVE  CloseTraced'
<1> USE DEF CloseTraced, closeVars, Undisturbed
<1>0. /\ leaves \in Nat /\ connected \in BOOLEAN /\ member \in BOOLEAN
      /\ late \in BOOLEAN /\ open \in BOOLEAN
  BY DEF TypeOK, FlagsOK, ControlOK
<1>1. phase = "new" => open /\ ~connected /\ ~member
  BY DEF IInv, Untouched
<1>2. Effect
  BY EveryEffect
<1>3. CASE Ordinary \/ Tests
  BY <1>3 DEF Ordinary, Tests
<1>4. CASE ArmsRead \/ GivesUp \/ PostsEnter
  BY <1>0, <1>1, <1>4 DEF ArmsRead, GivesUp, PostsEnter
<1>5. CASE Clears \/ ClosesHere \/ Shuts
  BY <1>0, <1>5 DEF Clears, ClosesHere, Shuts
<1>6. CASE JoinsSet
  <2>1. ~late' => leaves = 0
    <3>1. late' = (leaves > 0)
      BY <1>6 DEF JoinsSet
    <3>2. leaves = 0 \/ leaves > 0
      BY <1>0
    <3>3. QED
      BY <3>1, <3>2
  <2>2. phase # "new" /\ UNCHANGED <<phase, connected, open, leaves>>
    BY <1>6 DEF JoinsSet
  <2>3. (Queued(Closings)' <=> Queued(Closings)) /\ (Queued(Leaving)' <=> Queued(Leaving))
    BY <1>6 DEF JoinsSet
  <2>4. QED
    BY <2>1, <2>2, <2>3
<1>7. CASE LeavesSet
  BY <1>0, <1>7 DEF LeavesSet
<1>8. QED
  BY <1>2, <1>3, <1>4, <1>5, <1>6, <1>7 DEF Effect

\* A new session has nothing to be closed.
LEMMA InitTraced == Init => CloseTraced
BY NothingQueued DEF Init, CloseTraced, Queued

\* The invariant holds all along.
LEMMA AlwaysTraced == Spec => []CloseTraced
<1>1. TypeOK /\ IInv /\ CloseTraced /\ [Next]_vars => CloseTraced'
  BY TraceStep
<1>2. QED
  BY <1>1, InitTraced, Invariance, TypeCorrect, PTL DEF Spec

\* A session that is closed and has nothing left to run is still in _user_set
\* only when its on_user_enter came after its on_user_leave.
THEOREM Leaks == Spec => []LeaksOnlyWhenOvertaken
<1>1. CloseTraced => LeaksOnlyWhenOvertaken
  BY NothingQueued DEF CloseTraced, LeaksOnlyWhenOvertaken, Drained, Queued
<1>2. QED
  BY <1>1, AlwaysTraced, PTL

\* Until it is disconnected nothing of a close is under way; from then on the
\* calls of on_close still inside, the handlers they queued and those that
\* have run are never more than one for each thread and one for the strand.
Spent ==
  phase = "new" \/ connected \/ leaves + Closes + Cardinality(Inside) <= Cardinality(Kicker) + 2

\* Outside of the strand there is one closer more than there are kickers.
LEMMA InsideType ==
  /\ IsFiniteSet(Closer) /\ Cardinality(Closer) = Cardinality(Kicker) + 1
  /\ Cardinality(Kicker) \in Nat
  /\ IsFiniteSet(Inside) /\ Cardinality(Inside) \in Nat
  /\ Cardinality(Inside) <= Cardinality(Kicker) + 1
<1>1. IsFiniteSet(Kicker) /\ KeepAlive \notin Kicker
  BY KickerAssumption, BoundAssumption DEF KickerAssumption, BoundAssumption, KeepAlive
<1>2. /\ IsFiniteSet(Closer) /\ Cardinality(Closer) = Cardinality(Kicker) + 1
      /\ Cardinality(Kicker) \in Nat
  BY <1>1, FS_AddElement, FS_CardinalityType DEF Closer
<1>3. Inside \in SUBSET Closer
  BY DEF Inside
<1>4. QED
  BY <1>2, <1>3, FS_Subset, FS_CardinalityType

\* No step makes them more.
LEMMA SpentStep ==
  ASSUME TypeOK, TypeOK', IInv, [Next]_vars, CloseTraced, Spent
  PROVE  Spent'
<1> USE DEF Spent, closeVars, Undisturbed
<1>0. /\ leaves \in Nat /\ Closes \in Nat /\ connected \in BOOLEAN
      /\ strand \in Seq(Handler) /\ closer \in [Closer -> {"idle", "checked"}]
  BY CountType DEF TypeOK, FlagsOK, ControlOK, Closes
<1>1. ASSUME connected \/ phase = "new"
      PROVE  leaves = 0 /\ Closes = 0
  <2>1. open
    BY <1>1, ConnectedIsOpen DEF IInv, Untouched
  <2>2. ~Queued(Closings)
    <3>1. CASE connected
      BY <3>1 DEF IInv, ClosedIsDisconnected
    <3>2. CASE phase = "new"
      BY <3>2, NothingQueued DEF IInv, Untouched, Queued
    <3>3. QED
      BY <1>1, <3>1, <3>2
  <2>3. QED
    BY <1>0, <2>1, <2>2, CountType DEF CloseTraced, Closes, Queued
<1>2. UNCHANGED closer => Inside' = Inside
  BY DEF Inside
<1>3. Effect
  BY EveryEffect
<1>4. CASE Ordinary \/ Tests
  <2>1. connected \/ Inside' = Inside
    BY <1>2, <1>4 DEF Ordinary, Tests
  <2>2. QED
    BY <1>4, <2>1 DEF Ordinary, Tests
<1>5. CASE ArmsRead \/ PostsEnter
  BY <1>2, <1>5 DEF ArmsRead, PostsEnter
<1>6. CASE GivesUp
  <2>1. Inside' = Inside /\ Closes' = 1 /\ leaves' = 0
    BY <1>1, <1>2, <1>6 DEF GivesUp
  <2>2. QED
    BY <2>1, InsideType
<1>7. CASE Clears
  <2>1. PICK c \in Closer : closer[c] = "checked" /\ closer' = [closer EXCEPT ![c] = "idle"]
    BY <1>7 DEF Clears
  <2>2. c \in Inside /\ Inside' = Inside \ {c}
    BY <1>0, <2>1 DEF Inside
  <2>3. Cardinality(Inside') = Cardinality(Inside) - 1
    BY <2>2, InsideType, FS_RemoveElement
  <2>4. Closes' = Closes + 1 /\ leaves' = leaves /\ phase' = phase
    BY <1>7 DEF Clears
  <2>5. QED
    BY <1>0, <1>1, <2>3, <2>4, InsideType
<1>8. CASE ClosesHere
  <2>1. Inside' = Inside /\ Closes' = 1 /\ leaves' = 0
    BY <1>1, <1>2, <1>8 DEF ClosesHere
  <2>2. QED
    BY <2>1, InsideType
<1>9. CASE Shuts
  BY <1>2, <1>9 DEF Shuts
<1>10. CASE JoinsSet
  BY <1>2, <1>10 DEF JoinsSet
<1>11. CASE LeavesSet
  <2>1. Inside' = Inside /\ Closes' = Closes - 1 /\ leaves' = leaves + 1
    BY <1>2, <1>11 DEF LeavesSet
  <2>2. QED
    BY <1>0, <1>11, <2>1, InsideType DEF LeavesSet
<1>12. QED
  BY <1>3, <1>4, <1>5, <1>6, <1>7, <1>8, <1>9, <1>10, <1>11 DEF Effect

\* on_user_leave runs after the socket was closed, and no more often than
\* there are threads that can pass on_close's test before one clears the flag.
THEOREM Leavings == Spec => []LeaveAfterClose
<1>1. Init => Spent
  BY DEF Init, Spent
<1>2. TypeOK /\ TypeOK' /\ IInv /\ CloseTraced /\ Spent /\ [Next]_vars => Spent'
  BY SpentStep
<1>3. TypeOK /\ IInv /\ CloseTraced /\ Spent => LeaveAfterClose
  <2> SUFFICES ASSUME TypeOK, IInv, CloseTraced, Spent
               PROVE  LeaveAfterClose
    OBVIOUS
  <2>1. leaves \in Nat /\ Closes \in Nat
    BY CountType DEF TypeOK, ControlOK, Closes
  <2>2. connected \/ phase = "new" => leaves = 0
    BY <2>1, ConnectedIsOpen DEF IInv, Untouched, CloseTraced
  <2>3. leaves <= Cardinality(Kicker) + 2
    BY <2>1, <2>2, InsideType DEF Spent
  <2>4. Queued({Task("leave")}) => Queued(Leaving)
    <3>1. Task("leave") \in Leaving
      BY DEF Leaving, Task
    <3>2. QED
      BY <3>1 DEF Queued, QueuedIn
  <2>5. QED
    BY <2>3, <2>4 DEF LeaveAfterClose, CloseTraced
<1>4. QED
  BY <1>1, <1>2, <1>3, AlwaysTraced, Invariance, TypeCorrect, PTL DEF Spec
=============================================================================

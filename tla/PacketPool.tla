------------------------------ MODULE PacketPool ------------------------------
(***************************************************************************)
(* The packets of one session and its two pools (primitive_session).       *)
(*                                                                         *)
(* Outbound: any thread may call send(), which takes a packet under the    *)
(* pool's lock, encodes into it and hands it to the strand; the strand     *)
(* queues and writes it, and a thread of the io_context puts it back.      *)
(* Inbound: the pool has no lock.  start() takes from it on the thread     *)
(* that accepted the connection, everything else happens on the strand.    *)
(*                                                                         *)
(* Order in a pool is of no consequence, so pools are sets.  Taking from   *)
(* the inbound pool is two steps, front() and pop_front(), so that a lack  *)
(* of exclusion would show.                                                *)
(***************************************************************************)
EXTENDS Naturals, FiniteSets, SequencesExt

CONSTANTS
  Packets,      \* bound: outbound packets alive at one time
  Inbounds,     \* inbound packets made by the constructor
  Senders,      \* threads that call send()
  DefaultSize,  \* _default_pool_size_
  MaxSize,      \* _max_pool_size_
  Sends,        \* bound: calls of send()
  NoPacket      \* the null pointer

ASSUME PoolAssumption ==
  /\ DefaultSize \in Nat /\ 1 < DefaultSize /\ MaxSize \in Nat /\ DefaultSize <= MaxSize
  /\ IsFiniteSet(Packets) /\ DefaultSize <= Cardinality(Packets)
  /\ IsFiniteSet(Inbounds) /\ Cardinality(Inbounds) = DefaultSize
  /\ Sends \in Nat /\ NoPacket \notin Packets \union Inbounds

VARIABLES
  connected,  \* _is_connected
  pool,       \* _outbound_pool
  pc,         \* where each sender is in send()
  hold,       \* the packet it has
  lambdas,    \* on_send's lambdas that wait for the strand
  outq,       \* _outbound_q
  writing,    \* an async_write of the front of outq is outstanding
  returning,  \* packets whose dealloc_outbound() is posted
  blanked,    \* packets it has called init() on
  content,    \* what is encoded in each packet; 0 for nothing
  meant,      \* history: what was to be encoded in it
  sends,      \* packets encoded so far
  inpool,     \* _inbound_pool
  start,      \* how far start() is
  front,      \* the packet that start() or the strand is taking out
  inbound,    \* _inbound
  routed,     \* the packet being routed
  reading     \* an async_read into inbound is outstanding

outVars == <<pool, pc, hold, lambdas, outq, writing, returning, blanked, content, meant,
             sends>>
inVars  == <<inpool, start, front, inbound, routed, reading>>
vars    == <<connected, outVars, inVars>>

None == NoPacket

TypeOK ==
  /\ connected \in BOOLEAN /\ writing \in BOOLEAN /\ reading \in BOOLEAN
  /\ pool \in SUBSET Packets /\ returning \in SUBSET Packets /\ blanked \in SUBSET Packets
  /\ pc \in [Senders -> {"idle", "alloc", "encode", "send"}]
  /\ hold \in [Senders -> Packets \union {None}]
  /\ lambdas \in Seq(Packets) /\ outq \in Seq(Packets)
  /\ content \in [Packets -> 0 .. Sends] /\ meant \in [Packets -> 0 .. Sends]
  /\ sends \in 0 .. Sends
  /\ inpool \in SUBSET Inbounds /\ start \in {"new", "taking", "took", "armed"}
  /\ {front, inbound, routed} \subseteq Inbounds \union {None}

Init ==
  /\ connected = TRUE /\ writing = FALSE /\ reading = FALSE
  /\ pool \in {s \in SUBSET Packets : Cardinality(s) = DefaultSize}
  /\ returning = {} /\ blanked = {}
  /\ pc = [s \in Senders |-> "idle"] /\ hold = [s \in Senders |-> None]
  /\ lambdas = <<>> /\ outq = <<>>
  /\ content = [p \in Packets |-> 0] /\ meant = [p \in Packets |-> 0]
  /\ sends = 0
  /\ inpool = Inbounds /\ start = "new" /\ front = None /\ inbound = None /\ routed = None

-----------------------------------------------------------------------------
(* interface_session::send()                                               *)

Held  == {hold[s] : s \in Senders} \ {None}
Alive == pool \union Held \union ToSet(lambdas) \union ToSet(outq) \union returning
              \union blanked

Calls(s) ==
  /\ pc[s] = "idle" /\ connected
  /\ sends < Sends
  /\ pc' = [pc EXCEPT ![s] = "alloc"]
  /\ UNCHANGED <<connected, pool, hold, lambdas, outq, writing, returning, blanked, content,
                 meant, sends, inVars>>

\* Mutant of Alloc: the packet stays in the pool.
AllocKeeps(s) ==
  /\ pc[s] = "alloc"
  /\ \E p \in IF pool # {} THEN pool ELSE Packets \ Alive :
       /\ hold' = [hold EXCEPT ![s] = p]
       /\ content' = IF pool # {} THEN content ELSE [content EXCEPT ![p] = 0]
       /\ meant' = [meant EXCEPT ![p] = 0]
  /\ pc' = [pc EXCEPT ![s] = "encode"]
  /\ UNCHANGED <<connected, pool, lambdas, outq, writing, returning, blanked, sends, inVars>>

\* alloc_outbound(): a packet of the pool, or a new one when there is none.
Alloc(s) ==
  /\ pc[s] = "alloc"
  /\ \E p \in IF pool # {} THEN pool ELSE Packets \ Alive :
       /\ pool' = pool \ {p}
       /\ hold' = [hold EXCEPT ![s] = p]
       /\ content' = IF pool # {} THEN content ELSE [content EXCEPT ![p] = 0]
       /\ meant' = [meant EXCEPT ![p] = 0]
  /\ pc' = [pc EXCEPT ![s] = "encode"]
  /\ UNCHANGED <<connected, lambdas, outq, writing, returning, blanked, sends, inVars>>

\* encode() writes the packet, or refuses an empty body and leaves it as it is.
Encode(s) ==
  /\ pc[s] = "encode" /\ sends < Sends
  /\ sends' = sends + 1
  /\ \/ /\ content' = [content EXCEPT ![hold[s]] = sends + 1]
        /\ meant' = [meant EXCEPT ![hold[s]] = sends + 1]
     \/ UNCHANGED <<content, meant>>
  /\ pc' = [pc EXCEPT ![s] = "send"]
  /\ UNCHANGED <<connected, pool, hold, lambdas, outq, writing, returning, blanked, inVars>>

\* on_send() dispatches the packet to the strand; that of a closed session is freed.
OnSend(s) ==
  /\ pc[s] = "send"
  /\ lambdas' = IF connected THEN Append(lambdas, hold[s]) ELSE lambdas
  /\ hold' = [hold EXCEPT ![s] = None]
  /\ pc' = [pc EXCEPT ![s] = "idle"]
  /\ UNCHANGED <<connected, pool, outq, writing, returning, blanked, content, meant, sends,
                 inVars>>

-----------------------------------------------------------------------------
(* The strand's part in sending                                            *)

Enqueue ==
  /\ lambdas # <<>>
  /\ lambdas' = Tail(lambdas)
  /\ outq' = Append(outq, Head(lambdas))
  /\ writing' = (writing \/ (outq = <<>> /\ connected))
  /\ UNCHANGED <<connected, pool, pc, hold, returning, blanked, content, meant, sends, inVars>>

\* Mutant of WriteEnds: the packet is given back and stays in the queue.
WriteEndsKeeps(ok) ==
  /\ writing
  /\ returning' = returning \union {Head(outq)}
  /\ writing' = FALSE
  /\ connected' = (connected /\ ok)
  /\ UNCHANGED <<pool, pc, hold, lambdas, outq, blanked, content, meant, sends, inVars>>

\* write(): the packet is popped, the next one is written, and dealloc_outbound()
\* is posted to the io_context.
WriteEnds(ok) ==
  /\ writing
  /\ outq' = Tail(outq)
  /\ returning' = returning \union {Head(outq)}
  /\ writing' = (ok /\ Len(outq) > 1 /\ connected)
  /\ connected' = (connected /\ ok)
  /\ UNCHANGED <<pool, pc, hold, lambdas, blanked, content, meant, sends, inVars>>

\* dealloc_outbound(): first init(), without the lock, ...
Blank(p) ==
  /\ p \in returning
  /\ returning' = returning \ {p} /\ blanked' = blanked \union {p}
  /\ content' = [content EXCEPT ![p] = 0]
  /\ UNCHANGED <<connected, pool, pc, hold, lambdas, outq, writing, meant, sends, inVars>>

\* ... then the pool takes the packet, unless it is full.
GiveBack(p) ==
  /\ p \in blanked
  /\ blanked' = blanked \ {p}
  /\ pool' = IF DefaultSize <= Cardinality(pool) THEN pool ELSE pool \union {p}
  /\ UNCHANGED <<connected, pc, hold, lambdas, outq, writing, returning, content, meant,
                 sends, inVars>>

Closes ==
  /\ connected
  /\ connected' = FALSE
  /\ UNCHANGED <<outVars, inVars>>

-----------------------------------------------------------------------------
(* Inbound packets                                                         *)

\* alloc_inbound() in start(): front() ...
StartTakes ==
  /\ start = "new"
  /\ start' = "taking"
  /\ \E p \in inpool : front' = p
  /\ UNCHANGED <<connected, outVars, inpool, inbound, routed, reading>>

\* ... and pop_front() ...
StartPops ==
  /\ start = "taking"
  /\ start' = "took"
  /\ inpool' = inpool \ {front} /\ inbound' = front /\ front' = None
  /\ UNCHANGED <<connected, outVars, routed, reading>>

\* ... before the first read is armed.
StartArms ==
  /\ start = "took"
  /\ start' = "armed"
  /\ reading' = TRUE
  /\ UNCHANGED <<connected, outVars, inpool, front, inbound, routed>>

\* A frame is complete: on the strand the next packet is taken, ...
FrameTakes ==
  /\ reading /\ routed = None
  /\ reading' = FALSE
  /\ routed' = inbound /\ inbound' = None
  /\ \E p \in inpool : front' = p
  /\ UNCHANGED <<connected, outVars, inpool, start>>

\* ... the next read armed, ...
FramePops ==
  /\ routed # None /\ front # None
  /\ inpool' = inpool \ {front} /\ inbound' = front /\ front' = None
  /\ reading' = connected
  /\ UNCHANGED <<connected, outVars, start, routed>>

\* Mutant of FrameRouted: the packet is not given back.
FrameRoutedForgets ==
  /\ routed # None /\ front = None
  /\ routed' = None
  /\ UNCHANGED <<connected, outVars, inpool, start, front, inbound, reading>>

\* ... the frame routed, and its packet given back.
FrameRouted ==
  /\ routed # None /\ front = None
  /\ routed' = None
  /\ inpool' = IF MaxSize <= Cardinality(inpool) THEN inpool ELSE inpool \union {routed}
  /\ UNCHANGED <<connected, outVars, start, front, inbound, reading>>

Next ==
  \/ \E s \in Senders : Calls(s) \/ Alloc(s) \/ Encode(s) \/ OnSend(s)
  \/ Enqueue \/ (\E ok \in BOOLEAN : WriteEnds(ok))
  \/ \E p \in Packets : Blank(p) \/ GiveBack(p)
  \/ Closes
  \/ StartTakes \/ StartPops \/ StartArms \/ FrameTakes \/ FramePops \/ FrameRouted

Spec == Init /\ [][Next]_vars

-----------------------------------------------------------------------------
(* Properties                                                              *)

\* A packet is in one place: the pool, a sender's hands, the strand, or on its way
\* back.
NotShared ==
  /\ IsInjective(lambdas) /\ IsInjective(outq)
  /\ \A s, t \in Senders : s # t /\ hold[s] = hold[t] => hold[s] = None
  /\ pool \intersect (Held \union ToSet(lambdas) \union ToSet(outq) \union returning
                        \union blanked) = {}
  /\ Held \intersect (ToSet(lambdas) \union ToSet(outq) \union returning \union blanked) = {}
  /\ ToSet(lambdas) \intersect (ToSet(outq) \union returning \union blanked) = {}
  /\ ToSet(outq) \intersect (returning \union blanked) = {}
  /\ returning \intersect blanked = {}

\* What waits to be written, or is being written, is what its sender encoded.
Intact == \A p \in ToSet(lambdas) \union ToSet(outq) : content[p] = meant[p]

\* A packet whose encode() refuses is sent as an empty one, never with what an
\* earlier sender left in it: the pool holds only blank packets.
PoolIsBlank == \A p \in pool : content[p] = 0

\* However many threads give packets back, the pool keeps to its size.
PoolBounded == Cardinality(pool) <= DefaultSize

\* Whoever takes from the inbound pool is alone with it, and the packet that is
\* read into is neither routed nor in the pool.
InboundAlone ==
  /\ front # None => front \in inpool /\ ~reading
  /\ reading => inbound \notin inpool \union {None, routed}

\* No frame, however many come, makes the session need another inbound packet:
\* the pool is not found empty, and so StartTakes and FrameTakes leave out what
\* alloc_inbound() would do then.
InboundConserved ==
  /\ start = "new" \/ (reading /\ routed = None) => inpool # {}
  /\ Inbounds = inpool \union ({front, inbound, routed} \ {None})

-----------------------------------------------------------------------------
(* The inductive invariant                                                 *)

\* A sender has a packet from alloc_outbound() to on_send(), and what it has not
\* encoded into yet is blank.
HeldInOrder ==
  \A s \in Senders :
    /\ hold[s] # None <=> pc[s] \in {"encode", "send"}
    /\ hold[s] # None => content[hold[s]] = meant[hold[s]]
    /\ pc[s] = "encode" => content[hold[s]] = 0

BlankedIsBlank == \A p \in blanked : content[p] = 0
WritesFront    == writing => outq # <<>>
PoolFinite     == IsFiniteSet(pool)

\* Which of the inbound packets start() and the strand have at each stage.
InboundStages ==
  /\ start = "new" => front = None /\ inbound = None
  /\ start = "taking" => front # None /\ inbound = None
  /\ start = "took" => front = None /\ ~reading
  /\ start \in {"new", "taking", "took"} => routed = None
  /\ start = "armed" => (front = None <=> inbound # None)
  /\ start = "took" => inbound # None
  /\ start = "armed" /\ front # None => routed # None
  /\ {inbound, routed} \intersect inpool = {}
  /\ inbound = routed => inbound = None

OutboundInv ==
  NotShared /\ Intact /\ PoolIsBlank /\ HeldInOrder /\ BlankedIsBlank /\ WritesFront
SizeInv    == PoolFinite /\ PoolBounded
InboundInv == InboundAlone /\ InboundConserved /\ InboundStages
IInv       == OutboundInv /\ SizeInv /\ InboundInv
===============================================================================

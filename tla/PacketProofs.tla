---------------------------- MODULE PacketProofs ----------------------------
(***************************************************************************)
(* Packets.  First the two pools of a session (PacketPool), for every      *)
(* number of packets, senders and sends; then what becomes of the bytes of *)
(* a packet (PacketLayout), for every size of packets and of the header.   *)
(***************************************************************************)
EXTENDS PacketPool, PacketLayout, SequenceTheorems, FiniteSetTheorems, TLAPS

-----------------------------------------------------------------------------
(* The pools: PacketPool                                                   *)

\* Queueing a packet: it is in the queue then, and once if it was not before.
LEMMA AppendSet ==
  ASSUME NEW H, NEW s \in Seq(H), NEW h \in H
  PROVE  /\ Append(s, h) \in Seq(H) /\ Append(s, h) # <<>>
         /\ ToSet(Append(s, h)) = ToSet(s) \union {h}
         /\ IsInjective(s) /\ h \notin ToSet(s) => IsInjective(Append(s, h))
<1> DEFINE t == Append(s, h)
<1>1. /\ t \in Seq(H) /\ t # <<>>
      /\ Len(s) \in Nat
      /\ DOMAIN s = 1 .. Len(s)
      /\ DOMAIN t = 1 .. Len(s) + 1
      /\ \A i \in 1 .. Len(s) : t[i] = s[i]
      /\ t[Len(s) + 1] = h
  OBVIOUS
<1> HIDE DEF t
<1>2. ToSet(t) = ToSet(s) \union {h}
  BY <1>1 DEF ToSet
<1>3. ASSUME IsInjective(s), h \notin ToSet(s)
      PROVE  IsInjective(t)
  <2>1. \A i \in 1 .. Len(s) : s[i] # h
    BY <1>1, <1>3 DEF ToSet
  <2>2. QED
    BY <1>1, <1>3, <2>1 DEF IsInjective
<1>4. QED
  BY <1>1, <1>2, <1>3 DEF t

\* Taking the first packet of a queue leaves the others, and it only if it was
\* there twice.
LEMMA TailSet ==
  ASSUME NEW H, NEW s \in Seq(H), s # <<>>
  PROVE  /\ Tail(s) \in Seq(H) /\ Head(s) \in H
         /\ Len(s) > 1 => Tail(s) # <<>>
         /\ Head(s) \in ToSet(s)
         /\ ToSet(s) = ToSet(Tail(s)) \union {Head(s)}
         /\ IsInjective(s) => IsInjective(Tail(s)) /\ Head(s) \notin ToSet(Tail(s))
<1> DEFINE t == Tail(s)
<1> DEFINE f == Head(s)
<1>1. /\ t \in Seq(H) /\ f \in H
      /\ Len(s) > 1 => t # <<>>
      /\ Len(s) \in Nat \ {0}
      /\ DOMAIN s = 1 .. Len(s)
      /\ DOMAIN t = 1 .. Len(s) - 1
      /\ \A i \in 1 .. Len(s) - 1 : t[i] = s[i + 1]
      /\ s[1] = f
  OBVIOUS
<1> HIDE DEF t, f
<1>2. f \in ToSet(s)
  BY <1>1 DEF ToSet
<1>3. ToSet(s) = ToSet(t) \union {f}
  <2>1. \A i \in 1 .. Len(s) : i = 1 \/ (i - 1 \in 1 .. Len(s) - 1 /\ t[i - 1] = s[i])
    BY <1>1
  <2>2. \A i \in 1 .. Len(s) - 1 : i + 1 \in 1 .. Len(s)
    BY <1>1
  <2>3. ToSet(t) \subseteq ToSet(s)
    BY <1>1, <2>2 DEF ToSet
  <2>4. ToSet(s) \subseteq ToSet(t) \union {f}
    <3>1. ASSUME NEW i \in 1 .. Len(s)
          PROVE  s[i] = f \/ s[i] \in ToSet(t)
      BY <1>1, <2>1 DEF ToSet
    <3>2. QED
      BY <1>1, <3>1 DEF ToSet
  <2>5. QED
    BY <1>2, <2>3, <2>4
<1>4. ASSUME IsInjective(s)
      PROVE  IsInjective(t) /\ f \notin ToSet(t)
  <2>1. \A i \in 1 .. Len(s) - 1 : i + 1 \in 1 .. Len(s) /\ t[i] = s[i + 1] /\ i + 1 # 1
    BY <1>1
  <2>2. \A i, j \in 1 .. Len(s) : s[i] = s[j] => i = j
    BY <1>1, <1>4 DEF IsInjective
  <2>3. f \notin ToSet(t)
    BY <1>1, <2>1, <2>2 DEF ToSet
  <2>4. IsInjective(t)
    BY <1>1, <2>1, <2>2 DEF IsInjective
  <2>5. QED
    BY <2>3, <2>4
<1>5. QED
  BY <1>1, <1>2, <1>3, <1>4 DEF t, f

\* The constructor's packets are all in their pools.
LEMMA Initially == Init => TypeOK /\ IInv
<1> SUFFICES ASSUME Init
             PROVE  TypeOK /\ IInv
  OBVIOUS
<1> USE PoolAssumption DEF PoolAssumption
<1>1. TypeOK
  <2>1. pool \in SUBSET Packets /\ <<>> \in Seq(Packets) /\ Sends \in Nat
    BY DEF Init
  <2>2. 0 \in 0 .. Sends
    BY <2>1
  <2>3. connected \in BOOLEAN /\ writing \in BOOLEAN /\ reading \in BOOLEAN
    BY DEF Init
  <2>4. /\ content \in [Packets -> 0 .. Sends] /\ meant \in [Packets -> 0 .. Sends]
        /\ sends \in 0 .. Sends
    BY <2>2 DEF Init
  <2>5. QED
    BY <2>1, <2>3, <2>4 DEF Init, TypeOK, None
<1>2. ToSet(lambdas) = {} /\ ToSet(outq) = {} /\ Held = {}
  BY DEF Init, ToSet, Held
<1>3. IsInjective(lambdas) /\ IsInjective(outq)
  BY DEF Init, IsInjective
<1>4. OutboundInv
  BY <1>2, <1>3
  DEF Init, OutboundInv, NotShared, Intact, PoolIsBlank, HeldInOrder, BlankedIsBlank,
      WritesFront
<1>5. SizeInv
  <2>1. IsFiniteSet(pool)
    BY FS_Subset DEF Init
  <2>2. QED
    BY <2>1 DEF Init, SizeInv, PoolFinite, PoolBounded
<1>6. InboundInv
  <2>1. Inbounds # {}
    BY FS_EmptySet
  <2>2. QED
    BY <2>1 DEF Init, InboundInv, InboundAlone, InboundConserved, InboundStages, None
<1>7. QED
  BY <1>1, <1>4, <1>5, <1>6 DEF IInv

\* The packet in hand, the one in front of the queue and the one in _inbound are
\* packets where they are used.
LEMMA Hands ==
  ASSUME TypeOK, IInv
  PROVE  /\ \A s \in Senders : pc[s] \in {"encode", "send"} => hold[s] \in Packets
         /\ writing => outq # <<>> /\ Head(outq) \in Packets /\ Tail(outq) \in Seq(Packets)
         /\ routed # None => routed \in Inbounds
<1>1. \A s \in Senders : pc[s] \in {"encode", "send"} => hold[s] \in Packets
  BY DEF TypeOK, IInv, OutboundInv, HeldInOrder
<1>2. writing => outq # <<>> /\ Head(outq) \in Packets /\ Tail(outq) \in Seq(Packets)
  BY DEF TypeOK, IInv, OutboundInv, WritesFront
<1>3. QED
  BY <1>1, <1>2 DEF TypeOK

\* Each action keeps the types.
LEMMA TypeStep ==
  ASSUME TypeOK, IInv, [Next]_vars
  PROVE  TypeOK'
<1> USE PoolAssumption, Hands DEF TypeOK, PoolAssumption
<1> USE DEF outVars, inVars
<1>1. ASSUME NEW s \in Senders, Calls(s)
      PROVE  TypeOK'
  BY <1>1 DEF Calls
<1>2. ASSUME NEW s \in Senders, Alloc(s)
      PROVE  TypeOK'
  <2>1. PICK p \in Packets :
          /\ hold' = [hold EXCEPT ![s] = p]
          /\ content' \in {content, [content EXCEPT ![p] = 0]}
          /\ meant' = [meant EXCEPT ![p] = 0]
    BY <1>2 DEF Alloc
  <2>2. content' \in [Packets -> 0 .. Sends] /\ meant' \in [Packets -> 0 .. Sends]
    <3>1. 0 \in 0 .. Sends
      OBVIOUS
    <3>2. \A f \in [Packets -> 0 .. Sends] : [f EXCEPT ![p] = 0] \in [Packets -> 0 .. Sends]
      BY <3>1, Zenon
    <3>3. /\ [content EXCEPT ![p] = 0] \in [Packets -> 0 .. Sends]
          /\ [meant EXCEPT ![p] = 0] \in [Packets -> 0 .. Sends]
      BY <3>2, Zenon
    <3>4. content' = content \/ content' = [content EXCEPT ![p] = 0]
      BY <2>1, Zenon
    <3>5. QED
      BY <2>1, <3>3, <3>4, Zenon
  <2>3. hold' \in [Senders -> Packets \union {None}]
    BY <2>1
  <2>4. pc' \in [Senders -> {"idle", "alloc", "encode", "send"}] /\ pool' \in SUBSET Packets
    BY <1>2 DEF Alloc
  <2>5. UNCHANGED <<connected, lambdas, outq, writing, returning, blanked, sends, inVars>>
    BY <1>2 DEF Alloc
  <2>6. QED
    BY <2>2, <2>3, <2>4, <2>5
<1>3. ASSUME NEW s \in Senders, Encode(s)
      PROVE  TypeOK'
  <2>1. sends + 1 \in 0 .. Sends
    BY <1>3 DEF Encode
  <2>2. hold[s] \in Packets
    BY <1>3 DEF Encode
  <2>3. content' \in [Packets -> 0 .. Sends] /\ meant' \in [Packets -> 0 .. Sends]
    <3>1. CASE UNCHANGED <<content, meant>>
      BY <3>1
    <3>2. CASE /\ content' = [content EXCEPT ![hold[s]] = sends + 1]
               /\ meant' = [meant EXCEPT ![hold[s]] = sends + 1]
      BY <2>1, <2>2, <3>2
    <3>3. QED
      BY <1>3, <3>1, <3>2 DEF Encode
  <2>4. QED
    BY <1>3, <2>1, <2>3 DEF Encode
<1>4. ASSUME NEW s \in Senders, OnSend(s)
      PROVE  TypeOK'
  BY <1>4 DEF OnSend
<1>5. CASE Enqueue
  <2>1. lambdas' \in Seq(Packets) /\ outq' \in Seq(Packets)
    BY <1>5, TailSet, AppendSet DEF Enqueue
  <2>2. writing' \in BOOLEAN
    BY <1>5 DEF Enqueue
  <2>3. QED
    BY <1>5, <2>1, <2>2 DEF Enqueue
<1>6. ASSUME NEW ok \in BOOLEAN, WriteEnds(ok)
      PROVE  TypeOK'
  BY <1>6 DEF WriteEnds
<1>7. ASSUME NEW p \in Packets, Blank(p) \/ GiveBack(p)
      PROVE  TypeOK'
  BY <1>7 DEF Blank, GiveBack
<1>8. CASE Closes
  BY <1>8 DEF Closes
<1>9. CASE StartTakes \/ StartPops \/ StartArms
  BY <1>9 DEF StartTakes, StartPops, StartArms
<1>10. CASE FrameTakes \/ FramePops \/ FrameRouted
  BY <1>10 DEF FrameTakes, FramePops, FrameRouted
<1>11. CASE UNCHANGED vars
  BY <1>11 DEF vars
<1>12. QED
  BY <1>1, <1>2, <1>3, <1>4, <1>5, <1>6, <1>7, <1>8, <1>9, <1>10, <1>11 DEF Next

\* What the senders hold when one of them takes or lets go of a packet.
LEMMA HeldChange ==
  ASSUME TypeOK, NotShared, NEW s \in Senders, NEW p \in Packets \union {None},
         hold' = [hold EXCEPT ![s] = p]
  PROVE  Held' = (Held \ {hold[s]}) \union ({p} \ {None})
BY DEF TypeOK, NotShared, Held, None

\* alloc_outbound(), encode() and on_send() keep every packet in one place and what
\* is encoded in it.
LEMMA SenderStep ==
  ASSUME TypeOK, IInv, NEW s \in Senders, Calls(s) \/ Alloc(s) \/ Encode(s) \/ OnSend(s)
  PROVE  OutboundInv'
<1> USE PoolAssumption, Hands DEF TypeOK, PoolAssumption, None
<1>0. /\ NotShared /\ Intact /\ PoolIsBlank /\ HeldInOrder /\ BlankedIsBlank
      /\ WritesFront
  BY DEF IInv, OutboundInv
<1>1. CASE Calls(s)
  <2>1. Held' = Held
    BY <1>1 DEF Calls, Held
  <2>2. NotShared'
    BY <1>0, <1>1, <2>1 DEF Calls, NotShared
  <2>3. HeldInOrder'
    BY <1>0, <1>1 DEF Calls, HeldInOrder
  <2>4. QED
    BY <1>0, <1>1, <2>2, <2>3
    DEF Calls, OutboundInv, Intact, PoolIsBlank, BlankedIsBlank, WritesFront
<1>2. CASE Alloc(s)
  <2>1. hold[s] = None
    BY <1>0, <1>2 DEF Alloc, HeldInOrder
  <2>2. PICK p \in Packets :
          /\ p \in IF pool # {} THEN pool ELSE Packets \ Alive
          /\ pool' = pool \ {p}
          /\ hold' = [hold EXCEPT ![s] = p]
          /\ content' = IF pool # {} THEN content ELSE [content EXCEPT ![p] = 0]
          /\ meant' = [meant EXCEPT ![p] = 0]
    BY <1>2 DEF Alloc
  <2>3. Held' = Held \union {p}
    BY <1>0, <2>1, <2>2, HeldChange DEF Held
  <2>4. p \notin Held \union ToSet(lambdas) \union ToSet(outq) \union returning
                  \union blanked
    BY <1>0, <2>2 DEF NotShared, Alive
  <2>5. /\ content'[p] = 0 /\ meant'[p] = 0
        /\ \A q \in Packets \ {p} : content'[q] = content[q] /\ meant'[q] = meant[q]
    BY <1>0, <2>2 DEF PoolIsBlank
  <2>6. /\ \A t \in Senders \ {s} : hold'[t] = hold[t] /\ hold'[t] # p /\ pc'[t] = pc[t]
        /\ hold'[s] = p /\ pc'[s] = "encode"
    <3>1. \A t \in Senders : hold[t] # p
      BY <2>4 DEF Held
    <3>2. QED
      BY <1>2, <2>2, <3>1 DEF Alloc
  <2>7. NotShared'
    <3>1. UNCHANGED <<lambdas, outq, returning, blanked>>
      BY <1>2 DEF Alloc
    <3>2. \A t, u \in Senders : t # u /\ hold'[t] = hold'[u] => hold'[t] = None
      BY <1>0, <2>6 DEF NotShared
    <3>3. pool' \subseteq pool /\ p \notin pool'
      BY <2>2
    <3>4. /\ pool' \intersect (Held' \union ToSet(lambdas) \union ToSet(outq)
                                \union returning \union blanked) = {}
          /\ Held' \intersect (ToSet(lambdas) \union ToSet(outq) \union returning
                                \union blanked) = {}
      BY <1>0, <2>3, <2>4, <3>3 DEF NotShared
    <3>5. QED
      BY <1>0, <3>1, <3>2, <3>4 DEF NotShared
  <2>8. HeldInOrder'
    <3>1. hold'[s] # None /\ pc'[s] = "encode" /\ content'[hold'[s]] = 0
          /\ meant'[hold'[s]] = 0
      BY <1>0, <2>2, <2>5, <2>6
    <3>2. ASSUME NEW t \in Senders \ {s}, hold[t] # None
          PROVE  hold[t] \in Packets \ {p}
      BY <2>6, <3>2
    <3>3. ASSUME NEW t \in Senders \ {s}
          PROVE  /\ hold'[t] # None <=> pc'[t] \in {"encode", "send"}
                 /\ hold'[t] # None => content'[hold'[t]] = meant'[hold'[t]]
                 /\ pc'[t] = "encode" => content'[hold'[t]] = 0
      <4>1. /\ hold[t] # None <=> pc[t] \in {"encode", "send"}
            /\ hold[t] # None => content[hold[t]] = meant[hold[t]]
            /\ pc[t] = "encode" => content[hold[t]] = 0
        BY <1>0 DEF HeldInOrder
      <4>2. hold'[t] = hold[t] /\ pc'[t] = pc[t]
        BY <2>6
      <4>3. QED
        BY <2>5, <3>2, <4>1, <4>2
    <3>4. QED
      BY <3>1, <3>3 DEF HeldInOrder
  <2>9. ToSet(lambdas) \subseteq Packets /\ ToSet(outq) \subseteq Packets
    BY DEF ToSet
  <2>10. QED
    BY <1>0, <1>2, <2>2, <2>4, <2>5, <2>7, <2>8, <2>9
    DEF Alloc, OutboundInv, Intact, PoolIsBlank, BlankedIsBlank, WritesFront
<1>3. CASE Encode(s)
  <2>1. hold[s] \in Packets /\ hold[s] \in Held
    BY <1>3 DEF Encode, Held
  <2>2. /\ content'[hold[s]] = meant'[hold[s]]
        /\ \A q \in Packets \ {hold[s]} : content'[q] = content[q] /\ meant'[q] = meant[q]
    <3>1. CASE UNCHANGED <<content, meant>>
      BY <1>0, <2>1, <3>1 DEF HeldInOrder
    <3>2. CASE /\ content' = [content EXCEPT ![hold[s]] = sends + 1]
               /\ meant' = [meant EXCEPT ![hold[s]] = sends + 1]
      BY <2>1, <3>2
    <3>3. QED
      BY <1>3, <3>1, <3>2 DEF Encode
  <2>3. hold[s] \notin pool \union ToSet(lambdas) \union ToSet(outq) \union blanked
    BY <1>0, <2>1 DEF NotShared
  <2>4. NotShared'
    <3>1. UNCHANGED <<pool, hold, lambdas, outq, returning, blanked>>
      BY <1>3 DEF Encode
    <3>2. Held' = Held
      BY <3>1 DEF Held
    <3>3. QED
      BY <1>0, <3>1, <3>2 DEF NotShared
  <2>5. HeldInOrder'
    <3>1. \A t \in Senders \ {s} : hold[t] # hold[s] /\ pc'[t] = pc[t]
      BY <1>0, <1>3, <2>1 DEF Encode, NotShared
    <3>2. pc'[s] = "send" /\ hold' = hold
      BY <1>3 DEF Encode
    <3>3. hold'[s] # None /\ content'[hold'[s]] = meant'[hold'[s]]
      BY <1>0, <2>1, <2>2, <3>2
    <3>4. ASSUME NEW t \in Senders \ {s}
          PROVE  /\ hold'[t] # None <=> pc'[t] \in {"encode", "send"}
                 /\ hold'[t] # None => content'[hold'[t]] = meant'[hold'[t]]
                 /\ pc'[t] = "encode" => content'[hold'[t]] = 0
      <4>1. /\ hold[t] # None <=> pc[t] \in {"encode", "send"}
            /\ hold[t] # None => content[hold[t]] = meant[hold[t]]
            /\ pc[t] = "encode" => content[hold[t]] = 0
        BY <1>0 DEF HeldInOrder
      <4>2. hold'[t] = hold[t] /\ pc'[t] = pc[t] /\ hold[t] # hold[s]
        BY <3>1, <3>2
      <4>3. QED
        BY <2>2, <4>1, <4>2
    <3>5. QED
      BY <3>2, <3>3, <3>4 DEF HeldInOrder
  <2>6. ToSet(lambdas) \subseteq Packets /\ ToSet(outq) \subseteq Packets
    BY DEF ToSet
  <2>7. QED
    BY <1>0, <1>3, <2>2, <2>3, <2>4, <2>5, <2>6
    DEF Encode, OutboundInv, Intact, PoolIsBlank, BlankedIsBlank, WritesFront
<1>4. CASE OnSend(s)
  <2>1. hold[s] \in Packets /\ hold[s] \in Held
    BY <1>4 DEF OnSend, Held
  <2>2. Held' = Held \ {hold[s]}
    <3>1. hold' = [hold EXCEPT ![s] = None]
      BY <1>4 DEF OnSend
    <3>2. Held' = (Held \ {hold[s]}) \union ({None} \ {None})
      BY <1>0, <3>1, HeldChange
    <3>3. QED
      BY <3>2
  <2>3. /\ ToSet(lambdas') \subseteq ToSet(lambdas) \union {hold[s]}
        /\ IsInjective(lambdas')
    <3>1. hold[s] \notin ToSet(lambdas)
      BY <1>0, <2>1 DEF NotShared
    <3>2. IsInjective(lambdas)
      BY <1>0 DEF NotShared
    <3>3. CASE lambdas' = Append(lambdas, hold[s])
      BY <2>1, <3>1, <3>2, <3>3, AppendSet
    <3>4. CASE lambdas' = lambdas
      BY <3>2, <3>4
    <3>5. QED
      BY <1>4, <3>3, <3>4 DEF OnSend
  <2>4. hold[s] \notin pool \union ToSet(outq) \union returning \union blanked
    BY <1>0, <2>1 DEF NotShared
  <2>5. UNCHANGED <<pool, outq, returning, blanked, content, meant, writing>>
    BY <1>4 DEF OnSend
  <2>6. \A t, u \in Senders : t # u /\ hold'[t] = hold'[u] => hold'[t] = None
    BY <1>0, <1>4 DEF OnSend, NotShared
  <2>7. NotShared'
    BY <1>0, <2>2, <2>3, <2>4, <2>5, <2>6 DEF NotShared
  <2>8. HeldInOrder'
    BY <1>0, <1>4 DEF OnSend, HeldInOrder
  <2>9. Intact'
    BY <1>0, <2>1, <2>3, <2>5, <1>4 DEF Intact, HeldInOrder
  <2>10. QED
    BY <1>0, <2>5, <2>7, <2>8, <2>9
    DEF OutboundInv, PoolIsBlank, BlankedIsBlank, WritesFront
<1>5. QED
  BY <1>1, <1>2, <1>3, <1>4

\* So do the strand, which queues and writes, and the threads that give back.
LEMMA StrandStep ==
  ASSUME TypeOK, IInv,
         \/ Enqueue
         \/ \E ok \in BOOLEAN : WriteEnds(ok)
         \/ \E p \in Packets : Blank(p) \/ GiveBack(p)
  PROVE  OutboundInv'
<1> USE Hands DEF TypeOK
<1>0. /\ NotShared /\ Intact /\ PoolIsBlank /\ HeldInOrder /\ BlankedIsBlank
      /\ WritesFront
  BY DEF IInv, OutboundInv
<1>1. CASE Enqueue
  <2>1. /\ ToSet(lambdas) = ToSet(lambdas') \union {Head(lambdas)}
        /\ IsInjective(lambdas') /\ Head(lambdas) \notin ToSet(lambdas')
        /\ Head(lambdas) \in Packets
    BY <1>0, <1>1, TailSet DEF Enqueue, NotShared
  <2>2. Head(lambdas) \notin ToSet(outq)
    BY <1>0, <2>1 DEF NotShared
  <2>3. /\ ToSet(outq') = ToSet(outq) \union {Head(lambdas)} /\ IsInjective(outq')
        /\ outq' # <<>>
    <3>1. outq \in Seq(Packets) /\ IsInjective(outq) /\ outq' = Append(outq, Head(lambdas))
      BY <1>0, <1>1 DEF Enqueue, NotShared
    <3>2. QED
      BY <2>1, <2>2, <3>1, AppendSet
  <2>4. UNCHANGED <<pool, hold, pc, returning, blanked, content, meant>>
    BY <1>1 DEF Enqueue
  <2>5. Held' = Held
    BY <2>4 DEF Held
  <2>6. NotShared'
    BY <1>0, <2>1, <2>3, <2>4, <2>5 DEF NotShared
  <2>7. Intact' /\ HeldInOrder'
    BY <1>0, <2>1, <2>3, <2>4 DEF Intact, HeldInOrder
  <2>8. QED
    BY <1>0, <2>3, <2>4, <2>6, <2>7
    DEF OutboundInv, PoolIsBlank, BlankedIsBlank, WritesFront
<1>2. ASSUME NEW ok \in BOOLEAN, WriteEnds(ok)
      PROVE  OutboundInv'
  <2>1. /\ outq # <<>>
        /\ ToSet(outq) = ToSet(outq') \union {Head(outq)}
        /\ IsInjective(outq') /\ Head(outq) \notin ToSet(outq')
    BY <1>0, <1>2, TailSet DEF WriteEnds, NotShared, WritesFront
  <2>2. returning' = returning \union {Head(outq)}
    BY <1>2 DEF WriteEnds
  <2>3. writing' => outq' # <<>>
    BY <1>2, <2>1, TailSet DEF WriteEnds
  <2>4. UNCHANGED <<pool, hold, pc, lambdas, blanked, content, meant>>
    BY <1>2 DEF WriteEnds
  <2>5. Held' = Held
    BY <2>4 DEF Held
  <2>6. NotShared'
    BY <1>0, <2>1, <2>2, <2>4, <2>5 DEF NotShared
  <2>7. Intact' /\ HeldInOrder'
    BY <1>0, <2>1, <2>4 DEF Intact, HeldInOrder
  <2>8. QED
    BY <1>0, <2>3, <2>4, <2>6, <2>7
    DEF OutboundInv, PoolIsBlank, BlankedIsBlank, WritesFront
<1>3. ASSUME NEW p \in Packets, Blank(p)
      PROVE  OutboundInv'
  <2>1. p \notin pool \union Held \union ToSet(lambdas) \union ToSet(outq) \union blanked
    BY <1>0, <1>3 DEF Blank, NotShared
  <2>2. /\ returning' = returning \ {p} /\ blanked' = blanked \union {p}
        /\ content'[p] = 0 /\ \A q \in Packets \ {p} : content'[q] = content[q]
        /\ UNCHANGED <<pool, hold, pc, lambdas, outq, writing, meant>>
    BY <1>3 DEF Blank
  <2>3. Held' = Held
    BY <2>2 DEF Held
  <2>4. NotShared'
    BY <1>0, <2>1, <2>2, <2>3 DEF NotShared
  <2>5. ToSet(lambdas) \subseteq Packets /\ ToSet(outq) \subseteq Packets
    BY DEF ToSet
  <2>6. Intact' /\ PoolIsBlank' /\ BlankedIsBlank'
    BY <1>0, <2>1, <2>2, <2>5 DEF Intact, PoolIsBlank, BlankedIsBlank
  <2>7. HeldInOrder'
    <3>1. \A s \in Senders : hold[s] # None => hold[s] \in Packets \ {p}
      BY <2>1 DEF Held
    <3>2. \A s \in Senders : pc[s] = "encode" => hold[s] # None
      BY <1>0 DEF HeldInOrder
    <3>3. QED
      BY <1>0, <2>2, <3>1, <3>2 DEF HeldInOrder
  <2>8. QED
    BY <1>0, <2>2, <2>4, <2>6, <2>7 DEF OutboundInv, WritesFront
<1>4. ASSUME NEW p \in Packets, GiveBack(p)
      PROVE  OutboundInv'
  <2>1. /\ p \in blanked /\ blanked' = blanked \ {p} /\ pool' \subseteq pool \union {p}
        /\ UNCHANGED <<hold, pc, lambdas, outq, writing, returning, content, meant>>
    BY <1>4 DEF GiveBack
  <2>2. Held' = Held
    BY <2>1 DEF Held
  <2>3. NotShared'
    BY <1>0, <2>1, <2>2 DEF NotShared
  <2>4. QED
    BY <1>0, <2>1, <2>3
    DEF OutboundInv, Intact, PoolIsBlank, HeldInOrder, BlankedIsBlank, WritesFront
<1>5. QED
  BY <1>1, <1>2, <1>3, <1>4

\* However packets come back, the pool stays within its size.
LEMMA SizeStep == TypeOK /\ IInv /\ [Next]_vars => SizeInv'
<1> SUFFICES ASSUME TypeOK, IInv, [Next]_vars
             PROVE  SizeInv'
  OBVIOUS
<1> USE PoolAssumption DEF PoolAssumption, TypeOK
<1>1. IsFiniteSet(pool) /\ Cardinality(pool) <= DefaultSize
  BY DEF IInv, SizeInv, PoolFinite, PoolBounded
<1>2. CASE pool' \subseteq pool
  BY <1>1, <1>2, FS_Subset, FS_CardinalityType DEF SizeInv, PoolFinite, PoolBounded
<1>3. ASSUME NEW p \in Packets, GiveBack(p), pool' = pool \union {p},
             ~(DefaultSize <= Cardinality(pool))
      PROVE  SizeInv'
  <2>1. /\ IsFiniteSet(pool')
        /\ Cardinality(pool') \in {Cardinality(pool), Cardinality(pool) + 1}
    BY <1>1, <1>3, FS_AddElement
  <2>2. QED
    BY <1>1, <1>3, <2>1, FS_CardinalityType DEF SizeInv, PoolFinite, PoolBounded
<1>4. \/ pool' \subseteq pool
      \/ \E p \in Packets : /\ GiveBack(p) /\ pool' = pool \union {p}
                            /\ ~(DefaultSize <= Cardinality(pool))
  BY DEF Next, vars, outVars, Calls, Alloc, Encode, OnSend, Enqueue, WriteEnds, Blank,
         GiveBack, Closes, StartTakes, StartPops, StartArms, FrameTakes, FramePops,
         FrameRouted
<1>5. QED
  BY <1>2, <1>3, <1>4

\* start() and the strand are alone with the inbound pool and give back what they
\* take.
LEMMA InboundStep ==
  ASSUME TypeOK, IInv,
         \/ StartTakes \/ StartPops \/ StartArms
         \/ FrameTakes \/ FramePops \/ FrameRouted
  PROVE  InboundInv'
<1> USE PoolAssumption DEF TypeOK, PoolAssumption, None
<1>0. InboundAlone /\ InboundConserved /\ InboundStages
  BY DEF IInv, InboundInv
<1>1. CASE StartTakes
  BY <1>0, <1>1
  DEF StartTakes, InboundInv, InboundAlone, InboundConserved, InboundStages
<1>2. CASE StartPops
  BY <1>0, <1>2
  DEF StartPops, InboundInv, InboundAlone, InboundConserved, InboundStages
\* One packet is in _inbound, and the constructor made more than one.
<1>3. ASSUME inbound # None, routed = None, front = None
      PROVE  inpool # {}
  <2>1. Inbounds = inpool \union {inbound}
    BY <1>0, <1>3 DEF InboundConserved
  <2>2. inpool = {} => Cardinality(Inbounds) = 1
    <3>1. inpool = {} => Inbounds = {inbound}
      BY <2>1
    <3>2. QED
      BY <3>1, FS_Singleton
  <2>3. QED
    BY <2>2
<1>4. CASE StartArms
  <2>1. inpool # {}
    BY <1>0, <1>3, <1>4 DEF StartArms, InboundStages
  <2>2. QED
    BY <1>0, <1>4, <2>1
    DEF StartArms, InboundInv, InboundAlone, InboundConserved, InboundStages
<1>5. CASE FrameTakes
  BY <1>0, <1>5
  DEF FrameTakes, InboundInv, InboundAlone, InboundConserved, InboundStages
<1>6. CASE FramePops
  BY <1>0, <1>6
  DEF FramePops, InboundInv, InboundAlone, InboundConserved, InboundStages
<1>7. CASE FrameRouted
  <2>1. inpool' = inpool \union {routed}
    <3>1. IsFiniteSet(inpool) /\ Cardinality(inpool) < Cardinality(Inbounds)
      <4>1. inpool \subseteq Inbounds /\ inpool # Inbounds
        BY <1>0, <1>7 DEF FrameRouted, InboundStages
      <4>2. /\ IsFiniteSet(inpool) /\ Cardinality(inpool) <= Cardinality(Inbounds)
            /\ Cardinality(inpool) # Cardinality(Inbounds)
        BY <4>1, FS_Subset
      <4>3. QED
        BY <4>2, FS_CardinalityType
    <3>2. QED
      BY <1>7, <3>1, FS_CardinalityType DEF FrameRouted
  <2>2. /\ start = "armed" /\ routed # None /\ front = None /\ inbound # None
        /\ routed' = None /\ UNCHANGED <<start, front, inbound, reading>>
    BY <1>0, <1>7 DEF FrameRouted, InboundStages
  <2>3. InboundAlone' /\ InboundStages'
    BY <1>0, <2>1, <2>2 DEF InboundAlone, InboundStages
  <2>4. InboundConserved'
    BY <1>0, <2>1, <2>2 DEF InboundConserved
  <2>5. QED
    BY <2>3, <2>4 DEF InboundInv
<1>8. QED
  BY <1>1, <1>2, <1>4, <1>5, <1>6, <1>7

\* The inductive invariant.
THEOREM Invariance == Spec => [](TypeOK /\ IInv)
<1>1. TypeOK /\ IInv /\ [Next]_vars => (TypeOK /\ IInv)'
  <2> SUFFICES ASSUME TypeOK, IInv, [Next]_vars
               PROVE  (TypeOK /\ IInv)'
    OBVIOUS
  <2>1. TypeOK' /\ SizeInv'
    BY TypeStep, SizeStep
  <2>2. UNCHANGED outVars => OutboundInv'
    BY DEF IInv, OutboundInv, outVars, NotShared, Held, Intact, PoolIsBlank, HeldInOrder,
        BlankedIsBlank, WritesFront
  <2>3. UNCHANGED inVars => InboundInv'
    BY DEF IInv, InboundInv, inVars, InboundAlone, InboundConserved, InboundStages
  <2>4. ASSUME NEW s \in Senders, Calls(s) \/ Alloc(s) \/ Encode(s) \/ OnSend(s)
        PROVE  OutboundInv' /\ InboundInv'
    <3>1. UNCHANGED inVars
      BY <2>4 DEF Calls, Alloc, Encode, OnSend
    <3>2. OutboundInv'
      BY <2>4, SenderStep
    <3>3. QED
      BY <2>3, <3>1, <3>2
  <2>5. ASSUME \/ Enqueue
               \/ \E ok \in BOOLEAN : WriteEnds(ok)
               \/ \E p \in Packets : Blank(p) \/ GiveBack(p)
        PROVE  OutboundInv' /\ InboundInv'
    <3>1. UNCHANGED inVars
      BY <2>5 DEF Enqueue, WriteEnds, Blank, GiveBack
    <3>2. OutboundInv'
      BY <2>5, StrandStep
    <3>3. QED
      BY <2>3, <3>1, <3>2
  <2>6. ASSUME Closes \/ UNCHANGED vars
        PROVE  OutboundInv' /\ InboundInv'
    <3>1. UNCHANGED outVars /\ UNCHANGED inVars
      BY <2>6 DEF Closes, vars
    <3>2. QED
      BY <2>2, <2>3, <3>1
  <2>7. ASSUME \/ StartTakes \/ StartPops \/ StartArms
               \/ FrameTakes \/ FramePops \/ FrameRouted
        PROVE  OutboundInv' /\ InboundInv'
    <3>1. UNCHANGED outVars
      BY <2>7 DEF StartTakes, StartPops, StartArms, FrameTakes, FramePops, FrameRouted
    <3>2. InboundInv'
      BY <2>7, InboundStep
    <3>3. QED
      BY <2>2, <3>1, <3>2
  <2>8. OutboundInv' /\ InboundInv'
    BY <2>4, <2>5, <2>6, <2>7 DEF Next
  <2>9. QED
    BY <2>1, <2>8 DEF IInv
<1>2. QED
  BY Initially, <1>1, PTL DEF Spec

\* The pools, the queue and what is in hand keep their types: no null packet gets
\* into a pool (dealloc_inbound).
THEOREM TypeCorrect == Spec => []TypeOK
<1>1. QED
  BY Invariance, PTL

\* A packet is in the pool, with one sender, once on the strand or on its way back,
\* however many threads send and give back (alloc_outbound, dealloc_outbound).
THEOREM Sharing == Spec => []NotShared
<1>1. IInv => NotShared
  BY DEF IInv, OutboundInv
<1>2. QED
  BY <1>1, Invariance, PTL

\* What is queued or written is what its sender encoded (on_send, write).
THEOREM Contents == Spec => []Intact
<1>1. IInv => Intact
  BY DEF IInv, OutboundInv
<1>2. QED
  BY <1>1, Invariance, PTL

\* The outbound pool holds only packets that init() was called on.
THEOREM Blanks == Spec => []PoolIsBlank
<1>1. IInv => PoolIsBlank
  BY DEF IInv, OutboundInv
<1>2. QED
  BY <1>1, Invariance, PTL

\* The outbound pool never exceeds _default_pool_size_.
THEOREM Bounded == Spec => []PoolBounded
<1>1. IInv => PoolBounded
  BY DEF IInv, SizeInv
<1>2. QED
  BY <1>1, Invariance, PTL

\* The inbound pool needs no lock: whoever takes from it is alone with it.
THEOREM Alone == Spec => []InboundAlone
<1>1. IInv => InboundAlone
  BY DEF IInv, InboundInv
<1>2. QED
  BY <1>1, Invariance, PTL

\* The inbound pool is never found empty, and no packet of it is lost.
THEOREM Conserved == Spec => []InboundConserved
<1>1. IInv => InboundConserved
  BY DEF IInv, InboundInv
<1>2. QED
  BY <1>1, Invariance, PTL

-----------------------------------------------------------------------------
(* The bytes: PacketLayout                                                 *)

\* The numbers of bytes that a packet is made of.
LEMMA Sizes ==
  /\ PacketSize \in Nat /\ Raw \in Nat /\ 0 < Raw /\ Raw < Width
  /\ Header \in Nat /\ 0 < Header /\ Header + Raw = PacketSize /\ PacketSize < Width
  /\ \A n \in 1 .. Raw : HeaderFor(n) \in Header + 1 .. PacketSize
BY LayoutAssumption DEF PacketSize, Raw, HeaderFor

\* A body comes back at the size that was put in its header: none is so long that
\* its size would be cut to 16 bits.
LEMMA SizeComesBack ==
  ASSUME NEW n \in 1 .. Raw
  PROVE  BodySize(HeaderFor(n)) = n
<1>1. n \in Nat /\ n < Width /\ Width \in Nat \ {0} /\ Header \in Nat
  BY Sizes, LayoutAssumption
<1>2. n % Width = n
  BY <1>1, Z3
<1>3. Header <= HeaderFor(n) /\ HeaderFor(n) - Header = n
  BY <1>1 DEF HeaderFor
<1>4. QED
  BY <1>2, <1>3 DEF BodySize

\* The bytes of a frame are bytes.
LEMMA FrameBytes ==
  ASSUME NEW m \in 0 .. Frames, NEW n \in 1 .. Raw, NEW k \in 0 .. PacketSize
  PROVE  FrameByte(m, n, k) \in Byte
<1>1. HeaderFor(n) \in 0 .. PacketSize
  BY Sizes
<1>2. 0 \in 0 .. PacketSize
  BY Sizes
<1>3. (IF k < Header THEN HeaderFor(n) ELSE 0) \in 0 .. PacketSize
  BY <1>1, <1>2
<1>4. QED
  BY <1>3 DEF FrameByte, Byte

\* Taking n bytes off the wire moves the reader on by as many.
LEMMA Consume ==
  ASSUME NEW end \in [0 .. Len(sent) -> Nat], IsStream(end), wire \in Seq(Byte),
         UNCHANGED <<sent, use>>, NEW n \in 0 .. Len(wire),
         wire' = SubSeq(wire, n + 1, Len(wire)),
         Position(end) \in Nat, Position(end)' = Position(end) + n
  PROVE  IsStream(end)' /\ wire' \in Seq(Byte) /\ Len(wire') = Len(wire) - n
<1>1. Len(wire) \in Nat /\ n \in Nat /\ n + 1 \in Int /\ Len(wire) \in Int
  BY LenProperties
<1>2. \A i \in n + 1 .. Len(wire) : wire[i] \in Byte
  BY <1>1, ElementOfSeq
<1>3. /\ SubSeq(wire, n + 1, Len(wire)) \in Seq(Byte)
      /\ Len(SubSeq(wire, n + 1, Len(wire)))
           = IF n + 1 <= Len(wire) THEN Len(wire) - (n + 1) + 1 ELSE 0
      /\ \A i \in 1 .. Len(wire) - (n + 1) + 1 :
           SubSeq(wire, n + 1, Len(wire))[i] = wire[(n + 1) + i - 1]
  BY <1>1, <1>2, SubSeqProperties
<1>4. /\ Len(wire') = Len(wire) - n
      /\ \A i \in 1 .. Len(wire') : i + n \in 1 .. Len(wire) /\ wire'[i] = wire[i + n]
  <2>1. Len(wire') = Len(wire) - n
    BY <1>1, <1>3
  <2>2. ASSUME NEW i \in 1 .. Len(wire')
        PROVE  /\ i \in 1 .. Len(wire) - (n + 1) + 1 /\ (n + 1) + i - 1 = i + n
               /\ i + n \in 1 .. Len(wire)
    BY <1>1, <2>1
  <2>3. QED
    BY <1>3, <2>1, <2>2
<1>5. sent' = sent /\ Written' = Written
  BY DEF Written
<1>6. ASSUME NEW m \in 1 .. Written, NEW k \in 0 .. HeaderFor(sent[m]) - 1,
             NEW i \in 1 .. Len(wire'), Position(end)' + i = end[m - 1] + k + 1
      PROVE  wire'[i] = FrameByte(m, sent[m], k)
  <2>1. i + n \in 1 .. Len(wire) /\ wire'[i] = wire[i + n]
    BY <1>4
  <2>2. Position(end) + (i + n) = end[m - 1] + k + 1
    BY <1>1, <1>6
  <2>3. wire[i + n] = FrameByte(m, sent[m], k)
    BY <2>1, <2>2 DEF IsStream
  <2>4. QED
    BY <2>1, <2>3
<1>7. Position(end)' + Len(wire') = end[Written']
  BY <1>1, <1>4, <1>5 DEF IsStream
<1>8. /\ end[0] = 0
      /\ \A m \in 1 .. Len(sent') : end[m] = end[m - 1] + HeaderFor(sent'[m])
      /\ \A m, l \in 0 .. Len(sent') : m <= l => end[m] <= end[l]
  BY <1>5 DEF IsStream
<1>9. \A m \in 1 .. Written' : \A k \in 0 .. HeaderFor(sent'[m]) - 1, i \in 1 .. Len(wire') :
        Position(end)' + i = end[m - 1] + k + 1 => wire'[i] = FrameByte(m, sent'[m], k)
  <2>1. ASSUME NEW m \in 1 .. Written', NEW k \in 0 .. HeaderFor(sent'[m]) - 1,
               NEW i \in 1 .. Len(wire'), Position(end)' + i = end[m - 1] + k + 1
        PROVE  wire'[i] = FrameByte(m, sent'[m], k)
    <3>1. m \in 1 .. Written /\ k \in 0 .. HeaderFor(sent[m]) - 1 /\ sent'[m] = sent[m]
      BY <1>5, <2>1
    <3>2. wire'[i] = FrameByte(m, sent[m], k)
      BY <1>6, <2>1, <3>1
    <3>3. QED
      BY <3>1, <3>2
  <2>2. QED
    BY <2>1
<1>10. IsStream(end)'
  BY <1>7, <1>8, <1>9 DEF IsStream, HeaderFor
<1>11. QED
  BY <1>3, <1>4, <1>10

\* Where the reader is in the stream.
LEMMA PositionIs ==
  ASSUME LayoutTypeOK, NEW end \in [0 .. Len(sent) -> Nat]
  PROVE  /\ Position(end) \in Nat /\ end[delivered] \in Nat
         /\ stage = "header" => Position(end) = end[delivered]
         /\ stage = "body" => Position(end) = end[delivered] + Header
         /\ stage = "route" => Position(end) = end[delivered] + Header + size
<1>1. delivered \in 0 .. Len(sent) /\ size \in Nat /\ Header \in Nat
  BY LayoutAssumption DEF LayoutTypeOK
<1>2. QED
  BY <1>1 DEF Position

\* How much of the next frame is on the wire when some of it may be: all of it that
\* was not read, and nothing of an earlier one in front of it.
LEMMA NextFrame ==
  ASSUME LayoutTypeOK, ReaderHolds, NEW end \in [0 .. Len(sent) -> Nat], IsStream(end),
         delivered < Written
  PROVE  /\ delivered + 1 \in 1 .. Written /\ delivered + 1 \in 1 .. Len(sent)
         /\ sent[delivered + 1] \in 1 .. Raw
         /\ end[delivered + 1] = end[delivered] + HeaderFor(sent[delivered + 1])
         /\ Position(end) + Len(wire) >= end[delivered + 1]
         /\ stage = "header" => /\ Len(wire) >= HeaderFor(sent[delivered + 1])
                                /\ wire[1] = FrameByte(delivered + 1, sent[delivered + 1], 0)
         /\ stage = "body" =>
              /\ Len(wire) >= size
              /\ \A k \in 0 .. size - 1 : wire[k + 1] = <<delivered + 1, Header + k, 0>>
<1>1. /\ Len(sent) \in Nat /\ Len(wire) \in Nat /\ delivered \in Nat
      /\ sent \in Seq(1 .. Raw)
  BY LenProperties DEF LayoutTypeOK
<1>2. Written \in Int /\ Written <= Len(sent)
  BY <1>1 DEF Written
<1>3. delivered + 1 \in 1 .. Written /\ delivered + 1 \in 1 .. Len(sent)
  BY <1>1, <1>2
<1>4. sent[delivered + 1] \in 1 .. Raw
  BY <1>1, <1>3, ElementOfSeq
<1>5. /\ end[delivered + 1] = end[delivered] + HeaderFor(sent[delivered + 1])
      /\ end[delivered + 1] <= end[Written] /\ Position(end) + Len(wire) = end[Written]
  <2>1. /\ delivered + 1 \in 0 .. Len(sent) /\ Written \in 0 .. Len(sent)
        /\ delivered + 1 <= Written /\ (delivered + 1) - 1 = delivered
    BY <1>1, <1>2, <1>3
  <2>2. QED
    BY <1>3, <2>1 DEF IsStream
<1>6. /\ HeaderFor(sent[delivered + 1]) = Header + sent[delivered + 1]
      /\ sent[delivered + 1] \in Nat /\ Header \in Nat /\ 0 < Header
      /\ 0 < sent[delivered + 1]
  BY <1>4, Sizes DEF HeaderFor
<1>7. /\ end[delivered] \in Nat /\ end[delivered + 1] \in Nat /\ Position(end) \in Nat
      /\ end[Written] \in Nat
  BY <1>1, <1>2, <1>3, PositionIs
<1>8. ASSUME NEW k \in 0 .. HeaderFor(sent[delivered + 1]) - 1, NEW i \in 1 .. Len(wire),
             Position(end) + i = end[delivered] + k + 1
      PROVE  wire[i] = FrameByte(delivered + 1, sent[delivered + 1], k)
  <2>1. (delivered + 1) - 1 = delivered
    BY <1>1
  <2>2. \A m \in 1 .. Written : \A l \in 0 .. HeaderFor(sent[m]) - 1, j \in 1 .. Len(wire) :
          Position(end) + j = end[m - 1] + l + 1 => wire[j] = FrameByte(m, sent[m], l)
    BY DEF IsStream
  <2>3. QED
    BY <1>3, <1>8, <2>1, <2>2
<1>9. ASSUME stage = "header"
      PROVE  /\ Len(wire) >= HeaderFor(sent[delivered + 1])
             /\ wire[1] = FrameByte(delivered + 1, sent[delivered + 1], 0)
  <2>1. Position(end) = end[delivered]
    BY <1>9, PositionIs
  <2>2. Len(wire) >= HeaderFor(sent[delivered + 1])
    BY <1>1, <1>5, <1>6, <1>7, <2>1
  <2>3. 0 \in 0 .. HeaderFor(sent[delivered + 1]) - 1 /\ 1 \in 1 .. Len(wire)
    BY <1>1, <1>6, <2>2
  <2>4. QED
    BY <1>7, <1>8, <2>1, <2>2, <2>3
<1>10. ASSUME stage = "body"
       PROVE  /\ Len(wire) >= size
              /\ \A k \in 0 .. size - 1 : wire[k + 1] = <<delivered + 1, Header + k, 0>>
  <2>1. Position(end) = end[delivered] + Header /\ size = sent[delivered + 1]
    BY <1>10, PositionIs DEF ReaderHolds
  <2>2. Len(wire) >= size
    BY <1>1, <1>5, <1>6, <1>7, <2>1
  <2>3. ASSUME NEW k \in 0 .. size - 1
        PROVE  wire[k + 1] = <<delivered + 1, Header + k, 0>>
    <3>1. k \in Nat /\ k < size /\ size \in Nat
      BY <1>6, <2>1
    <3>2. Header + k \in 0 .. HeaderFor(sent[delivered + 1]) - 1 /\ ~(Header + k < Header)
      BY <1>6, <2>1, <3>1
    <3>3. k + 1 \in 1 .. Len(wire)
      BY <1>1, <2>2, <3>1
    <3>4. Position(end) + (k + 1) = end[delivered] + (Header + k) + 1
      <4>1. end[delivered] \in Nat /\ Header \in Nat /\ k \in Nat
        BY <1>6, <1>7, <3>1
      <4>2. Position(end) = end[delivered] + Header
        BY <2>1
      <4>3. QED
        BY ONLY <4>1, <4>2
    <3>5. wire[k + 1] = FrameByte(delivered + 1, sent[delivered + 1], Header + k)
      BY <1>8, <3>2, <3>3, <3>4
    <3>6. QED
      BY <3>2, <3>5 DEF FrameByte
  <2>4. QED
    BY <2>2, <2>3
<1>11. QED
  BY <1>3, <1>4, <1>5, <1>7, <1>9, <1>10

\* encode() adds a frame at the end of the stream.
LEMMA EncodeBodyStep ==
  ASSUME LayoutIInv, NEW n \in 1 .. Raw, EncodeBody(n)
  PROVE  LayoutIInv'
<1> DEFINE l == Len(sent)
           m == l + 1
<1>1. /\ use = 0 /\ l < Frames /\ use' = HeaderFor(n) /\ sent' = Append(sent, n)
      /\ UNCHANGED <<wire, readerVars>>
      /\ buffers' = [k \in 0 .. PacketSize - 1 |->
                       IF k < Header THEN <<m, k, HeaderFor(n)>>
                       ELSE IF k < Header + n THEN <<m, k, 0>>
                       ELSE buffers[k]]
  BY DEF EncodeBody
<1>2. /\ sent \in Seq(1 .. Raw) /\ l \in Nat
  BY LenProperties DEF LayoutIInv, LayoutTypeOK
<1>3. /\ sent' \in Seq(1 .. Raw) /\ Len(sent') = m /\ sent'[m] = n
      /\ \A i \in 1 .. l : sent'[i] = sent[i]
  BY <1>1, <1>2, AppendProperties
<1>4. /\ use' \in Header + 1 .. PacketSize /\ use' > 0 /\ Written = l /\ Written' = l
      /\ use' = Header + n
  BY <1>1, <1>2, <1>3, Sizes DEF Written, HeaderFor
<1>5. m \in 0 .. Frames /\ m \in 1 .. Len(sent')
  BY <1>1, <1>2, <1>3, LayoutAssumption
<1>6. buffers' \in [0 .. PacketSize - 1 -> Byte]
  <2>1. \A k \in 0 .. PacketSize - 1 : k \in 0 .. PacketSize
    BY Sizes
  <2>2. HeaderFor(n) \in 0 .. PacketSize /\ 0 \in 0 .. PacketSize
    BY Sizes
  <2>3. \A k \in 0 .. PacketSize - 1 : <<m, k, HeaderFor(n)>> \in Byte /\ <<m, k, 0>> \in Byte
    BY <1>5, <2>1, <2>2 DEF Byte
  <2>4. \A k \in 0 .. PacketSize - 1 : buffers[k] \in Byte
    BY DEF LayoutIInv, LayoutTypeOK
  <2>5. QED
    BY <1>1, <2>3, <2>4
<1>7. LayoutTypeOK'
  <2>1. use' \in 0 .. PacketSize
    BY <1>4, Sizes
  <2>2. delivered' \in 0 .. Len(sent')
    BY <1>1, <1>2, <1>3 DEF LayoutIInv, LayoutTypeOK, readerVars
  <2>3. QED
    BY <1>1, <1>3, <1>6, <2>1, <2>2 DEF LayoutIInv, LayoutTypeOK, readerVars
<1>8. WriterHolds'
  <2>1. 0 < Len(sent') /\ use' = HeaderFor(sent'[Len(sent')])
    BY <1>1, <1>2, <1>3
  <2>2. ASSUME NEW k \in 0 .. use' - 1 PROVE buffers'[k] = FrameByte(Len(sent'), n, k)
    <3>1. k \in 0 .. PacketSize - 1 /\ k < Header + n /\ k \in Nat
      BY <1>4, Sizes
    <3>2. buffers'[k] = <<m, k, IF k < Header THEN HeaderFor(n) ELSE 0>>
      BY <1>1, <3>1
    <3>3. QED
      BY <1>3, <3>2 DEF FrameByte
  <2>3. sent'[Len(sent')] = n
    BY <1>3
  <2>4. QED
    BY <2>1, <2>2, <2>3 DEF WriterHolds, HeaderFor
<1>9. ReaderHolds'
  <2>1. delivered < Written => delivered + 1 \in 1 .. l
    BY <1>2, <1>4 DEF LayoutIInv, LayoutTypeOK
  <2>2. delivered < Written => sent'[delivered + 1] = sent[delivered + 1]
    BY <1>3, <2>1
  <2>3. QED
    BY <1>1, <1>4, <2>2 DEF LayoutIInv, ReaderHolds, readerVars
<1>10. PICK end \in [0 .. l -> Nat] : IsStream(end)
  BY DEF LayoutIInv
<1>11. PICK more \in [0 .. Len(sent') -> Nat] :
         /\ \A i \in 0 .. l : more[i] = end[i]
         /\ more[m] = end[l] + HeaderFor(n)
  <2> DEFINE f == [i \in 0 .. m |-> IF i = m THEN end[l] + HeaderFor(n) ELSE end[i]]
  <2>1. end[l] \in Nat
    BY <1>2
  <2>2. end[l] + HeaderFor(n) \in Nat
    BY <2>1, Sizes
  <2>3. \A i \in 0 .. m : i # m => i \in 0 .. l
    BY <1>2
  <2>4. \A i \in 0 .. l : i \in 0 .. m /\ i # m
    BY <1>2
  <2>5. m \in 0 .. m
    BY <1>2
  <2>6. f \in [0 .. m -> Nat]
    BY <2>2, <2>3
  <2>7. \A i \in 0 .. l : f[i] = end[i]
    BY <2>4
  <2>8. f[m] = end[l] + HeaderFor(n)
    BY <2>5
  <2> HIDE DEF f
  <2>9. QED
    BY <1>3, <2>6, <2>7, <2>8
<1>12. IsStream(more)'
  <2>1. more[0] = 0
    BY <1>2, <1>10, <1>11 DEF IsStream
  <2>2. ASSUME NEW i \in 1 .. Len(sent')
        PROVE  more[i] = more[i - 1] + HeaderFor(sent'[i])
    <3>1. CASE i = m
      <4>1. i - 1 = l /\ l \in 0 .. l
        BY <1>2, <3>1
      <4>2. QED
        BY <1>3, <1>11, <3>1, <4>1
    <3>2. CASE i # m
      <4>1. i \in 1 .. l /\ i \in 0 .. l /\ i - 1 \in 0 .. l
        BY <1>2, <1>3, <3>2
      <4>2. QED
        BY <1>3, <1>10, <1>11, <4>1 DEF IsStream
    <3>3. QED
      BY <3>1, <3>2
  <2>3. ASSUME NEW i \in 0 .. Len(sent'), NEW j \in 0 .. Len(sent'), i <= j
        PROVE  more[i] <= more[j]
    <3>1. \A k \in 0 .. l : end[k] <= end[l] /\ end[k] \in Nat
      <4>1. \A k \in 0 .. l : k <= l /\ l \in 0 .. l
        BY <1>2
      <4>2. \A k, h \in 0 .. l : k <= h => end[k] <= end[h]
        BY <1>10 DEF IsStream
      <4>3. QED
        BY <4>1, <4>2
    <3>2. end[l] <= more[m] /\ more[m] \in Nat /\ end[l] \in Nat
      BY <1>2, <1>11, <3>1, Sizes
    <3>3. CASE j = m
      <4>1. i = m \/ i \in 0 .. l
        BY <1>2, <1>3
      <4>2. QED
        BY <1>11, <3>1, <3>2, <3>3, <4>1
    <3>4. CASE j # m
      <4>1. i \in 0 .. l /\ j \in 0 .. l
        BY <1>2, <1>3, <2>3, <3>4
      <4>2. QED
        BY <1>10, <1>11, <2>3, <4>1 DEF IsStream
    <3>5. QED
      BY <3>3, <3>4
  <2>4. Position(more)' = Position(end)
    <3>1. delivered \in 0 .. l
      BY DEF LayoutIInv, LayoutTypeOK
    <3>2. QED
      BY <1>1, <1>11, <3>1 DEF Position, readerVars
  <2>5. Position(more)' + Len(wire') = more[Written']
    BY <1>1, <1>2, <1>4, <1>10, <1>11, <2>4 DEF IsStream
  <2>6. ASSUME NEW i \in 1 .. Written', NEW k \in 0 .. HeaderFor(sent'[i]) - 1,
               NEW p \in 1 .. Len(wire'), Position(more)' + p = more[i - 1] + k + 1
        PROVE  wire'[p] = FrameByte(i, sent'[i], k)
    <3>1. i \in 1 .. l /\ i \in 1 .. Written /\ i - 1 \in 0 .. l
      BY <1>2, <1>4
    <3>2. /\ sent'[i] = sent[i] /\ more[i - 1] = end[i - 1] /\ p \in 1 .. Len(wire)
          /\ wire' = wire
      BY <1>1, <1>3, <1>11, <3>1
    <3>3. wire[p] = FrameByte(i, sent[i], k)
      BY <1>10, <2>4, <2>6, <3>1, <3>2 DEF IsStream
    <3>4. QED
      BY <3>2, <3>3
  <2>7. QED
    BY <2>1, <2>2, <2>3, <2>5, <2>6 DEF IsStream, HeaderFor
<1>13. QED
  BY <1>7, <1>8, <1>9, <1>11, <1>12 DEF LayoutIInv

\* The frame that was encoded is put on the wire, behind what is there.
LEMMA WriteStep ==
  ASSUME LayoutIInv, Write
  PROVE  LayoutIInv'
<1> DEFINE l == Len(sent)
           f == [k \in 1 .. use |-> buffers[k - 1]]
<1>1. use > 0 /\ use' = 0 /\ wire' = wire \o f /\ UNCHANGED <<buffers, sent, readerVars>>
  BY DEF Write
<1>2. /\ sent \in Seq(1 .. Raw) /\ l \in Nat /\ 0 < l /\ use \in Nat /\ use <= PacketSize
      /\ use = HeaderFor(sent[l]) /\ wire \in Seq(Byte) /\ Len(wire) \in Nat
  BY <1>1, LenProperties, Sizes DEF LayoutIInv, LayoutTypeOK, WriterHolds
<1>3. Written = l - 1 /\ Written' = l /\ l \in 1 .. l /\ l - 1 \in 0 .. l
  BY <1>1, <1>2 DEF Written
<1>4. f \in Seq(Byte) /\ Len(f) = use /\ \A k \in 1 .. use : f[k] = buffers[k - 1]
  <2>1. \A k \in 1 .. use : k - 1 \in 0 .. PacketSize - 1
    BY <1>2, Sizes
  <2>2. f \in [1 .. use -> Byte]
    BY <2>1 DEF LayoutIInv, LayoutTypeOK
  <2>3. f \in Seq(Byte)
    <3>1. [1 .. use -> Byte] \subseteq UNION {[1 .. n -> Byte] : n \in Nat}
      BY <1>2
    <3>2. QED
      BY <2>2, <3>1, SeqDef
  <2>4. DOMAIN f = 1 .. use
    OBVIOUS
  <2>5. Len(f) = use
    BY <1>2, <2>3, <2>4, LenProperties
  <2>6. QED
    BY <2>3, <2>5
<1> HIDE DEF f
<1>5. /\ wire' \in Seq(Byte) /\ Len(wire') = Len(wire) + use
      /\ \A i \in 1 .. Len(wire) + use :
           wire'[i] = IF i <= Len(wire) THEN wire[i] ELSE f[i - Len(wire)]
  <2>1. /\ wire \o f \in Seq(Byte) /\ Len(wire \o f) = Len(wire) + Len(f)
        /\ \A i \in 1 .. Len(wire) + Len(f) :
             (wire \o f)[i] = IF i <= Len(wire) THEN wire[i] ELSE f[i - Len(wire)]
    BY <1>2, <1>4, ConcatProperties
  <2>2. QED
    BY <1>1, <1>4, <2>1
<1>6. LayoutTypeOK'
  BY <1>1, <1>5, Sizes DEF LayoutIInv, LayoutTypeOK, readerVars
<1>7. WriterHolds'
  BY <1>1 DEF WriterHolds
<1>8. ReaderHolds'
  <2>1. delivered \in Nat
    BY <1>2 DEF LayoutIInv, LayoutTypeOK
  <2>2. QED
    BY <1>1, <1>2, <1>3, <2>1 DEF LayoutIInv, ReaderHolds, readerVars
<1>9. PICK end \in [0 .. l -> Nat] : IsStream(end)
  BY DEF LayoutIInv
<1>10. IsStream(end)'
  <2>1. Position(end)' = Position(end) /\ Position(end) \in Nat
    BY <1>1, PositionIs DEF Position, readerVars, LayoutIInv
  <2>2. end[l] = end[l - 1] + use /\ end[l - 1] \in Nat /\ end[l] \in Nat
    BY <1>2, <1>3, <1>9 DEF IsStream
  <2>3. Position(end) + Len(wire) = end[l - 1]
    BY <1>3, <1>9 DEF IsStream
  <2>4. Position(end)' + Len(wire') = end[Written']
    BY <1>2, <1>3, <1>5, <2>1, <2>2, <2>3
  <2>5. ASSUME NEW i \in 1 .. l, NEW k \in 0 .. HeaderFor(sent[i]) - 1,
               NEW p \in 1 .. Len(wire'), Position(end) + p = end[i - 1] + k + 1
        PROVE  wire'[p] = FrameByte(i, sent[i], k)
    <3>1. CASE i = l
      <4>1. k \in 0 .. use - 1 /\ k \in Nat /\ p \in Nat
        BY <1>2, <1>5, <3>1
      <4>6. p = Len(wire) + (k + 1)
        <5>1. Position(end) + p = end[l - 1] + k + 1
          BY <2>5, <3>1
        <5>2. /\ Position(end) \in Nat /\ Len(wire) \in Nat /\ end[l - 1] \in Nat
              /\ k \in Nat /\ p \in Nat
          BY <1>2, <2>1, <2>2, <4>1
        <5>3. Position(end) + p = (Position(end) + Len(wire)) + k + 1
          BY <2>3, <5>1
        <5>4. \A x, y \in Nat : x + p = (x + y) + k + 1 => p = y + (k + 1)
          BY <4>1
        <5>5. QED
          BY <5>2, <5>3, <5>4
      <4>2. wire'[p] = f[k + 1]
        <5>1. p \in 1 .. Len(wire) + use /\ ~(p <= Len(wire)) /\ p - Len(wire) = k + 1
          BY <1>2, <4>1, <4>6
        <5>2. QED
          BY <1>5, <5>1
      <4>3. f[k + 1] = buffers[k]
        BY <1>2, <1>4, <4>1
      <4>4. buffers[k] = FrameByte(l, sent[l], k)
        BY <1>1, <4>1 DEF LayoutIInv, WriterHolds
      <4>5. QED
        BY <3>1, <4>2, <4>3, <4>4
    <3>2. CASE i # l
      <4>1. i \in 1 .. Written /\ i \in 0 .. l /\ i - 1 \in 0 .. l /\ i <= l - 1
        BY <1>2, <1>3, <3>2
      <4>2. /\ end[i] = end[i - 1] + HeaderFor(sent[i]) /\ end[i] <= end[l - 1]
            /\ end[i] \in Nat /\ end[i - 1] \in Nat
        BY <1>3, <1>9, <4>1 DEF IsStream
      <4>3. HeaderFor(sent[i]) \in Nat
        <5>1. sent[i] \in 1 .. Raw
          BY <1>2, <2>5, ElementOfSeq
        <5>2. QED
          BY <5>1, Sizes
      <4>4. p <= Len(wire) /\ p \in 1 .. Len(wire)
        <5>1. k \in Nat /\ k + 1 <= HeaderFor(sent[i]) /\ p \in Nat /\ 1 <= p
          BY <1>2, <1>5, <2>5, <4>3
        <5>2. /\ Position(end) \in Nat /\ Len(wire) \in Nat
              /\ end[i] \in Nat /\ end[i - 1] \in Nat /\ end[l - 1] \in Nat
          BY <1>2, <2>1, <2>2, <4>2
        <5>3. end[i - 1] + k + 1 <= end[i]
          BY <4>2, <4>3, <5>1, <5>2
        <5>4. end[i - 1] + k + 1 <= Position(end) + Len(wire)
          BY <2>3, <4>2, <5>1, <5>2, <5>3
        <5>5. Position(end) + p <= Position(end) + Len(wire)
          BY <2>5, <5>4
        <5>6. QED
          BY <5>1, <5>2, <5>5
      <4>5. wire'[p] = wire[p]
        BY <1>2, <1>5, <4>4
      <4>6. wire[p] = FrameByte(i, sent[i], k)
        BY <1>9, <2>5, <4>1, <4>4 DEF IsStream
      <4>7. QED
        BY <4>5, <4>6
    <3>3. QED
      BY <3>1, <3>2
  <2>6. sent' = sent /\ Written' = l
    BY <1>1, <1>3
  <2>7. /\ end[0] = 0
        /\ \A i \in 1 .. Len(sent') : end[i] = end[i - 1] + HeaderFor(sent'[i])
        /\ \A i, j \in 0 .. Len(sent') : i <= j => end[i] <= end[j]
    BY <1>9, <2>6 DEF IsStream
  <2>8. \A i \in 1 .. Written' : \A k \in 0 .. HeaderFor(sent'[i]) - 1, p \in 1 .. Len(wire') :
          Position(end)' + p = end[i - 1] + k + 1 => wire'[p] = FrameByte(i, sent'[i], k)
    <3>1. ASSUME NEW i \in 1 .. Written', NEW k \in 0 .. HeaderFor(sent'[i]) - 1,
                 NEW p \in 1 .. Len(wire'), Position(end)' + p = end[i - 1] + k + 1
          PROVE  wire'[p] = FrameByte(i, sent'[i], k)
      <4>1. i \in 1 .. l /\ k \in 0 .. HeaderFor(sent[i]) - 1 /\ sent'[i] = sent[i]
        BY <2>6, <3>1
      <4>2. Position(end) + p = end[i - 1] + k + 1
        BY <2>1, <3>1
      <4>3. wire'[p] = FrameByte(i, sent[i], k)
        BY <2>5, <4>1, <4>2
      <4>4. QED
        BY <4>1, <4>3
    <3>2. QED
      BY <3>1
  <2>9. QED
    BY <2>4, <2>7, <2>8 DEF IsStream, HeaderFor
<1>11. QED
  BY <1>1, <1>6, <1>7, <1>8, <1>9, <1>10 DEF LayoutIInv

\* The header of the next frame tells the size of its body, and behind the place of
\* the body a zero is put.
LEMMA ReadHeaderStep ==
  ASSUME LayoutIInv, ReadHeader
  PROVE  LayoutIInv' /\ stage' = "body"
<1> DEFINE n == sent[delivered + 1]
<1>1. PICK end \in [0 .. Len(sent) -> Nat] : IsStream(end)
  BY DEF LayoutIInv
<1>2. /\ stage = "header" /\ Len(wire) >= Header
      /\ wire' = SubSeq(wire, Header + 1, Len(wire))
      /\ size' = BodySize(wire[1][3])
      /\ raw' = [raw EXCEPT ![cur] = Terminate(size')]
      /\ stage' = IF size' > 0 THEN "body" ELSE "route"
      /\ UNCHANGED <<writerVars, sent, cur, delivered>>
  BY DEF ReadHeader
<1>3. /\ LayoutTypeOK /\ ReaderHolds /\ WriterHolds
      /\ sent \in Seq(1 .. Raw) /\ Len(sent) \in Nat /\ wire \in Seq(Byte) /\ Len(wire) \in Nat
      /\ delivered \in 0 .. Len(sent) /\ delivered \in Nat /\ cur \in 1 .. Buffers
  BY LenProperties DEF LayoutIInv, LayoutTypeOK
<1>4. Position(end) = end[delivered] /\ Position(end) \in Nat
  BY <1>1, <1>2, <1>3, PositionIs
<1>5. delivered < Written
  <2>1. Position(end) + Len(wire) = end[Written]
    BY <1>1 DEF IsStream
  <2>2. end[delivered] < end[Written]
    BY <1>2, <1>3, <1>4, <2>1, Sizes
  <2>3. delivered <= Written /\ Written \in Int
    BY <1>3 DEF ReaderHolds, Written
  <2>4. delivered # Written
    BY <1>3, <1>4, <2>2
  <2>5. QED
    BY <1>3, <2>3, <2>4
<1>6. n \in 1 .. Raw /\ wire[1] = FrameByte(delivered + 1, n, 0)
  BY <1>1, <1>2, <1>3, <1>5, NextFrame
<1>7. wire[1][3] = HeaderFor(n)
  BY <1>6, Sizes DEF FrameByte
<1>8. size' = n /\ size' \in Nat /\ size' > 0 /\ size' \in 0 .. Width - 1
  BY <1>2, <1>6, <1>7, SizeComesBack, Sizes, LayoutAssumption
<1>9. stage' = "body"
  BY <1>2, <1>8
<1>10. /\ raw' \in [1 .. Buffers -> [0 .. Raw - 1 -> Byte]]
       /\ size' < Raw => raw'[cur][size'] = ZeroByte
  <2>1. ZeroByte \in Byte
    BY LayoutAssumption, Sizes DEF ZeroByte, Byte
  <2>2. raw \in [1 .. Buffers -> [0 .. Raw - 1 -> Byte]]
        /\ raw[cur] \in [0 .. Raw - 1 -> Byte]
    BY <1>3 DEF LayoutTypeOK
  <2>3. Terminate(size') \in [0 .. Raw - 1 -> Byte]
    BY <2>1, <2>2 DEF Terminate
  <2>4. size' < Raw => size' \in 0 .. Raw - 1
    BY <1>8, Sizes
  <2>5. size' < Raw => Terminate(size')[size'] = ZeroByte
    BY <2>2, <2>4 DEF Terminate
  <2>6. raw'[cur] = Terminate(size')
    BY <1>2, <1>3, <2>2
  <2>7. raw' \in [1 .. Buffers -> [0 .. Raw - 1 -> Byte]]
    BY <1>2, <2>2, <2>3
  <2>8. QED
    BY <2>5, <2>6, <2>7
<1>11. /\ IsStream(end)' /\ wire' \in Seq(Byte)
  <2>1. Header \in 0 .. Len(wire)
    BY <1>2, <1>3, Sizes
  <2>2. Position(end)' = Position(end) + Header
    BY <1>2, <1>4, <1>9 DEF Position
  <2>3. UNCHANGED <<sent, use>>
    BY <1>2 DEF writerVars
  <2>4. QED
    BY <1>1, <1>2, <1>3, <1>4, <2>1, <2>2, <2>3, Consume
<1>12. LayoutTypeOK'
  BY <1>2, <1>3, <1>8, <1>9, <1>10, <1>11 DEF LayoutTypeOK, writerVars
<1>13. WriterHolds'
  BY <1>2, <1>3 DEF WriterHolds, writerVars, HeaderFor
<1>14. ReaderHolds'
  <2>1. Written' = Written
    BY <1>2 DEF Written, writerVars
  <2>2. QED
    BY <1>2, <1>3, <1>5, <1>8, <1>9, <1>10, <2>1 DEF ReaderHolds
<1>15. QED
  BY <1>1, <1>2, <1>9, <1>11, <1>12, <1>13, <1>14 DEF LayoutIInv

\* The body of that frame is read, and nothing behind it is touched.
LEMMA ReadBodyStep ==
  ASSUME LayoutIInv, ReadBody
  PROVE  LayoutIInv'
<1> DEFINE n == sent[delivered + 1]
           f == [k \in 0 .. Raw - 1 |-> IF k < size THEN wire[k + 1] ELSE raw[cur][k]]
<1>1. PICK end \in [0 .. Len(sent) -> Nat] : IsStream(end)
  BY DEF LayoutIInv
<1>2. /\ stage = "body" /\ Len(wire) >= size
      /\ wire' = SubSeq(wire, size + 1, Len(wire))
      /\ raw' = [raw EXCEPT ![cur] = f]
      /\ stage' = "route"
      /\ UNCHANGED <<writerVars, sent, cur, size, delivered>>
  BY DEF ReadBody
<1>3. /\ LayoutTypeOK /\ ReaderHolds /\ WriterHolds
      /\ sent \in Seq(1 .. Raw) /\ Len(sent) \in Nat /\ wire \in Seq(Byte) /\ Len(wire) \in Nat
      /\ delivered \in 0 .. Len(sent) /\ delivered \in Nat /\ cur \in 1 .. Buffers
      /\ size \in Nat
  BY LenProperties DEF LayoutIInv, LayoutTypeOK
<1>4. Position(end) = end[delivered] + Header /\ Position(end) \in Nat /\ end[delivered] \in Nat
  BY <1>1, <1>2, <1>3, PositionIs
<1>5. /\ delivered < Written /\ size = n
      /\ size < Raw => raw[cur][size] = ZeroByte
  BY <1>2, <1>3 DEF ReaderHolds
<1>6. /\ n \in 1 .. Raw
      /\ \A k \in 0 .. size - 1 : wire[k + 1] = <<delivered + 1, Header + k, 0>>
  BY <1>1, <1>2, <1>3, <1>5, NextFrame
<1>7. f \in [0 .. Raw - 1 -> Byte]
  <2>1. raw[cur] \in [0 .. Raw - 1 -> Byte]
    BY <1>3 DEF LayoutTypeOK
  <2>2. ASSUME NEW k \in 0 .. Raw - 1, k < size PROVE wire[k + 1] \in Byte
    <3>1. k + 1 \in 1 .. Len(wire)
      BY <1>2, <1>3, <2>2, Sizes
    <3>2. QED
      BY <1>3, <3>1, ElementOfSeq
  <2>3. QED
    BY <2>1, <2>2
<1>8. raw' \in [1 .. Buffers -> [0 .. Raw - 1 -> Byte]] /\ raw'[cur] = f
  BY <1>2, <1>3, <1>7 DEF LayoutTypeOK
<1>9. \A k \in 0 .. size - 1 : f[k] = <<delivered + 1, Header + k, 0>>
  <2>1. ASSUME NEW k \in 0 .. size - 1 PROVE k \in 0 .. Raw - 1 /\ k < size
    <3>1. size \in Nat /\ size <= Raw /\ Raw \in Nat
      BY <1>5, <1>6, Sizes
    <3>2. QED
      BY <3>1
  <2>2. QED
    BY <1>6, <2>1
<1>10. size < Raw => f[size] = ZeroByte
  <2>1. size < Raw => size \in 0 .. Raw - 1 /\ ~(size < size)
    BY <1>3, Sizes
  <2>2. QED
    BY <1>5, <2>1
<1> HIDE DEF f
<1>11. /\ IsStream(end)' /\ wire' \in Seq(Byte)
  <2>1. size \in 0 .. Len(wire)
    BY <1>2, <1>3
  <2>2. Position(end)' = Position(end) + size
    BY <1>2, <1>3, <1>4, Sizes DEF Position
  <2>3. UNCHANGED <<sent, use>>
    BY <1>2 DEF writerVars
  <2>4. QED
    BY <1>1, <1>2, <1>3, <1>4, <2>1, <2>2, <2>3, Consume
<1>12. LayoutTypeOK'
  BY <1>2, <1>3, <1>8, <1>11 DEF LayoutTypeOK, writerVars
<1>13. WriterHolds'
  BY <1>2, <1>3 DEF WriterHolds, writerVars, HeaderFor
<1>14. ReaderHolds'
  <2>1. Written' = Written
    BY <1>2 DEF Written, writerVars
  <2>2. QED
    BY <1>2, <1>3, <1>5, <1>8, <1>9, <1>10, <2>1 DEF ReaderHolds
<1>15. QED
  BY <1>1, <1>2, <1>11, <1>12, <1>13, <1>14 DEF LayoutIInv

\* The reader stands at the next frame then.
LEMMA RouteStep ==
  ASSUME LayoutIInv, Route
  PROVE  LayoutIInv'
<1>1. PICK end \in [0 .. Len(sent) -> Nat] : IsStream(end)
  BY DEF LayoutIInv
<1>2. /\ stage = "route" /\ delivered' = delivered + 1 /\ cur' = (cur % Buffers) + 1
      /\ size' = 0 /\ stage' = "header"
      /\ UNCHANGED <<writerVars, wire, sent, raw>>
  BY DEF Route
<1>3. /\ LayoutTypeOK /\ ReaderHolds /\ WriterHolds
      /\ Len(sent) \in Nat /\ delivered \in 0 .. Len(sent) /\ cur \in 1 .. Buffers
      /\ sent \in Seq(1 .. Raw)
  BY LenProperties DEF LayoutIInv, LayoutTypeOK
<1>4. delivered < Written /\ size = sent[delivered + 1] /\ Written \in Int /\ Written <= Len(sent)
  BY <1>2, <1>3 DEF ReaderHolds, Written
<1>5. delivered' \in 0 .. Len(sent) /\ delivered' <= Written
  BY <1>2, <1>3, <1>4
<1>6. cur' \in 1 .. Buffers
  <2>1. cur \in Nat /\ Buffers \in Nat /\ Buffers > 0
    BY <1>3, LayoutAssumption
  <2>2. cur % Buffers \in 0 .. Buffers - 1
    BY <2>1, Z3
  <2>3. QED
    BY <1>2, <2>1, <2>2
<1>7. LayoutTypeOK'
  <2>1. size' \in 0 .. Width - 1
    BY <1>2, LayoutAssumption
  <2>2. QED
    BY <1>2, <1>3, <1>5, <1>6, <2>1 DEF LayoutTypeOK, writerVars
<1>8. Written' = Written
  BY <1>2 DEF Written, writerVars
<1>9. WriterHolds' /\ ReaderHolds'
  <2>1. WriterHolds'
    BY <1>2, <1>3 DEF WriterHolds, writerVars, HeaderFor
  <2>2. QED
    BY <1>2, <1>5, <1>8, <2>1 DEF ReaderHolds
<1>10. IsStream(end)'
  <2>1. Position(end) = end[delivered] + Header + size /\ end[delivered] \in Nat
    BY <1>1, <1>2, <1>3, PositionIs
  <2>2. /\ end[delivered + 1] = end[delivered] + HeaderFor(sent[delivered + 1])
        /\ sent[delivered + 1] \in 1 .. Raw
    BY <1>1, <1>3, <1>4, NextFrame
  <2>3. Position(end)' = end[delivered + 1]
    <3>1. end[delivered + 1] \in Nat
      BY <1>2, <1>5
    <3>2. QED
      BY <1>2, <3>1 DEF Position
  <2>4. Position(end)' = Position(end)
    BY <1>4, <2>1, <2>2, <2>3, Sizes DEF HeaderFor
  <2>5. wire' = wire /\ sent' = sent
    BY <1>2
  <2>6. QED
    BY <1>1, <1>8, <2>4, <2>5 DEF IsStream, HeaderFor
<1>11. QED
  BY <1>1, <1>2, <1>7, <1>9, <1>10 DEF LayoutIInv

\* A packet is decoded from the bytes that were encoded, for every size of packets
\* and header, and every number of packets sent and used in turn.
THEOREM LayoutInvariance == LayoutSpec => []LayoutIInv
<1>1. ASSUME LayoutInit PROVE LayoutIInv
  <2>1. sent = <<>> /\ Len(sent) = 0 /\ sent \in Seq(1 .. Raw) /\ wire = <<>> /\ Len(wire) = 0
        /\ wire \in Seq(Byte) /\ use = 0 /\ delivered = 0 /\ stage = "header"
    BY <1>1 DEF LayoutInit
  <2>2. ZeroByte \in Byte
    BY LayoutAssumption, Sizes DEF ZeroByte, Byte
  <2>3. LayoutTypeOK
    <3>1. buffers \in [0 .. PacketSize - 1 -> Byte] /\ use \in 0 .. PacketSize
      BY <1>1, <2>1, <2>2, Sizes DEF LayoutInit
    <3>2. raw \in [1 .. Buffers -> [0 .. Raw - 1 -> Byte]]
      BY <1>1, <2>2 DEF LayoutInit
    <3>3. cur \in 1 .. Buffers /\ size \in 0 .. Width - 1
      BY <1>1, LayoutAssumption DEF LayoutInit
    <3>4. QED
      BY <2>1, <3>1, <3>2, <3>3 DEF LayoutTypeOK
  <2>4. Written = 0
    BY <2>1 DEF Written
  <2>5. WriterHolds /\ ReaderHolds
    BY <2>1, <2>4 DEF WriterHolds, ReaderHolds
  <2>6. PICK end \in [0 .. Len(sent) -> Nat] : end[0] = 0
    <3>1. [m \in 0 .. Len(sent) |-> 0] \in [0 .. Len(sent) -> Nat] /\ 0 \in 0 .. Len(sent)
      BY <2>1
    <3>2. QED
      BY <3>1
  <2>7. IsStream(end)
    BY <2>1, <2>4, <2>6 DEF IsStream, Position
  <2>8. QED
    BY <2>3, <2>5, <2>7 DEF LayoutIInv
<1>2. ASSUME LayoutIInv, [LayoutNext]_layoutVars PROVE LayoutIInv'
  <2>1. CASE UNCHANGED layoutVars
    <3>1. UNCHANGED <<buffers, use, wire, sent, cur, raw, size, stage, delivered>>
      BY <2>1 DEF layoutVars, writerVars, readerVars
    <3>2. LayoutTypeOK' /\ WriterHolds' /\ ReaderHolds'
      BY <1>2, <3>1
         DEF LayoutIInv, LayoutTypeOK, WriterHolds, ReaderHolds, Written, HeaderFor
    <3>3. PICK end \in [0 .. Len(sent) -> Nat] : IsStream(end)
      BY <1>2 DEF LayoutIInv
    <3>4. IsStream(end)'
      BY <3>1, <3>3 DEF IsStream, Position, Written, HeaderFor
    <3>5. QED
      BY <3>1, <3>2, <3>3, <3>4 DEF LayoutIInv
  <2>2. ASSUME NEW n \in 1 .. Raw, EncodeBody(n) PROVE LayoutIInv'
    BY <1>2, <2>2, EncodeBodyStep
  <2>3. CASE Write
    BY <1>2, <2>3, WriteStep
  <2>4. CASE ReadHeader
    BY <1>2, <2>4, ReadHeaderStep
  <2>5. CASE ReadBody
    BY <1>2, <2>5, ReadBodyStep
  <2>6. CASE Route
    BY <1>2, <2>6, RouteStep
  <2>7. QED
    BY <1>2, <2>1, <2>2, <2>3, <2>4, <2>5, <2>6 DEF LayoutNext, Reads
<1>3. QED
  BY <1>1, <1>2, PTL DEF LayoutSpec

\* What is routed is the next frame that was sent, byte for byte, with its end marked.
THEOREM Decoded == LayoutSpec => []Faithful
<1>1. ASSUME LayoutIInv PROVE Faithful
  <2>1. Len(sent) \in Nat /\ delivered \in Nat
    BY <1>1, LenProperties DEF LayoutIInv, LayoutTypeOK
  <2>2. Written <= Len(sent) /\ Written \in Int
    BY <2>1 DEF Written
  <2>3. QED
    BY <1>1, <2>1, <2>2 DEF LayoutIInv, ReaderHolds, Faithful
<1>2. QED
  BY <1>1, LayoutInvariance, PTL

\* A frame that is written can be read without waiting for another.
THEOREM Unstarved == LayoutSpec => []NeverStarved
<1>1. ASSUME LayoutIInv PROVE NeverStarved
  <2>1. SUFFICES ASSUME delivered < Written
                 PROVE  /\ stage = "header" => Len(wire) >= Header
                        /\ stage = "body" => Len(wire) >= size
    BY DEF NeverStarved
  <2>2. PICK end \in [0 .. Len(sent) -> Nat] : IsStream(end)
    BY <1>1 DEF LayoutIInv
  <2>3. /\ sent[delivered + 1] \in 1 .. Raw
        /\ stage = "header" => Len(wire) >= HeaderFor(sent[delivered + 1])
        /\ stage = "body" => Len(wire) >= size
    BY <1>1, <2>1, <2>2, NextFrame DEF LayoutIInv
  <2>4. Len(wire) \in Nat
    BY <1>1, LenProperties DEF LayoutIInv, LayoutTypeOK
  <2>5. QED
    BY <2>3, <2>4, Sizes DEF HeaderFor
<1>2. QED
  BY <1>1, LayoutInvariance, PTL
=============================================================================

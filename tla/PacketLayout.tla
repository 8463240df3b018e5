----------------------------- MODULE PacketLayout -----------------------------
(***************************************************************************)
(* How a packet becomes bytes and bytes become a packet again: encode() of *)
(* packet::outbound, the stream, and decide() of packet::inbound, with the *)
(* buffers used over and over as the pools do.  Neither init() clears a    *)
(* buffer, so what earlier packets left behind stays in it.                *)
(*                                                                         *)
(* A byte is <<number of the packet, its place in it, the size written in  *)
(* the header>>, with size 0 for a byte of the body; encrypt() and         *)
(* decrypt() copy their input, as their ciphers are commented out.         *)
(* body_size() is kept in 16 bits and a packet is one byte short of what   *)
(* they count to; here Width stands for 2^16.                              *)
(***************************************************************************)
EXTENDS Naturals, Sequences

CONSTANTS
  Width,    \* values of uint16_t
  Header,   \* _header_size_
  Frames,   \* bound: packets sent
  Buffers   \* bound: inbound packets in use in turn

ASSUME LayoutAssumption ==
  /\ Width \in Nat /\ Header \in Nat \ {0} /\ Header + 1 < Width
  /\ Frames \in Nat /\ Buffers \in Nat \ {0}

PacketSize == Width - 1            \* _packet_size_
Raw        == PacketSize - Header  \* _raw_size_

VARIABLES
  buffers,  \* outbound::_buffers
  use,      \* outbound::_buf_use_size
  wire,     \* bytes on their way
  sent,     \* history: the sizes of the bodies that were written
  cur,      \* which inbound packet is read into
  raw,      \* inbound::_raw_body of each
  size,     \* inbound::_body_size of the one read into
  stage,    \* what is read next
  delivered \* packets routed so far

writerVars == <<buffers, use>>
readerVars == <<cur, raw, size, stage, delivered>>
layoutVars == <<writerVars, wire, sent, readerVars>>

ZeroByte == <<0, 0, 0>>
Byte     == (0 .. Frames) \X (0 .. PacketSize) \X (0 .. PacketSize)

LayoutTypeOK ==
  /\ buffers \in [0 .. PacketSize - 1 -> Byte] /\ use \in 0 .. PacketSize
  /\ wire \in Seq(Byte) /\ sent \in Seq(1 .. Raw)
  /\ cur \in 1 .. Buffers /\ raw \in [1 .. Buffers -> [0 .. Raw - 1 -> Byte]]
  /\ size \in 0 .. Width - 1 /\ stage \in {"header", "body", "route"}
  /\ delivered \in 0 .. Len(sent)

LayoutInit ==
  /\ buffers = [k \in 0 .. PacketSize - 1 |-> ZeroByte] /\ use = 0
  /\ wire = <<>> /\ sent = <<>>
  /\ cur = 1 /\ raw = [b \in 1 .. Buffers |-> [k \in 0 .. Raw - 1 |-> ZeroByte]] /\ size = 0
  /\ stage = "header" /\ delivered = 0

-----------------------------------------------------------------------------
\* What encode() writes into the header for a body of n bytes.
HeaderFor(n) == Header + n

\* encode() for a body of n bytes.
EncodeBody(n) ==
  /\ use = 0 /\ Len(sent) < Frames
  /\ LET m == Len(sent) + 1
     IN  buffers' = [k \in 0 .. PacketSize - 1 |->
                       IF k < Header THEN <<m, k, HeaderFor(n)>>
                       ELSE IF k < Header + n THEN <<m, k, 0>>
                       ELSE buffers[k]]
  /\ use' = HeaderFor(n)
  /\ sent' = Append(sent, n)
  /\ UNCHANGED <<wire, readerVars>>

\* The packet is written and, back in its pool, init() called on it.
Write ==
  /\ use > 0
  /\ wire' = wire \o [k \in 1 .. use |-> buffers[k - 1]]
  /\ use' = 0
  /\ UNCHANGED <<buffers, sent, readerVars>>

\* Mutant of BodySize: the header is not taken off.
BodySizeWhole(total) == IF Header <= total THEN total % Width ELSE 0

\* decide(): the size of the body behind a header.
BodySize(total) == IF Header <= total THEN (total - Header) % Width ELSE 0

\* decide(): a zero byte behind the body, where there is room.
Terminate(n) == IF n < Raw THEN [raw[cur] EXCEPT ![n] = ZeroByte] ELSE raw[cur]

ReadHeader ==
  /\ stage = "header" /\ Len(wire) >= Header
  /\ wire' = SubSeq(wire, Header + 1, Len(wire))
  /\ size' = BodySize(wire[1][3])
  /\ raw' = [raw EXCEPT ![cur] = Terminate(size')]
  /\ stage' = IF size' > 0 THEN "body" ELSE "route"
  /\ UNCHANGED <<writerVars, sent, cur, delivered>>

ReadBody ==
  /\ stage = "body" /\ Len(wire) >= size
  /\ wire' = SubSeq(wire, size + 1, Len(wire))
  /\ raw' = [raw EXCEPT ![cur] =
               [k \in 0 .. Raw - 1 |-> IF k < size THEN wire[k + 1] ELSE raw[cur][k]]]
  /\ stage' = "route"
  /\ UNCHANGED <<writerVars, sent, cur, size, delivered>>

\* The frame is routed and the next one read into another packet.
Route ==
  /\ stage = "route"
  /\ delivered' = delivered + 1
  /\ cur' = (cur % Buffers) + 1
  /\ size' = 0 /\ stage' = "header"
  /\ UNCHANGED <<writerVars, wire, sent, raw>>

Reads      == ReadHeader \/ ReadBody \/ Route
LayoutNext == (\E n \in 1 .. Raw : EncodeBody(n)) \/ Write \/ Reads
LayoutSpec == LayoutInit /\ [][LayoutNext]_layoutVars

-----------------------------------------------------------------------------
(* Properties                                                              *)

\* Frames that are written, of those that are encoded.
Written == IF use = 0 THEN Len(sent) ELSE Len(sent) - 1

\* Byte k of frame m, whose body has n bytes.
FrameByte(m, n, k) == <<m, k, IF k < Header THEN HeaderFor(n) ELSE 0>>

\* How far into the stream the reader is, where frame m ends at end[m].
Position(end) ==
  end[delivered] + (IF stage = "header" THEN 0
                    ELSE IF stage = "body" THEN Header ELSE Header + size)

\* The reader waits for as many bytes as the next frame has, and what it routes is
\* that frame, byte for byte, whatever its packet was used for before.  A string
\* that fills its body ends there, and not in the rest of an earlier, longer one,
\* unless the body fills the packet (dispatch_CS_SOME_DATA calls strlen() on a name
\* that may take all of its ten bytes).
Faithful ==
  /\ LayoutTypeOK
  /\ stage # "header" => delivered < Len(sent) /\ size = sent[delivered + 1]
  /\ stage = "route" =>
       /\ \A k \in 0 .. size - 1 : raw[cur][k] = <<delivered + 1, Header + k, 0>>
       /\ size < Raw => raw[cur][size] = ZeroByte

\* The reader never waits for more bytes while a frame that was written is not routed.
NeverStarved ==
  delivered < Written =>
    /\ stage = "header" => Len(wire) >= Header
    /\ stage = "body" => Len(wire) >= size

-----------------------------------------------------------------------------
(* The inductive invariant                                                 *)

\* The places in the stream at which the frames end, and what is on the wire then.
IsStream(end) ==
  /\ end[0] = 0
  /\ \A m \in 1 .. Len(sent) : end[m] = end[m - 1] + HeaderFor(sent[m])
  /\ \A m, l \in 0 .. Len(sent) : m <= l => end[m] <= end[l]
  /\ Position(end) + Len(wire) = end[Written]
  /\ \A m \in 1 .. Written : \A k \in 0 .. HeaderFor(sent[m]) - 1, i \in 1 .. Len(wire) :
       Position(end) + i = end[m - 1] + k + 1 => wire[i] = FrameByte(m, sent[m], k)

\* The packet that is encoded and not yet written.
WriterHolds ==
  use > 0 =>
    /\ 0 < Len(sent) /\ use = HeaderFor(sent[Len(sent)])
    /\ \A k \in 0 .. use - 1 : buffers[k] = FrameByte(Len(sent), sent[Len(sent)], k)

\* The packet that is being read.
ReaderHolds ==
  /\ delivered <= Written
  /\ stage # "header" =>
       /\ delivered < Written /\ size = sent[delivered + 1]
       /\ size < Raw => raw[cur][size] = ZeroByte
  /\ stage = "route" => \A k \in 0 .. size - 1 : raw[cur][k] = <<delivered + 1, Header + k, 0>>

LayoutIInv ==
  /\ LayoutTypeOK /\ WriterHolds /\ ReaderHolds
  /\ \E end \in [0 .. Len(sent) -> Nat] : IsStream(end)
===============================================================================

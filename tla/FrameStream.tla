----------------------------- MODULE FrameStream -----------------------------
(***************************************************************************)
(* What the queued send path of a session promises its caller: the packets *)
(* that send() accepted go out whole, in the order in which they were      *)
(* accepted, none twice and none skipped, until the connection breaks;     *)
(* after that nothing goes out any more.                                   *)
(***************************************************************************)
EXTENDS Naturals

CONSTANT Chunks   \* pieces a packet is sent in

VARIABLES
  accepted,   \* packets accepted so far
  wire,       \* the last piece sent: chunk number `chunk` of packet `frame`
  broken      \* the connection is gone

vars == <<accepted, wire, broken>>

Init ==
  /\ accepted = 0
  /\ wire = [frame |-> 0, chunk |-> Chunks]
  /\ broken = FALSE

Accept ==
  /\ accepted' = accepted + 1
  /\ UNCHANGED <<wire, broken>>

\* The piece that follows the last one.
Following ==
  IF wire.chunk < Chunks
  THEN [wire EXCEPT !.chunk = @ + 1]
  ELSE [frame |-> wire.frame + 1, chunk |-> 1]

SendPiece ==
  /\ ~broken
  /\ Following.frame <= accepted
  /\ wire' = Following
  /\ UNCHANGED <<accepted, broken>>

Break ==
  /\ broken' = TRUE
  /\ UNCHANGED <<accepted, wire>>

Next == Accept \/ SendPiece \/ Break

Spec == Init /\ [][Next]_vars
=============================================================================

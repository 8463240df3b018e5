----------------------------- MODULE MCPacketPool -----------------------------
(* Small instances of PacketPool; packets and senders are interchangeable. *)
EXTENDS PacketPool

Symmetry == Permutations(Packets) \union Permutations(Inbounds) \union Permutations(Senders)
===============================================================================

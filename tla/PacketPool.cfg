SPECIFICATION Spec
CONSTANTS
  Packets = {p1, p2, p3}
  Inbounds = {i1, i2}
  Senders = {s1, s2}
  DefaultSize = 2
  MaxSize = 4
  Sends = 4
  NoPacket = NoPacket
SYMMETRY Symmetry
CHECK_DEADLOCK FALSE
INVARIANTS NotShared Intact InboundConserved

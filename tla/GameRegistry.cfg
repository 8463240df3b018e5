SPECIFICATION FairSpec
CONSTANTS
  Session = {s1, s2}
  Id = {a, b}
  NoId = zero
  NoSession = nobody
  MaxFrames = 4
CHECK_DEADLOCK FALSE
INVARIANTS GhostsExplained GrantedIsRegistered
PROPERTIES LoginDisconnects

SPECIFICATION FairSpec
CONSTANTS
  Sessions = {s1, s2}
  Limit = 1
CHECK_DEADLOCK FALSE
INVARIANTS OneLateSession OutsideExplained QuietAfterStop
PROPERTIES AcceptsAgain StopCompletes

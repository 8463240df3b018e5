SPECIFICATION Spec
CONSTANTS
  Session = {s1, s2}
  Id = {a}
  NoId = zero
  NoSession = nobody
  MaxFrames = 3
CHECK_DEADLOCK FALSE
PROPERTIES LeaveFindsEntry

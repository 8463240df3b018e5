SPECIFICATION FairSpec
CONSTANTS
  Kicker = {k1}
  Chunks = 2
  MaxFrame = 3
  MaxSend = 2
  MaxFast = 1
CHECK_DEADLOCK FALSE
INVARIANTS OneRead NeverDeaf IdleIsReaped LeaksOnlyWhenOvertaken LeaveAfterClose NeverMute
PROPERTIES StartsOnOpenSocket CloseCompletes StreamSpec

SPECIFICATION FairSpec
CONSTANT Attempts = 4
CHECK_DEADLOCK FALSE
INVARIANTS FlagsExplained
PROPERTIES AccessExplained BreakIsNoticed KeepsTrying

SPECIFICATION FairSpec
CONSTANT MaxStarts = 8
CHECK_DEADLOCK FALSE
INVARIANTS BurstBounded
PROPERTIES TaskSpec

SPECIFICATION FairSpec
CONSTANTS
  Retries = 5
  Reconnects = 5
  MaxRows = 2
INVARIANTS HandlesMatch OneRunAnswered RepeatsExplained SteadyIsAnswered
PROPERTIES CallsEnd

SPECIFICATION Spec
CONSTANTS
  Retries = 5
  Reconnects = 5
  MaxRows = 2
INVARIANT ValuesWereRead

SPECIFICATION FairPoolSpec
CONSTANTS
  Handlers = {1, 2, 3, 4}
  DefaultSize = 1
  MaxSize = 2
  Databases = {1, 2}
INVARIANTS Accounting AnswersExplained
PROPERTIES ServedAgain

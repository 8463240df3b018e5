SPECIFICATION FairSpec
CONSTANTS
  Tasks = {t1, t2, t3}
  Keys = {k1, k2}
  NoKey = NoKey
  NoTask = NoTask
CHECK_DEADLOCK FALSE
INVARIANTS NeverForgotten DisplacedByCancelled
PROPERTIES ShotSpec AcceptedIsCalled

SPECIFICATION ReadSpec
CONSTANTS
  NoSnap = NoSnap
  Readers = {"get"}
  Operators = {"op"}
  MinN = 1
  TargetN = 2
  HasPhone = FALSE
  HasReplay = TRUE
  PatchKeys = {}
  MaxAnswers = 3
  MaxLaunches = 2
  MaxPolls = 1
INVARIANTS
  SettleJustified
  CountIsReal
PROPERTIES
  AwaitingSettles

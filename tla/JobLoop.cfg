SPECIFICATION Spec
CONSTANTS
  NoSnap = NoSnap
  Readers = {}
  Operators = {}
  MinN = 3
  TargetN = 5
  HasPhone = TRUE
  HasReplay = TRUE
  PatchKeys = {"probes"}
  MaxAnswers = 7
  MaxLaunches = 2
  MaxPolls = 2
INVARIANTS
  TracksMajority
CHECK_DEADLOCK FALSE

SPECIFICATION Spec
CONSTANTS
  NoSnap = NoSnap
  Readers = {}
  Operators = {}
  MinN = 1
  TargetN = 2
  HasPhone = TRUE
  HasReplay = FALSE
  PatchKeys = {"probes"}
  MaxAnswers = 2
  MaxLaunches = 0
  MaxPolls = 0
INVARIANTS
  PatchedKeysStay

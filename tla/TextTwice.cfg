SPECIFICATION Spec
CONSTANTS
  Readers = {r1}
  MinN = 2
  MaxAnswers = 2
  MaxRegrades = 0
  MaxRestarts = 0
  NoSnap = NoSnap
INVARIANT OneFinal
CHECK_DEADLOCK FALSE

SPECIFICATION FairSpec
CONSTANTS
  Readers = {r1}
  MinN = 2
  MaxAnswers = 3
  MaxRegrades = 1
  MaxRestarts = 1
  NoSnap = NoSnap
INVARIANTS FlagsAreTrue SentIsMarked
PROPERTIES FinalHasHumans ReportArrives
CHECK_DEADLOCK FALSE

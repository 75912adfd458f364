SPECIFICATION Spec
CONSTANTS
  NClaims = 5
  Batches <- MCBatches
  Seats <- MCSeats
  Chain = 2
  SecondFamily = TRUE
  MaxChunk = 2
  Unit = 6
  Price <- MCPrice
  Latency <- MCLatency
  PriorGain <- MCPriorGain
  Measured = {0, 90}
  Wired = {"linq", "terac"}
  Requests <- MCRequests
INVARIANTS
  AnswersStayHome
  AnswersAreKept
  WorstDecides
  UnanimityIsFree
  StandardHolds
CHECK_DEADLOCK FALSE

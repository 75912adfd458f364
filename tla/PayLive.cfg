SPECIFICATION FairSpec
CONSTANTS
  NoSession = NoSession
  Shape = "apart"
  Orders = {1, 2}
  WalkupIds = {11}
  Mergeable = {}
  PageSize = 3
  FailPoints = {"begin", "walkup"}
  MaxFailures = 2
  MaxCrashes = 0
  Sessions <- MCSessions
  JobOf <- MCJobOf
  Referenced <- MCReferenced
  Amount <- MCAmount
PROPERTIES
  PaidIsFulfilled

SPECIFICATION FairSpec
CONSTANTS
  NoSession = NoSession
  Shape = "single"
  Orders = {1}
  WalkupIds = {}
  Mergeable = {}
  PageSize = 25
  FailPoints = {"rubric"}
  MaxFailures = 1
  MaxCrashes = 0
  Sessions <- MCSessions
  JobOf <- MCJobOf
  Referenced <- MCReferenced
  Amount <- MCAmount
PROPERTIES
  PaidOrderIsJudged

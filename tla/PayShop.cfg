SPECIFICATION Spec
CONSTANTS
  NoSession = NoSession
  Shape = "shop"
  Orders = {1, 2}
  WalkupIds = {11, 12}
  Mergeable = {1, 2}
  PageSize = 25
  FailPoints = {"read", "begin", "book", "rubric", "finish", "wrapup", "walkup", "walkupBook",
                "event", "release"}
  MaxFailures = 2
  MaxCrashes = 1
  Sessions <- MCSessions
  JobOf <- MCJobOf
  Referenced <- MCReferenced
  Amount <- MCAmount
INVARIANTS
  ClaimExclusive
  NoStrandedClaim
PROPERTIES
  LedgerSpec

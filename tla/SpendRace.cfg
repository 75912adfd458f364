SPECIFICATION Spec
CONSTANTS
  t1 = t1
  t2 = t2
  Threads <- MCThreads
  Arms <- MCArms
  ListPrice <- MCListPrice
  Backend <- MCBackend
  AllowedArms <- MCAllowedArms
  DailyCap = 10
  JobCap = 6
  UnpaidCap = 0
  MarginPct = 20
  Purchases <- MCPurchases
  Quotes = {4, 6, 7}
  ModelCosts = {1}
  MaxDeals = 3
  MaxDays = 1
  MaxFreezes = 1
  MaxCrashes = 1
CHECK_DEADLOCK FALSE
INVARIANTS
  WithinTerms
  OverspendBounded
  FreezeHolds
  HumansSold
SYMMETRY ThreadSymmetry

SPECIFICATION MCSpec
CONSTANTS
  v1 = v1
  v2 = v2
  n1 = n1
  n2 = n2
  Validators = {v1, v2}
  Nominators = {n1, n2}
  Elections <- MCElections
  PageSize = 1
  Accuracy = 1000
  Commissions = {0, 500}
  FirstYearRewards = 100
  ErasPerYear = 1
  DecreaseRatio = 841
  DecreaseYears = 2
  SessionsPerEra = 1
  BondingDuration = 2
  HistoryDepth = 2
  MaxSession = 3
  MaxPoints = 2
  MaxChanges = 2
INVARIANTS EraOrder BondedCover  WindowKept
CHECK_DEADLOCK FALSE

SPECIFICATION MCSpec
CONSTANTS
  v1 = v1
  n1 = n1
  LastMixed = 3
  Validators = {v1}
  Nominators = {n1}
  SessionsPerEra = 1
  BondingDuration = 4
  HistoryDepth = 3
  MaxSession = 5
  MinBalance = 2
  MinBond = 20
  MaxUnlockingChunks = 2
  SlashDeferDuration = 1
  Accuracy = 20
  OffendingValidatorsThreshold = 3
  Fractions = {5, 20}
  Amounts = {5, 29}
  Stake <- MCStake
  Spare = 4
  MaxCalls = 3
  MaxReports = 2
INVARIANTS StakeStaysSlashable  ChargedOncePerSpan
CHECK_DEADLOCK FALSE

SPECIFICATION Spec
CONSTANTS
  m1 = m1
  m2 = m2
  Miners = {m1, m2}
  Pool = Pool
  Lent = {m1}
  Coins = {1, 2}
  EventLife = 1
  Quota = 1
  UnitAmount = 1
  BorrowPeriod = 1
  Sponsors <- Shared
  Balance = 2
  BaseUnit = 1
  Tibs = {1}
  MaxTib = 2
  NoRewardFine = 1
  ClearRates = {1}
  ServiceRate = 1
  StakingLock = 1
  LockTime = 1
  Cooling = 1
CONSTRAINT Focus
INVARIANTS  ReservoirSolvent 
CHECK_DEADLOCK FALSE

SPECIFICATION MCSpec
CONSTANTS
  n1 = n1
  Users = {u1, u2}
  Names = {n1, n2}
  Tokens = {t1, t2}
  NoToken = NoToken
  NoUser = NoUser
  NoLoc = NoLoc
  OneDay = 1
  Month = 2
  FrozenDays = 2
  LockingBlock = 2
  ConsignmentRemainingBlock = 2
  FrozenLimit = 2
  UnitPrice = 1
  Gibs = {1}
  DayChoices = {0, 1, 2, 3}
  Prices = {1}
  OrderLives = {2}
  Sizes = {1}
  NetworkSpaces = {1, 2}
  InitialFree = 1
  MaxBlock = 6
  Horizon = 9
INVARIANTS SpaceBounded KeyConsistent LeaseAccounting SweepScheduled ConsignmentMatchesState
PROPERTIES LeakOnlyAtFreeze
SYMMETRY Symmetry
CHECK_DEADLOCK FALSE

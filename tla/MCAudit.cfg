SPECIFICATION Spec
CONSTANTS
  Miners = {m1}
  Tees = {k1, k2}
  NoTee = NoTee
  Spaces <- MixedSpaces
  IdleProveRate = 1
  ServiceProveRate = 1
  IdleVerifyRate = 1
  Grace = 1
  OneHour = 1
  OneDay = 1
  Period = 1
  ExitCount = 2
  MaxBlock = 13
SYMMETRY Symmetry
INVARIANTS SlipsExact BoundedLife RecordedOnce 
CHECK_DEADLOCK FALSE

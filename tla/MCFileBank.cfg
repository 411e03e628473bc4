CONSTANTS
  u1 = u1 u2 = u2 t1 = t1 t2 = t2 b1 = b1 b2 = b2
  f1 = f1 f2 = f2 m1 = m1 m2 = m2 m3 = m3
  Users = {u1, u2} Terrs = {t1, t2} Buckets = {b1} ValidBuckets = {b1}
  Files = {f1} Miners = {m1, m2} NoMiner = NoMiner
  SegCount <- OneSegment
  FragmentCount = 2 IdleSeg = 2 Declaration = 2 TerrSpace <- ThreeTerritories Certs = {1} MaxRear = 1
  RestoralOrderLife = 2 ClearLimit = 2
  Damaged = {} Leavers = {} Returners = {} Movers = {u1}
  Ending <- FirstEnds Resumed <- FirstOfU1
SPECIFICATION Spec
SYMMETRY MinerSymmetry
INVARIANTS RemovalSafe NetworkTotals UserLockedExact
 

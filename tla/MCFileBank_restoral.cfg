CONSTANTS
  u1 = u1 u2 = u2 t1 = t1 t2 = t2 b1 = b1 b2 = b2
  f1 = f1 f2 = f2 m1 = m1 m2 = m2 m3 = m3
  Users = {u1} Terrs = {t1} Buckets = {b1} ValidBuckets = {b1}
  Files = {f1} Miners = {m1, m2, m3} NoMiner = NoMiner
  SegCount <- OneSegment
  FragmentCount = 2 IdleSeg = 2 Declaration = 2 TerrSpace <- TwoDeals Certs = {1} MaxRear = 1
  RestoralOrderLife = 1 ClearLimit = 2
  Damaged = {m1} Leavers = {m1} Returners = {} Movers = {} Ending = {} Resumed = {}
SPECIFICATION RestoralSpec
SYMMETRY PeerSymmetry
INVARIANTS MinerSpaceExact ProvedCovered RestoralCovered

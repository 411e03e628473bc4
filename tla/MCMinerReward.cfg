SPECIFICATION Spec
CONSTANTS
  Miners = {m1, m2}
  Powers = {1, 2}
  EraPayout = 12
  Release = 2
  OneDay = 1
  Accuracy = 100
  MaxPower = 4
  MaxEra = 3
  MaxBlock = 3
SYMMETRY Symmetry
CONSTRAINT Few
INVARIANTS  RoundNeverOverdrawn
CHECK_DEADLOCK FALSE

SPECIFICATION Spec
CONSTANTS
  Unit = {u1}
  Handler = {h1, h2, h3}
  MaxOwed = 2
  Minimum = {1, 2}
  MaxDue = 1
SYMMETRY Symmetry
CHECK_DEADLOCK FALSE
INVARIANTS PaidIsUnlocked BarrierFollows

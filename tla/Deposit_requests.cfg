SPECIFICATION SpecDeposit
CONSTANTS
  Deposit = {d1}
  NoDeposit = none
  Handler = {h1, h2}
  Amount = {1, 4}
SYMMETRY Symmetry
CHECK_DEADLOCK FALSE
INVARIANTS LiabilityExplained RowWithinAmount FundIsHeld

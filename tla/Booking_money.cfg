SPECIFICATION Spec
CONSTANTS
  Deposit = {d1, d2}
  NoDeposit = none
  Handler = {h1, h2}
  Amount = {1}
  Booking = {b1, b2}
  NoBooking = none
  Instant = {0, 1}
  FeeInvoice = {i1, i2}
  NoInvoice = none
  MaxConcurrent = 1
  Fee = TRUE
  BookingDeposit = 1
SYMMETRY Symmetry
CHECK_DEADLOCK FALSE
INVARIANTS MoneyFollowsBooking CancelledReleasesMoney OneFee

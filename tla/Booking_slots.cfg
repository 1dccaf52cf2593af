SPECIFICATION Spec
CONSTANTS
  Deposit = {}
  NoDeposit = none
  Handler = {h1, h2}
  Amount = {1}
  Booking = {b1, b2, b3}
  NoBooking = none
  Instant = {0, 1, 2, 3}
  FeeInvoice = {}
  NoInvoice = none
  MaxConcurrent = 2
  Fee = FALSE
  BookingDeposit = 0
SYMMETRY Symmetry
CHECK_DEADLOCK FALSE
INVARIANTS NoOverbooking

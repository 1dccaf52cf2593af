SPECIFICATION Spec
CONSTANTS
  NumInvoices = 1
  Payment = {p1, p2, p3}
  NoPayment = none
  Advance = {}
  Handler = {h1, h2}
  Endpoint = {"pay", "callback", "manual", "prepay", "void", "cancelBooking", "dismiss"}
  Enabled = {"other"}
  BookingInvoice = {1}
  TotalOf <- MCTotal
  DueAt <- MCDueAt
  Amount = {1, 2}
  MaxPrepaid = 2
  MaxNow = 0
  MayCrash = TRUE
SYMMETRY Symmetry
CHECK_DEADLOCK FALSE
INVARIANTS TypeOK PaidIsBooked PaidIsCovered ReversedOnce SettledWasPaid SettledIsReceipted CreditConserved
PROPERTIES DeadAttemptsStayDead LedgerAppendOnly

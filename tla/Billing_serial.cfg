SPECIFICATION Spec
CONSTANTS
  NumInvoices = 1
  Payment = {p1, p2, p3}
  NoPayment = none
  Advance = {}
  Handler = {h1}
  Endpoint = {"issue", "pay", "callback", "manual", "prepay", "void", "dismiss", "sweep"}
  Enabled = {"DUITNOW_QR", "other"}
  BookingInvoice = {}
  TotalOf <- MCTotal
  DueAt <- MCDueAt
  Amount = {1, 2}
  MaxPrepaid = 2
  MaxNow = 2
  MayCrash = TRUE
SYMMETRY Symmetry
CHECK_DEADLOCK FALSE
INVARIANTS AmountPaidExact SettledWasPaid PaidNotOverdue VoidHasNoPayments RemindedOncePerSweep
PROPERTIES VoidIsFinal ManualWithinBalance

SPECIFICATION FairSpec
CONSTANTS
  NumInvoices = 2
  Payment = {p1, p2, p3, p4}
  NoPayment = none
  Advance = {v1}
  Handler = {h1}
  Endpoint = {"issue", "prepay", "advance", "callback", "manual", "void"}
  Enabled = {"DUITNOW_QR", "other"}
  BookingInvoice = {}
  TotalOf <- MCTotal
  DueAt <- MCDueAt
  Amount = {1, 2}
  MaxPrepaid = 3
  MaxNow = 0
  MayCrash = FALSE
CHECK_DEADLOCK FALSE
PROPERTIES CreditIsApplied CreditOldestFirst

\* Two users, two receipts of one order line, two invoices and a payment.
SPECIFICATION Spec
CONSTANTS
  u1 = u1  u2 = u2  o1 = o1  r1 = r1  r2 = r2  l1 = l1  l2 = l2
  c1 = c1  i1 = i1  i2 = i2  p1 = p1
  NoInvoice = NoInvoice
  Users = {u1, u2}
  OrderLines = {o1}
  Ordered <- OneOrdered
  Receipts = {r1, r2}
  Lines = {l1, l2}
  ReceiptOf <- OnReceipt
  OrderLineOf <- OnOrder
  Qty <- OneEach
  Charges = {c1}
  ChargedOn <- OnFirst
  Invoices = {i1, i2}
  Total <- OneDue
  Drafts <- Drafted
  Payments = {p1}
  Amount <- TwoIn
  Allocations = {1}
SYMMETRY Symmetry
INVARIANTS CapacityHolds NeverOverReceived InvoicedIsMatched ClearedOnce
            CancelledIsClean
CHECK_DEADLOCK FALSE

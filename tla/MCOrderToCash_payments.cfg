\* Two collections over two invoices, of two customers; one halala forgiven.
CONSTANTS
  Invoices = {i1, i2}
  Payments = {p1, p2}
  Returns = {}
  Customers = {c1, c2}
  NoCustomer = NoCustomer
  NoInvoice = NoInvoice
  Amounts = {1, 2, 3}
  RefundMethods = {}
  Tol = 1
SPECIFICATION Spec
SYMMETRY Symmetry
CHECK_DEADLOCK FALSE
INVARIANTS NoOverAllocation PaymentWithinAmount InvoiceConsistency LedgerTiesToPayment

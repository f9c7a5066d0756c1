\* Two returns and two collections of one invoice.
CONSTANTS
  Invoices = {i1}
  Payments = {p1, p2}
  Returns = {r1,r2}
  Customers = {c1}
  NoCustomer = NoCustomer
  NoInvoice = NoInvoice
  Amounts = {1, 2}
  RefundMethods = {"cash", "customer_deposit", "ar_reduction"}
  Tol = 0
SPECIFICATION Spec
SYMMETRY Symmetry
CHECK_DEADLOCK FALSE
INVARIANTS NoOverReturn RestockTiesToLedger DriftIsStrandedApplications

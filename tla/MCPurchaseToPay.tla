-------------------------- MODULE MCPurchaseToPay ---------------------------
(* Small instances of PurchaseToPay for TLC.                                *)
EXTENDS PurchaseToPay, TLC

CONSTANTS u1, u2, o1, r1, r2, l1, l2, c1, i1, i2, p1

Symmetry == Permutations(Users) \cup Permutations(Invoices)

\* Two receipts for one order line, one of them too many; the charge is on
\* the first.
OneOrdered == [o \in OrderLines |-> 1]
OnReceipt  == [l \in Lines |-> IF l = l1 THEN r1 ELSE r2]
OnOrder    == [l \in Lines |-> o1]
OneEach    == [l \in Lines |-> 1]
OnFirst    == [c \in Charges |-> r1]

\* An invoice of the first receipt's unit and charge, or of expenses.
Drafted ==
  {[stock |-> TRUE, lines |-> [l \in Lines |-> IF l = l1 THEN 1 ELSE 0], charges |-> {c1}],
   [stock |-> FALSE, lines |-> [l \in Lines |-> 0], charges |-> {}]}

\* One payment would pay both invoices.
OneDue == [i \in Invoices |-> 1]
TwoIn  == [p \in Payments |-> 2]
=============================================================================

-------------------------- MODULE OrderToCashProofs --------------------------
(***************************************************************************)
(* What OrderToCash promises, proved for every set of documents, customers *)
(* and amounts, and for both tolerances.  Type correctness comes first;    *)
(* every later invariant is proved on top of the ones before it.           *)
(*                                                                         *)
(* InvoicesInv says what the columns of an invoice may be given its        *)
(* allocations; CollectionsInv what a collection's rows and journals are   *)
(* at each status; ReturnsInv the same of a return and its journals; and   *)
(* OpenInv that what is open of an invoice is its total less its           *)
(* allocations, as long as no credit memo was posted.                      *)
(***************************************************************************)
EXTENDS OrderToCash, SumTheorems, TLAPS

LiveRows == [Payments -> [Invoices -> Nat]]

-----------------------------------------------------------------------------
(* Allocation arithmetic.                                                   *)

\* Sums of allocation rows are natural numbers.
LEMMA AllocatedType ==
  ASSUME NEW l \in LiveRows
  PROVE  /\ \A i \in Invoices : AllocatedOn(l, i) \in Nat
         /\ \A p \in Payments : AllocatedOf(l, p) \in Nat
<1>1. ASSUME NEW i \in Invoices PROVE AllocatedOn(l, i) \in Nat
  <2> DEFINE f == [p \in Payments |-> l[p][i]]
  <2>1. f \in [Payments -> Nat] /\ AllocatedOn(l, i) = SumFunction(f)
    BY DEF LiveRows, AllocatedOn
  <2> HIDE DEF f
  <2> QED BY <2>1, SumNat, DocumentsAssumption
<1>2. ASSUME NEW p \in Payments PROVE AllocatedOf(l, p) \in Nat
  <2>1. l[p] \in [Invoices -> Nat]
    BY DEF LiveRows
  <2> QED BY <2>1, SumNat, DocumentsAssumption DEF AllocatedOf
<1> QED BY <1>1, <1>2

\* A request is a function to natural numbers, and so is its sum.
LEMMA RequestType ==
  ASSUME NEW a \in AllocationRequests
  PROVE  a \in [Invoices -> Nat] /\ SumFunction(a) \in Nat
<1>1. a \in [Invoices -> Nat]
  <2>1. \A n \in {0} \cup Amounts : n \in Nat
    BY AmountsAssumption
  <2>2. DOMAIN a = Invoices /\ \A i \in Invoices : a[i] \in {0} \cup Amounts
    BY DEF AllocationRequests
  <2>3. a = [i \in Invoices |-> a[i]]
    BY DEF AllocationRequests
  <2> QED BY <2>1, <2>2, <2>3
<1> QED BY <1>1, SumNat, DocumentsAssumption

\* Inserting a request's allocations adds its amounts to both sums.
LEMMA AllocationAdds ==
  ASSUME NEW l \in LiveRows, NEW p \in Payments, NEW a \in AllocationRequests
  PROVE  LET k == WithAllocations(l, p, a)
         IN  /\ k \in LiveRows
             /\ \A i \in Invoices : /\ AllocatedOn(k, i) = AllocatedOn(l, i) + a[i]
                                    /\ k[p][i] = l[p][i] + a[i]
             /\ AllocatedOf(k, p) = AllocatedOf(l, p) + SumFunction(a)
             /\ \A q \in Payments : q # p => k[q] = l[q]
<1> DEFINE k == WithAllocations(l, p, a)
<1>1. a \in [Invoices -> Nat] /\ SumFunction(a) \in Nat
  BY RequestType
<1>2. /\ k \in LiveRows
      /\ k[p] = [i \in Invoices |-> l[p][i] + a[i]]
      /\ \A q \in Payments : q # p => k[q] = l[q]
  BY <1>1 DEF WithAllocations, LiveRows
<1> HIDE DEF k
<1>3. ASSUME NEW i \in Invoices
      PROVE  AllocatedOn(k, i) = AllocatedOn(l, i) + a[i]
  <2> DEFINE f == [q \in Payments |-> l[q][i]]
             g == [q \in Payments |-> k[q][i]]
  <2>1. f \in [Payments -> Int] /\ g \in [Payments -> Int]
    BY <1>2 DEF LiveRows
  <2>2. \A q \in Payments : q # p => g[q] = f[q]
    BY <1>2
  <2>3. g[p] = f[p] + a[i] /\ f[p] \in Int /\ a[i] \in Int
    BY <1>1, <1>2, <2>1
  <2>4. AllocatedOn(l, i) = SumFunction(f) /\ AllocatedOn(k, i) = SumFunction(g)
    BY DEF AllocatedOn
  <2> HIDE DEF f, g
  <2>5. SumFunction(g) = SumFunction(f) + g[p] - f[p]
    BY <2>1, <2>2, SumUpdate, DocumentsAssumption
  <2>6. SumFunction(f) \in Int
    BY <2>1, SumInt, DocumentsAssumption
  <2> QED BY <2>3, <2>4, <2>5, <2>6
<1>4. AllocatedOf(k, p) = AllocatedOf(l, p) + SumFunction(a)
  <2>1. /\ l[p] \in [Invoices -> Int] /\ k[p] \in [Invoices -> Int]
        /\ a \in [Invoices -> Int]
        /\ \A i \in Invoices : k[p][i] = l[p][i] + a[i]
    BY <1>1, <1>2 DEF LiveRows
  <2> QED BY <2>1, SumPlus, DocumentsAssumption DEF AllocatedOf
<1> QED BY <1>2, <1>3, <1>4 DEF k

\* Dropping a collection's allocations takes its part off every invoice.
LEMMA AllocationsLift ==
  ASSUME NEW l \in LiveRows, NEW p \in Payments
  PROVE  LET k == [l EXCEPT ![p] = [i \in Invoices |-> 0]]
         IN  /\ k \in LiveRows
             /\ \A i \in Invoices : /\ AllocatedOn(k, i) = AllocatedOn(l, i) - l[p][i]
                                    /\ k[p][i] = 0
             /\ \A q \in Payments : q # p => k[q] = l[q]
<1> DEFINE k == [l EXCEPT ![p] = [i \in Invoices |-> 0]]
<1>1. /\ k \in LiveRows
      /\ \A i \in Invoices : k[p][i] = 0
      /\ \A q \in Payments : q # p => k[q] = l[q]
  BY DEF LiveRows
<1> HIDE DEF k
<1>2. ASSUME NEW i \in Invoices
      PROVE  AllocatedOn(k, i) = AllocatedOn(l, i) - l[p][i]
  <2> DEFINE f == [q \in Payments |-> l[q][i]]
             g == [q \in Payments |-> k[q][i]]
  <2>1. f \in [Payments -> Int] /\ g \in [Payments -> Int]
    BY <1>1 DEF LiveRows
  <2>2. \A q \in Payments : q # p => g[q] = f[q]
    BY <1>1
  <2>3. g[p] = 0 /\ f[p] = l[p][i] /\ f[p] \in Int
    BY <1>1, <2>1
  <2>4. AllocatedOn(l, i) = SumFunction(f) /\ AllocatedOn(k, i) = SumFunction(g)
    BY DEF AllocatedOn
  <2> HIDE DEF f, g
  <2>5. SumFunction(g) = SumFunction(f) + g[p] - f[p]
    BY <2>1, <2>2, SumUpdate, DocumentsAssumption
  <2>6. SumFunction(f) \in Int
    BY <2>1, SumInt, DocumentsAssumption
  <2> QED BY <2>3, <2>4, <2>5, <2>6
<1> QED BY <1>1, <1>2 DEF k

-----------------------------------------------------------------------------
(* Rows.                                                                    *)

\* Recomputing keeps a row a row and only touches paid, balance and status.
LEMMA RecomputedRow ==
  ASSUME NEW row \in InvoiceRows, NEW paid \in Int
  PROVE  LET new == Recomputed(row, paid)
         IN  /\ new \in InvoiceRows
             /\ new.total = row.total /\ new.customer = row.customer
             /\ new.paid = paid
             /\ new.balance = IF row.total - paid < 0 THEN 0 ELSE row.total - paid
             /\ row.status \in {"cancelled", "credited", "draft"} =>
                  new.status = row.status
             /\ row.status \notin {"cancelled", "credited", "draft"} =>
                  new.status \in {"issued", "partially_paid", "paid"}
<1> DEFINE balance == row.total - paid
           status == IF row.status \in {"cancelled", "credited", "draft"}
                     THEN row.status
                     ELSE IF balance <= Tol THEN "paid"
                     ELSE IF paid > Tol THEN "partially_paid"
                     ELSE "issued"
           new == Recomputed(row, paid)
<1>1. balance \in Int /\ AtLeastZero(balance) \in Nat
  BY DEF InvoiceRows, AtLeastZero
<1>2. status \in {"issued", "partially_paid", "paid", "cancelled", "credited",
                 "draft"}
  OBVIOUS
<1>3. new = [row EXCEPT !.paid = paid, !.balance = AtLeastZero(balance),
                        !.status = status]
  BY DEF Recomputed, InvoiceRows
<1> HIDE DEF balance, status, new
<1>4. /\ new \in InvoiceRows
      /\ new.total = row.total /\ new.customer = row.customer
      /\ new.paid = paid /\ new.balance = AtLeastZero(balance)
      /\ new.status = status
  BY <1>1, <1>2, <1>3 DEF InvoiceRows, InvoiceStatuses
<1> QED BY <1>4 DEF AtLeastZero, balance, status, new

\* A credit memo keeps a row a row; it settles at most the balance.
LEMMA CreditedRow ==
  ASSUME NEW row \in InvoiceRows, NEW memo \in Nat
  PROVE  LET new == Credited(row, memo)
         IN  /\ new \in InvoiceRows
             /\ new.total = row.total /\ new.customer = row.customer
             /\ \E applied \in 0..row.balance :
                  /\ new.paid = row.paid + applied
                  /\ new.balance = IF row.total - new.paid < 0 THEN 0
                                   ELSE row.total - new.paid
             /\ new.status \in {"partially_paid", "credited", "paid"}
<1> DEFINE applied == AtMost(row.balance, memo)
           paid    == row.paid + applied
           balance == row.total - paid
<1>1. applied \in 0..row.balance /\ applied \in Int
  BY DEF InvoiceRows, AtMost
<1>2. row.paid \in Int /\ row.total \in Nat
  BY DEF InvoiceRows
<1> HIDE DEF applied
<1>3. paid \in Int /\ balance \in Int /\ AtLeastZero(balance) \in Nat
  BY <1>1, <1>2 DEF AtLeastZero
<1> DEFINE status == IF balance > Tol THEN "partially_paid"
                     ELSE IF applied >= row.balance /\ row.balance > 0
                     THEN "credited" ELSE "paid"
<1>4. status \in {"partially_paid", "credited", "paid"}
  OBVIOUS
<1>5. Credited(row, memo) = [row EXCEPT !.paid = paid,
                                        !.balance = AtLeastZero(balance),
                                        !.status = status]
  BY DEF Credited, applied
<1> HIDE DEF paid, balance, status
<1>6. /\ Credited(row, memo) \in InvoiceRows
      /\ Credited(row, memo).total = row.total
      /\ Credited(row, memo).customer = row.customer
      /\ Credited(row, memo).paid = paid
      /\ Credited(row, memo).balance = AtLeastZero(balance)
      /\ Credited(row, memo).status = status
  BY <1>3, <1>4, <1>5 DEF InvoiceRows, InvoiceStatuses
<1> QED BY <1>1, <1>4, <1>6 DEF AtLeastZero, paid, balance

\* Posting and reversing keep the journals well formed, and move only the
\* named one.
LEMMA JournalType ==
  ASSUME NEW j \in [JournalRefs -> JournalRows], NEW ref, NEW amount \in Nat
  PROVE  /\ Post(j, ref, amount) \in [JournalRefs -> JournalRows]
         /\ PostReversal(j, ref) \in [JournalRefs -> JournalRows]
<1>1. CASE ref \in JournalRefs
  <2>1. j[ref] \in JournalRows
    BY <1>1
  <2>2. /\ [j[ref] EXCEPT !.amount = j[ref].amount + amount] \in JournalRows
        /\ [j[ref] EXCEPT !.reversals = j[ref].reversals + 1] \in JournalRows
    BY <2>1 DEF JournalRows
  <2> QED BY <1>1, <2>2 DEF Post, PostReversal
<1>2. CASE ref \notin JournalRefs
  BY <1>2 DEF Post, PostReversal
<1> QED BY <1>1, <1>2

\* The row issue writes, and the row allocateAdvance writes, are rows.
LEMMA WrittenRows ==
  /\ \A row \in InvoiceRows :
       LET new == [row EXCEPT !.status = "issued", !.balance = row.total,
                              !.paid = 0]
       IN  /\ new \in InvoiceRows /\ new.status = "issued" /\ new.paid = 0
           /\ new.total = row.total /\ new.balance = row.total
  /\ \A row \in PaymentRows, want \in Nat :
       LET new == Applied(row, want)
       IN  /\ new \in PaymentRows /\ new.status = row.status
           /\ new.amount = row.amount
           /\ new.allocated = row.allocated + want
           /\ new.unapplied = row.unapplied - want
<1>1. ASSUME NEW row \in InvoiceRows, NEW total, total = row.total
      PROVE  LET new == [row EXCEPT !.status = "issued", !.balance = total,
                                    !.paid = 0]
             IN  /\ new \in InvoiceRows /\ new.status = "issued" /\ new.paid = 0
                 /\ new.total = total /\ new.balance = total
  <2>1. total \in Nat /\ row.total = total
    BY <1>1 DEF InvoiceRows
  <2>2. ASSUME NEW s \in InvoiceStatuses, NEW paid \in Int
        PROVE  LET new == [row EXCEPT !.status = s, !.balance = total,
                                      !.paid = paid]
               IN  /\ new \in InvoiceRows /\ new.status = s /\ new.paid = paid
                   /\ new.total = row.total /\ new.balance = total
    BY <2>1 DEF InvoiceRows
  <2>3. "issued" \in InvoiceStatuses /\ 0 \in Int
    BY DEF InvoiceStatuses
  <2> QED BY <2>1, <2>2, <2>3
<1>2. ASSUME NEW row \in PaymentRows, NEW want \in Nat
      PROVE  LET new == Applied(row, want)
             IN  /\ new \in PaymentRows /\ new.status = row.status
                 /\ new.amount = row.amount
                 /\ new.allocated = row.allocated + want
                 /\ new.unapplied = row.unapplied - want
  <2> DEFINE allocated == row.allocated + want
             unapplied == row.unapplied - want
  <2>1. allocated \in Nat /\ unapplied \in Int
    BY DEF PaymentRows
  <2>2. Applied(row, want) = [row EXCEPT !.allocated = allocated,
                                         !.unapplied = unapplied]
    BY DEF Applied
  <2> HIDE DEF allocated, unapplied
  <2>3. LET new == Applied(row, want)
        IN  /\ new \in PaymentRows /\ new.status = row.status
            /\ new.amount = row.amount
            /\ new.allocated = allocated /\ new.unapplied = unapplied
    BY <2>1, <2>2 DEF PaymentRows
  <2> QED BY <2>3 DEF allocated, unapplied
<1> QED BY <1>1, <1>2

\* A row of a type stays one when single fields get values of their type.
LEMMA StatusChange ==
  ASSUME TypeOK
  PROVE  /\ \A i \in Invoices, s \in InvoiceStatuses :
              [invoice EXCEPT ![i].status = s] \in [Invoices -> InvoiceRows]
         /\ \A p \in Payments, s \in PaymentStatuses :
              [payment EXCEPT ![p].status = s] \in [Payments -> PaymentRows]
         /\ \A r \in Returns, s \in ReturnStatuses :
              [salesReturn EXCEPT ![r].status = s] \in [Returns -> ReturnRows]
<1>1. /\ \A row \in InvoiceRows, s \in InvoiceStatuses :
           [row EXCEPT !.status = s] \in InvoiceRows
      /\ \A row \in PaymentRows, s \in PaymentStatuses :
           [row EXCEPT !.status = s] \in PaymentRows
      /\ \A row \in ReturnRows, s \in ReturnStatuses :
           [row EXCEPT !.status = s] \in ReturnRows
  BY DEF InvoiceRows, PaymentRows, ReturnRows
<1> QED BY <1>1 DEF TypeOK

\* The invoice table stays well formed when invoices are recomputed.
LEMMA RecomputedType ==
  ASSUME TypeOK, NEW l \in LiveRows, NEW touched
  PROVE  RecomputedInvoices(l, touched) \in [Invoices -> InvoiceRows]
<1>1. ASSUME NEW i \in Invoices
      PROVE  Recomputed(invoice[i], AllocatedOn(l, i)) \in InvoiceRows
  <2>1. invoice[i] \in InvoiceRows
    BY DEF TypeOK
  <2>2. AllocatedOn(l, i) \in Int
    BY AllocatedType
  <2> QED BY <2>1, <2>2, RecomputedRow
<1> QED BY <1>1 DEF RecomputedInvoices, TypeOK

\* Every step of an invoice keeps the types.
LEMMA InvoiceStepType ==
  ASSUME TypeOK, InvoiceStep
  PROVE  TypeOK'
<1> USE DEF TypeOK
<1>1. ASSUME NEW i \in Invoices, NEW c \in Customers \cup {NoCustomer},
             NEW n \in Amounts, CreateDraft(i, c, n)
      PROVE  TypeOK'
  <2>1. n \in Nat
    BY AmountsAssumption
  <2>2. invoice' \in [Invoices -> InvoiceRows]
    BY <1>1, <2>1 DEF CreateDraft, InvoiceRows, InvoiceStatuses
  <2> QED BY <1>1, <2>2 DEF CreateDraft
<1>2. ASSUME NEW i \in Invoices, IssueInvoice(i)
      PROVE  TypeOK'
  <2>1. invoice[i].total \in Nat
    BY DEF InvoiceRows
  <2>2. invoice' \in [Invoices -> InvoiceRows]
    <3> DEFINE row == [invoice[i] EXCEPT !.status = "issued",
                                         !.balance = invoice[i].total,
                                         !.paid = 0]
    <3>1. invoice[i] \in InvoiceRows
      OBVIOUS
    <3>2. row \in InvoiceRows
      BY <3>1, WrittenRows
    <3>3. invoice' = [invoice EXCEPT ![i] = row]
      BY <1>2 DEF IssueInvoice
    <3> HIDE DEF row
    <3> QED BY <3>2, <3>3
  <2>3. journal' \in [JournalRefs -> JournalRows]
    BY <1>2, <2>1, JournalType DEF IssueInvoice
  <2> QED BY <1>2, <2>2, <2>3 DEF IssueInvoice
<1>3. ASSUME NEW i \in Invoices, CancelInvoice(i)
      PROVE  TypeOK'
  <2>1. invoice' \in [Invoices -> InvoiceRows]
    BY <1>3, StatusChange DEF CancelInvoice, InvoiceStatuses
  <2> QED BY <1>3, <2>1 DEF CancelInvoice
<1> QED BY <1>1, <1>2, <1>3 DEF InvoiceStep

\* Every step of a collection keeps the types.
LEMMA PaymentStepType ==
  ASSUME TypeOK, PaymentStep
  PROVE  TypeOK'
<1> USE DEF TypeOK
<1>1. ASSUME NEW p \in Payments, NEW c \in Customers, NEW n \in Amounts,
             CreatePayment(p, c, n)
      PROVE  TypeOK'
  <2>1. n \in Nat
    BY AmountsAssumption
  <2>2. payment' \in [Payments -> PaymentRows]
    BY <1>1, <2>1 DEF CreatePayment, PaymentRows, PaymentStatuses
  <2> QED BY <1>1, <2>2 DEF CreatePayment
<1>2. ASSUME NEW p \in Payments, ApprovePayment(p) \/ CancelPayment(p)
      PROVE  TypeOK'
  <2>1. payment' \in [Payments -> PaymentRows]
    <3>1. \E status \in PaymentStatuses : payment' = [payment EXCEPT ![p].status = status]
      BY <1>2 DEF ApprovePayment, CancelPayment, PaymentStatuses
    <3> HIDE DEF TypeOK
    <3> QED BY <3>1, StatusChange
  <2> QED BY <1>2, <2>1 DEF ApprovePayment, CancelPayment
<1>3. ASSUME NEW p \in Payments, NEW a \in AllocationRequests, PostPayment(p, a)
      PROVE  TypeOK'
  <2> DEFINE allocated == SumFunction(a)
             unapplied == payment[p].amount - allocated
  <2>1. allocated \in Nat /\ unapplied \in Int
    BY RequestType DEF PaymentRows
  <2>2. live' \in LiveRows
    BY <1>3, AllocationAdds DEF PostPayment, LiveRows
  <2>3. invoice' \in [Invoices -> InvoiceRows]
    BY <1>3, <2>2, RecomputedType DEF PostPayment
  <2> HIDE DEF allocated, unapplied
  <2>4. ReceiptJournals(p, allocated, unapplied) \in [JournalRefs -> JournalRows]
    <3>1. AtLeastZero(unapplied) \in Nat
      BY <2>1 DEF AtLeastZero
    <3> QED BY <2>1, <3>1, JournalType DEF ReceiptJournals
  <2>5. payment' \in [Payments -> PaymentRows]
    <3> DEFINE row == [payment[p] EXCEPT
                         !.status = "posted",
                         !.allocated = allocated,
                         !.unapplied = unapplied,
                         !.journalId = IF allocated > 0 THEN "CustomerPayment"
                                       ELSE "CustomerAdvance"]
    <3>1. payment[p] \in PaymentRows
      OBVIOUS
    <3>2. row \in PaymentRows
      BY <2>1, <3>1 DEF PaymentRows, PaymentStatuses
    <3>3. payment' = [payment EXCEPT ![p] = row]
      BY <1>3 DEF PostPayment, allocated, unapplied
    <3> HIDE DEF row
    <3> QED BY <3>2, <3>3
  <2> QED BY <1>3, <2>2, <2>3, <2>4, <2>5
          DEF PostPayment, LiveRows, allocated, unapplied
<1>4. ASSUME NEW p \in Payments, NEW a \in AllocationRequests,
             AllocateAdvance(p, a)
      PROVE  TypeOK'
  <2> DEFINE want == SumFunction(a)
  <2>1. want \in Nat
    BY RequestType
  <2>2. live' \in LiveRows
    BY <1>4, AllocationAdds DEF AllocateAdvance, LiveRows
  <2>3. invoice' \in [Invoices -> InvoiceRows]
    BY <1>4, <2>2, RecomputedType DEF AllocateAdvance
  <2>4. journal' \in [JournalRefs -> JournalRows]
    BY <1>4, <2>1, JournalType DEF AllocateAdvance
  <2> HIDE DEF want
  <2>5. Applied(payment[p], want) \in PaymentRows
    <3>1. payment[p] \in PaymentRows
      OBVIOUS
    <3> QED BY <2>1, <3>1, WrittenRows
  <2>6. payment' \in [Payments -> PaymentRows]
    BY <1>4, <2>5 DEF AllocateAdvance, want
  <2> QED BY <1>4, <2>2, <2>3, <2>4, <2>6 DEF AllocateAdvance, LiveRows
<1>5. ASSUME NEW p \in Payments, ReversePayment(p)
      PROVE  TypeOK'
  <2>1. live' \in LiveRows
    BY <1>5, AllocationsLift DEF ReversePayment, LiveRows
  <2>2. invoice' \in [Invoices -> InvoiceRows]
    BY <1>5, <2>1, RecomputedType DEF ReversePayment
  <2>3. journal' \in [JournalRefs -> JournalRows]
    <3>1. PostReversal(journal, <<payment[p].journalId, p>>)
            \in [JournalRefs -> JournalRows]
      BY JournalType
    <3>2. \A ref : \A j \in [JournalRefs -> JournalRows] :
            PostReversal(j, ref) \in [JournalRefs -> JournalRows]
      BY JournalType
    <3> QED BY <1>5, <3>1, <3>2 DEF ReversePayment
  <2>4. payment' \in [Payments -> PaymentRows]
    BY <1>5, StatusChange DEF ReversePayment, PaymentStatuses
  <2> QED BY <1>5, <2>1, <2>2, <2>3, <2>4 DEF ReversePayment, LiveRows
<1> QED BY <1>1, <1>2, <1>3, <1>4, <1>5 DEF PaymentStep

\* Every step of a return keeps the types.
LEMMA ReturnStepType ==
  ASSUME TypeOK, ReturnStep
  PROVE  TypeOK'
<1> USE DEF TypeOK
<1>1. ASSUME NEW r \in Returns, NEW i \in Invoices, NEW q \in Amounts,
             NEW m \in RefundMethods, NEW b \in BOOLEAN,
             CreateReturn(r, i, q, m, b)
      PROVE  TypeOK'
  <2>1. q \in Nat /\ m \in AllRefundMethods
    BY AmountsAssumption
  <2>2. salesReturn' \in [Returns -> ReturnRows]
    BY <1>1, <2>1 DEF CreateReturn, ReturnRows, ReturnStatuses, PaymentStatuses
  <2> QED BY <1>1, <2>2 DEF CreateReturn
<1>2. ASSUME NEW r \in Returns, ApproveReturn(r) \/ CancelReturn(r)
      PROVE  TypeOK'
  <2>1. salesReturn' \in [Returns -> ReturnRows]
    <3>1. /\ "approved" \in ReturnStatuses /\ "cancelled" \in ReturnStatuses
      BY DEF ReturnStatuses, PaymentStatuses
    <3>2. \A s \in ReturnStatuses :
            [salesReturn EXCEPT ![r].status = s] \in [Returns -> ReturnRows]
      BY StatusChange
    <3>3. CASE ApproveReturn(r)
      BY <3>1, <3>2, <3>3 DEF ApproveReturn
    <3>4. CASE CancelReturn(r)
      BY <3>1, <3>2, <3>4 DEF CancelReturn
    <3> QED BY <1>2, <3>3, <3>4
  <2> QED BY <1>2, <2>1 DEF ApproveReturn, CancelReturn
<1>3. ASSUME NEW r \in Returns, PostReturn(r)
      PROVE  TypeOK'
  <2> DEFINE i == salesReturn[r].original
             total == salesReturn[r].total
             sales == Post(journal, <<"SalesReturn", r>>, total)
  <2>1. total \in Nat
    BY DEF ReturnRows
  <2>2. salesReturn' \in [Returns -> ReturnRows]
    BY <1>3, StatusChange DEF PostReturn, ReturnStatuses, PaymentStatuses
  <2>3. invoice' \in [Invoices -> InvoiceRows]
    <3>1. i \in Invoices => Credited(invoice[i], total) \in InvoiceRows
      BY <2>1, CreditedRow
    <3>2. \/ invoice' = invoice
          \/ invoice' = [invoice EXCEPT ![i] = Credited(invoice[i], total)]
      BY <1>3 DEF PostReturn
    <3> QED BY <3>1, <3>2
  <2>4. journal' \in [JournalRefs -> JournalRows]
    <3>1. sales \in [JournalRefs -> JournalRows]
      BY <2>1, JournalType
    <3> HIDE DEF sales
    <3>2. Post(sales, <<"SalesReturnCOGS", r>>, total)
            \in [JournalRefs -> JournalRows]
      BY <2>1, <3>1, JournalType
    <3> QED BY <1>3, <3>1, <3>2 DEF PostReturn, sales
  <2>5. stock' \in Int
    BY <1>3, <2>1 DEF PostReturn
  <2> QED BY <1>3, <2>2, <2>3, <2>4, <2>5 DEF PostReturn
<1>4. ASSUME NEW r \in Returns, ReverseReturn(r)
      PROVE  TypeOK'
  <2>1. salesReturn' \in [Returns -> ReturnRows]
    BY <1>4, StatusChange DEF ReverseReturn, ReturnStatuses, PaymentStatuses
  <2>2. journal' \in [JournalRefs -> JournalRows]
    <3>1. \A ref : \A j \in [JournalRefs -> JournalRows] :
            PostReversal(j, ref) \in [JournalRefs -> JournalRows]
      BY JournalType
    <3> QED BY <1>4, <3>1 DEF ReverseReturn, ReturnReversalJournals
  <2>3. stock' \in Int
    BY <1>4 DEF ReverseReturn, ReturnRows
  <2> QED BY <1>4, <2>1, <2>2, <2>3 DEF ReverseReturn
<1> QED BY <1>1, <1>2, <1>3, <1>4 DEF ReturnStep

\* Type correctness: amounts stay naturals and balances never go negative
\* in any reachable state, for any documents, amounts and tolerance.
THEOREM TypeCorrect == Spec => []TypeOK
<1>1. Init => TypeOK
  BY DEF Init, TypeOK, InvoiceRows, PaymentRows, ReturnRows, JournalRows,
         InvoiceStatuses, PaymentStatuses, ReturnStatuses, AllRefundMethods,
         NewJournal
<1>2. TypeOK /\ [Next]_vars => TypeOK'
  <2>1. TypeOK /\ UNCHANGED vars => TypeOK'
    BY DEF TypeOK, vars
  <2> QED BY <2>1, InvoiceStepType, PaymentStepType, ReturnStepType DEF Next
<1> QED BY <1>1, <1>2, PTL DEF Spec

-----------------------------------------------------------------------------
(* Invoices and the allocations they carry.  What one invoice needs of the  *)
(* sum of its allocations: none before it is issued, at most its total      *)
(* after, and a balance that is what is left.                               *)

Unissued == {"none", "draft", "cancelled"}

Settled(row, allocated) ==
  /\ row.status \in Unissued => allocated = 0
  /\ allocated <= row.total + Tol
  /\ row.status \notin {"none", "cancelled"} =>
       /\ row.balance - (row.total - row.paid) \in 0..Tol
       /\ row.balance >= 0

\* A return points to an invoice that exists.
OriginalExists ==
  \A r \in Returns :
    salesReturn[r].status # "none" =>
      /\ salesReturn[r].original \in Invoices
      /\ invoice[salesReturn[r].original].status # "none"

InvoicesInv ==
  /\ \A i \in Invoices : Settled(invoice[i], AllocatedOn(live, i))
  /\ OriginalExists

\* Recomputing an invoice from allocations within its total settles it.
LEMMA RecomputedSettled ==
  ASSUME NEW row \in InvoiceRows, NEW n \in Nat, n <= row.total + Tol,
         row.status \in Unissued => n = 0
  PROVE  /\ Settled(Recomputed(row, n), n)
         /\ Recomputed(row, n).status # "none"
         /\ Recomputed(row, n) \in InvoiceRows
<1> DEFINE new == Recomputed(row, n)
<1>1. /\ new \in InvoiceRows /\ new.total = row.total /\ new.paid = n
      /\ new.balance = IF row.total - n < 0 THEN 0 ELSE row.total - n
      /\ row.status \in {"cancelled", "credited", "draft"} => new.status = row.status
      /\ row.status \notin {"cancelled", "credited", "draft"} =>
           new.status \in {"issued", "partially_paid", "paid"}
  BY RecomputedRow
<1>2. row.total \in Nat /\ Tol \in {0, 1}
  BY AmountsAssumption DEF InvoiceRows
<1> HIDE DEF new
<1>3. Settled(new, n)
  BY <1>1, <1>2 DEF Settled, Unissued
<1>4. new.status # "none"
  BY <1>1
<1> QED BY <1>1, <1>3, <1>4 DEF new

\* The allocations of one collection on an invoice are part of its sum.
LEMMA PartOfSum ==
  ASSUME NEW l \in LiveRows, NEW p \in Payments, NEW i \in Invoices
  PROVE  l[p][i] \in Nat /\ l[p][i] <= AllocatedOn(l, i)
<1> DEFINE f == [q \in Payments |-> l[q][i]]
<1>1. f \in [Payments -> Nat] /\ f[p] = l[p][i] /\ AllocatedOn(l, i) = SumFunction(f)
  BY DEF LiveRows, AllocatedOn
<1>2. l[p][i] \in Nat
  BY DEF LiveRows
<1> HIDE DEF f
<1> QED BY <1>1, <1>2, SumAtLeast, DocumentsAssumption

\* Applying a request that passed applyAllocations keeps every invoice
\* settled.
LEMMA AllocationKeeps ==
  ASSUME TypeOK, InvoicesInv, NEW p \in Payments, NEW a \in AllocationRequests,
         CanAllocate(p, a),
         live' = WithAllocations(live, p, a),
         invoice' = RecomputedInvoices(live', Named(a)),
         salesReturn' = salesReturn
  PROVE  InvoicesInv'
<1>1. live \in LiveRows
  BY DEF TypeOK, LiveRows
<1>2. /\ live' \in LiveRows
      /\ \A i \in Invoices : AllocatedOn(live', i) = AllocatedOn(live, i) + a[i]
  BY <1>1, AllocationAdds
<1>3. ASSUME NEW i \in Invoices
      PROVE  /\ Settled(invoice'[i], AllocatedOn(live', i))
             /\ invoice[i].status # "none" => invoice'[i].status # "none"
  <2>1. /\ a[i] \in Nat
        /\ AllocatedOn(live, i) \in Nat /\ AllocatedOn(live', i) \in Nat
    BY <1>1, <1>2, RequestType, AllocatedType
  <2>2. invoice[i] \in InvoiceRows /\ Settled(invoice[i], AllocatedOn(live, i))
    BY DEF TypeOK, InvoicesInv
  <2>3. CASE i \in Named(a)
    <3>1. Allocatable(p, i, a[i])
      BY <2>3 DEF CanAllocate
    <3>2. invoice[i].status \notin Unissued
      BY <3>1 DEF Allocatable, Unissued
    <3>3. AllocatedOn(live', i) <= invoice[i].total + Tol
      <4>1. a[i] <= invoice[i].total - AllocatedOn(live, i) + Tol
        BY <3>1 DEF Allocatable
      <4>2. invoice[i].total \in Nat /\ Tol \in Int
        BY <2>2, AmountsAssumption DEF InvoiceRows
      <4>3. AllocatedOn(live', i) = AllocatedOn(live, i) + a[i]
        BY <1>2
      <4> QED BY <2>1, <4>1, <4>2, <4>3
    <3>4. invoice'[i] = Recomputed(invoice[i], AllocatedOn(live', i))
      BY <2>3 DEF RecomputedInvoices
    <3> QED BY <2>1, <2>2, <3>2, <3>3, <3>4, RecomputedSettled
  <2>4. CASE i \notin Named(a)
    <3>1. a[i] = 0
      BY <2>1, <2>4 DEF Named
    <3>2. AllocatedOn(live', i) = AllocatedOn(live, i)
      BY <1>2, <2>1, <3>1
    <3>3. invoice'[i] = invoice[i]
      BY <2>4 DEF RecomputedInvoices
    <3> QED BY <2>2, <3>2, <3>3
  <2> QED BY <2>3, <2>4
<1>4. OriginalExists'
  BY <1>3 DEF InvoicesInv, OriginalExists
<1> QED BY <1>3, <1>4 DEF InvoicesInv, AllocatedOn

\* Reversing a collection keeps every invoice settled.
LEMMA ReversalKeeps ==
  ASSUME TypeOK, InvoicesInv, NEW p \in Payments, ReversePayment(p)
  PROVE  InvoicesInv'
<1>1. live \in LiveRows
  BY DEF TypeOK, LiveRows
<1>2. /\ live' \in LiveRows
      /\ \A i \in Invoices :
           AllocatedOn(live', i) = AllocatedOn(live, i) - live[p][i]
  BY <1>1, AllocationsLift DEF ReversePayment
<1>3. ASSUME NEW i \in Invoices
      PROVE  /\ Settled(invoice'[i], AllocatedOn(live', i))
             /\ invoice[i].status # "none" => invoice'[i].status # "none"
  <2>1. /\ live[p][i] \in Nat /\ live[p][i] <= AllocatedOn(live, i)
        /\ AllocatedOn(live, i) \in Nat /\ AllocatedOn(live', i) \in Nat
    BY <1>1, <1>2, PartOfSum, AllocatedType
  <2>2. invoice[i] \in InvoiceRows /\ Settled(invoice[i], AllocatedOn(live, i))
    BY DEF TypeOK, InvoicesInv
  <2>3. AllocatedOn(live', i) = AllocatedOn(live, i) - live[p][i]
    BY <1>2
  <2>4. CASE i \in Named(live[p])
    <3>1. invoice'[i] = Recomputed(invoice[i], AllocatedOn(live', i))
      BY <2>4 DEF ReversePayment, RecomputedInvoices, ToRecompute
    <3>2. invoice[i].total \in Nat /\ Tol \in Int
      BY <2>2, AmountsAssumption DEF InvoiceRows
    <3>3. AllocatedOn(live', i) <= invoice[i].total + Tol
      BY <2>1, <2>2, <2>3, <3>2 DEF Settled
    <3>4. invoice[i].status \in Unissued => AllocatedOn(live', i) = 0
      BY <2>1, <2>2, <2>3 DEF Settled
    <3> QED BY <2>1, <2>2, <3>1, <3>3, <3>4, RecomputedSettled
  <2>5. CASE i \notin Named(live[p])
    <3>1. invoice'[i] = invoice[i]
      BY <2>5 DEF ReversePayment, RecomputedInvoices, ToRecompute
    <3>2. live[p][i] = 0
      BY <2>1, <2>5 DEF Named
    <3>3. AllocatedOn(live', i) = AllocatedOn(live, i)
      BY <2>1, <2>3, <3>2
    <3> QED BY <2>2, <3>1, <3>3
  <2> QED BY <2>4, <2>5
<1>4. OriginalExists'
  BY <1>3 DEF ReversePayment, InvoicesInv, OriginalExists
<1> QED BY <1>3, <1>4 DEF InvoicesInv, AllocatedOn

\* A credit memo keeps its invoice settled.
LEMMA CreditedSettled ==
  ASSUME NEW row \in InvoiceRows, NEW memo \in Nat, NEW n \in Nat,
         row.status # "none", row.status # "cancelled", Settled(row, n)
  PROVE  Settled(Credited(row, memo), n) /\ Credited(row, memo).status # "none"
<1> DEFINE new == Credited(row, memo)
<1>1. /\ new.total = row.total
      /\ new.status \in {"partially_paid", "credited", "paid"}
  BY CreditedRow
<1>2. PICK applied \in 0..row.balance :
        /\ new.paid = row.paid + applied
        /\ new.balance = IF row.total - new.paid < 0 THEN 0
                         ELSE row.total - new.paid
  BY CreditedRow
<1> HIDE DEF new
<1>3. /\ row.total \in Nat /\ row.paid \in Int /\ row.balance \in Nat
      /\ Tol \in {0, 1} /\ applied \in Int
  BY AmountsAssumption DEF InvoiceRows
<1>4. row.balance - (row.total - row.paid) \in 0..Tol
  BY DEF Settled
<1>5. row.total - new.paid >= -Tol
  BY <1>2, <1>3, <1>4
<1>6. new.balance - (new.total - new.paid) \in 0..Tol /\ new.balance >= 0
  BY <1>1, <1>2, <1>3, <1>5
<1>7. n <= new.total + Tol
  BY <1>1 DEF Settled
<1> QED BY <1>1, <1>6, <1>7 DEF Settled, Unissued, new

\* Steps of invoices keep every invoice settled.
LEMMA InvoiceStepKeeps ==
  ASSUME TypeOK, InvoicesInv, InvoiceStep
  PROVE  InvoicesInv'
<1>1. PICK i \in Invoices :
        \/ \E c \in Customers \cup {NoCustomer}, n \in Amounts : CreateDraft(i, c, n)
        \/ IssueInvoice(i)
        \/ CancelInvoice(i)
  BY DEF InvoiceStep
<1>2. live' = live /\ salesReturn' = salesReturn
  BY <1>1 DEF CreateDraft, IssueInvoice, CancelInvoice
<1>3. \A k \in Invoices : k # i => invoice'[k] = invoice[k]
  BY <1>1 DEF CreateDraft, IssueInvoice, CancelInvoice, TypeOK
<1>4. invoice[i] \in InvoiceRows /\ Settled(invoice[i], AllocatedOn(live, i))
  BY DEF TypeOK, InvoicesInv
<1>5. AllocatedOn(live, i) = 0 /\ Tol \in {0, 1}
  BY <1>1, <1>4, AmountsAssumption
  DEF CreateDraft, IssueInvoice, CancelInvoice, Settled, Unissued
<1>6. Settled(invoice'[i], 0) /\ invoice'[i].status # "none"
  <2>1. ASSUME NEW c \in Customers \cup {NoCustomer}, NEW n \in Amounts,
               CreateDraft(i, c, n)
        PROVE  Settled(invoice'[i], 0) /\ invoice'[i].status # "none"
    <3>1. n \in Nat
      BY AmountsAssumption
    <3>2. /\ invoice'[i].status = "draft" /\ invoice'[i].total = n
          /\ invoice'[i].paid = 0 /\ invoice'[i].balance = n
      BY <2>1 DEF CreateDraft, TypeOK
    <3> QED BY <1>5, <3>1, <3>2 DEF Settled, Unissued
  <2>2. CASE IssueInvoice(i)
    <3> DEFINE row == [invoice[i] EXCEPT !.status = "issued",
                                         !.balance = invoice[i].total,
                                         !.paid = 0]
    <3>1. invoice'[i] = row
      BY <2>2 DEF IssueInvoice, TypeOK
    <3>2. /\ row.status = "issued" /\ row.paid = 0
          /\ row.total = invoice[i].total /\ row.balance = invoice[i].total
      BY <1>4, WrittenRows
    <3>3. invoice[i].total \in Nat
      BY <1>4 DEF InvoiceRows
    <3> HIDE DEF row
    <3> QED BY <1>5, <3>1, <3>2, <3>3 DEF Settled, Unissued
  <2>3. CASE CancelInvoice(i)
    <3>1. /\ invoice'[i].status = "cancelled"
          /\ invoice'[i].total = invoice[i].total
      BY <2>3, <1>4 DEF CancelInvoice, TypeOK, InvoiceRows
    <3>2. invoice[i].total \in Nat
      BY <1>4 DEF InvoiceRows
    <3> QED BY <1>5, <3>1, <3>2 DEF Settled, Unissued
  <2> QED BY <1>1, <2>1, <2>2, <2>3
<1>7. OriginalExists'
  BY <1>2, <1>3, <1>6 DEF InvoicesInv, OriginalExists
<1>8. \A k \in Invoices : AllocatedOn(live', k) = AllocatedOn(live, k)
  BY <1>2
<1>9. \A k \in Invoices : Settled(invoice'[k], AllocatedOn(live', k))
  BY <1>3, <1>5, <1>6, <1>8 DEF InvoicesInv
<1> QED BY <1>7, <1>9 DEF InvoicesInv, AllocatedOn

\* Steps of returns keep every invoice settled.
LEMMA ReturnStepKeeps ==
  ASSUME TypeOK, InvoicesInv, ReturnStep
  PROVE  InvoicesInv'
<1>1. live' = live
  BY DEF ReturnStep, CreateReturn, ApproveReturn, CancelReturn, PostReturn,
         ReverseReturn
<1>2. ASSUME invoice' = invoice, OriginalExists'
      PROVE  InvoicesInv'
  BY <1>1, <1>2 DEF InvoicesInv, AllocatedOn
<1>3. ASSUME NEW r \in Returns, NEW i \in Invoices, NEW q \in Amounts,
             NEW m \in RefundMethods, NEW b \in BOOLEAN,
             CreateReturn(r, i, q, m, b)
      PROVE  InvoicesInv'
  <2>1. OriginalExists'
    BY <1>3 DEF CreateReturn, InvoicesInv, OriginalExists, TypeOK
  <2> QED BY <1>2, <1>3, <2>1 DEF CreateReturn
<1>4. ASSUME NEW r \in Returns,
             \/ ApproveReturn(r) \/ CancelReturn(r) \/ ReverseReturn(r)
      PROVE  InvoicesInv'
  <2>1. /\ invoice' = invoice
        /\ salesReturn[r].status # "none"
        /\ \A k \in Returns : salesReturn'[k].original = salesReturn[k].original
        /\ \A k \in Returns : k # r => salesReturn'[k] = salesReturn[k]
    <3>1. PICK s : salesReturn' = [salesReturn EXCEPT ![r].status = s]
      BY <1>4 DEF ApproveReturn, CancelReturn, ReverseReturn
    <3>2. \A k \in Returns : salesReturn[k] \in ReturnRows
      BY DEF TypeOK
    <3>3. \A row \in ReturnRows : [row EXCEPT !.status = s].original = row.original
      BY DEF ReturnRows
    <3>4. \A k \in Returns :
            salesReturn'[k] = IF k = r THEN [salesReturn[k] EXCEPT !.status = s]
                              ELSE salesReturn[k]
      BY <3>1 DEF TypeOK
    <3>5. invoice' = invoice /\ salesReturn[r].status # "none"
      BY <1>4 DEF ApproveReturn, CancelReturn, ReverseReturn
    <3> QED BY <3>2, <3>3, <3>4, <3>5
  <2>2. OriginalExists'
    BY <2>1 DEF InvoicesInv, OriginalExists
  <2> QED BY <1>2, <2>1, <2>2
<1>5. ASSUME NEW r \in Returns, PostReturn(r)
      PROVE  InvoicesInv'
  <2> DEFINE i == salesReturn[r].original
             memo == salesReturn[r].total
  <2>1. i \in Invoices /\ invoice[i].status # "none" /\ memo \in Nat
    BY <1>5 DEF PostReturn, InvoicesInv, OriginalExists, TypeOK, ReturnRows
  <2>2. /\ invoice[i] \in InvoiceRows
        /\ Settled(invoice[i], AllocatedOn(live, i))
        /\ AllocatedOn(live, i) \in Nat
    BY <2>1, AllocatedType DEF TypeOK, InvoicesInv, LiveRows
  <2>3. \/ invoice' = invoice
        \/ /\ invoice[i].status # "cancelled"
           /\ invoice' = [invoice EXCEPT ![i] = Credited(invoice[i], memo)]
    BY <1>5 DEF PostReturn
  <2> HIDE DEF memo
  <2>4. /\ Settled(invoice'[i], AllocatedOn(live, i))
        /\ invoice'[i].status # "none"
        /\ \A k \in Invoices : k # i => invoice'[k] = invoice[k]
    <3>1. CASE invoice' = invoice
      BY <2>1, <2>2, <3>1
    <3>2. CASE /\ invoice[i].status # "cancelled"
               /\ invoice' = [invoice EXCEPT ![i] = Credited(invoice[i], memo)]
      <4>1. /\ Settled(Credited(invoice[i], memo), AllocatedOn(live, i))
            /\ Credited(invoice[i], memo).status # "none"
        BY <2>1, <2>2, <3>2, CreditedSettled
      <4> QED BY <2>1, <3>2, <4>1 DEF TypeOK
    <3> QED BY <2>3, <3>1, <3>2
  <2>5. \A k \in Returns :
          /\ salesReturn'[k].original = salesReturn[k].original
          /\ k # r => salesReturn'[k] = salesReturn[k]
    BY <1>5 DEF PostReturn, TypeOK, ReturnRows
  <2>6. OriginalExists'
    BY <2>1, <2>4, <2>5 DEF InvoicesInv, OriginalExists
  <2>7. \A k \in Invoices : AllocatedOn(live', k) = AllocatedOn(live, k)
    BY <1>1
  <2>8. \A k \in Invoices : Settled(invoice'[k], AllocatedOn(live', k))
    BY <2>4, <2>7 DEF InvoicesInv
  <2> QED BY <2>6, <2>8 DEF InvoicesInv, AllocatedOn
<1> QED BY <1>3, <1>4, <1>5 DEF ReturnStep

\* The invariant behind the two theorems on invoices.
LEMMA InvoicesInvariant == Spec => []InvoicesInv
<1>1. Init => InvoicesInv
  <2> SUFFICES ASSUME Init PROVE InvoicesInv
    OBVIOUS
  <2>1. ASSUME NEW i \in Invoices PROVE AllocatedOn(live, i) = 0
    <3> DEFINE f == [p \in Payments |-> live[p][i]]
    <3>1. f \in [Payments -> Int] /\ \A p \in Payments : f[p] = 0
      BY DEF Init
    <3>2. AllocatedOn(live, i) = SumFunction(f)
      BY DEF AllocatedOn
    <3> HIDE DEF f
    <3> QED BY <3>1, <3>2, SumZero, DocumentsAssumption
  <2>2. Tol \in {0, 1}
    BY AmountsAssumption
  <2> QED BY <2>1, <2>2 DEF Init, InvoicesInv, OriginalExists, Settled, Unissued
<1>2. ASSUME TypeOK, InvoicesInv, [Next]_vars PROVE InvoicesInv'
  <2>1. CASE InvoiceStep
    BY <1>2, <2>1, InvoiceStepKeeps
  <2>2. CASE PaymentStep
    <3>1. ASSUME NEW p \in Payments,
                 \/ \E c \in Customers, n \in Amounts : CreatePayment(p, c, n)
                 \/ ApprovePayment(p) \/ CancelPayment(p)
          PROVE  InvoicesInv'
      BY <1>2, <3>1 DEF CreatePayment, ApprovePayment, CancelPayment,
                        InvoicesInv, OriginalExists, AllocatedOn
    <3>2. ASSUME NEW p \in Payments, NEW a \in AllocationRequests,
                 PostPayment(p, a) \/ AllocateAdvance(p, a)
          PROVE  InvoicesInv'
      <4>1. /\ CanAllocate(p, a)
            /\ live' = WithAllocations(live, p, a)
            /\ invoice' = RecomputedInvoices(live', Named(a))
            /\ salesReturn' = salesReturn
        BY <3>2 DEF PostPayment, AllocateAdvance
      <4> QED BY <1>2, <4>1, AllocationKeeps
    <3>3. ASSUME NEW p \in Payments, ReversePayment(p)
          PROVE  InvoicesInv'
      BY <1>2, <3>3, ReversalKeeps
    <3> QED BY <2>2, <3>1, <3>2, <3>3 DEF PaymentStep
  <2>3. CASE ReturnStep
    BY <1>2, <2>3, ReturnStepKeeps
  <2>4. CASE UNCHANGED vars
    BY <1>2, <2>4 DEF vars, InvoicesInv, OriginalExists, AllocatedOn
  <2> QED BY <1>2, <2>1, <2>2, <2>3, <2>4 DEF Next
<1> QED BY <1>1, <1>2, TypeCorrect, PTL DEF Spec

\* No invoice carries live allocations beyond its total (plus the
\* tolerance), whatever collections, advances and reversals came before.
THEOREM NeverOverAllocated == Spec => []NoOverAllocation
<1>1. InvoicesInv => NoOverAllocation
  BY DEF InvoicesInv, Settled, NoOverAllocation
<1> QED BY <1>1, InvoicesInvariant, PTL

\* An invoice's balance is always what is left of its total.
THEOREM InvoicesConsistent == Spec => []InvoiceConsistency
<1>1. InvoicesInv => InvoiceConsistency
  BY DEF InvoicesInv, Settled, InvoiceConsistency
<1> QED BY <1>1, InvoicesInvariant, PTL

-----------------------------------------------------------------------------
(* Journals and the documents they belong to.                               *)

\* What a posting and a reversal write, and that they leave every other
\* journal alone.
LEMMA JournalWrites ==
  ASSUME NEW j \in [JournalRefs -> JournalRows], NEW ref \in JournalRefs,
         NEW n \in Nat
  PROVE  /\ Post(j, ref, n)[ref].amount = j[ref].amount + n
         /\ Post(j, ref, n)[ref].reversals = j[ref].reversals
         /\ PostReversal(j, ref)[ref].amount = j[ref].amount
         /\ PostReversal(j, ref)[ref].reversals = j[ref].reversals + 1
         /\ \A other \in JournalRefs \ {ref} :
              /\ Post(j, ref, n)[other] = j[other]
              /\ PostReversal(j, ref)[other] = j[other]
<1>1. j[ref] \in JournalRows
  OBVIOUS
<1>2. /\ [j[ref] EXCEPT !.amount = j[ref].amount + n].amount = j[ref].amount + n
      /\ [j[ref] EXCEPT !.amount = j[ref].amount + n].reversals = j[ref].reversals
      /\ [j[ref] EXCEPT !.reversals = j[ref].reversals + 1].amount = j[ref].amount
      /\ [j[ref] EXCEPT !.reversals = j[ref].reversals + 1].reversals
           = j[ref].reversals + 1
  BY <1>1 DEF JournalRows
<1> QED BY <1>2 DEF Post, PostReversal

-----------------------------------------------------------------------------
(* Which rows a step of one document leaves alone.                          *)

InvoiceStepOf(i) ==
  \/ \E c \in Customers \cup {NoCustomer}, n \in Amounts : CreateDraft(i, c, n)
  \/ IssueInvoice(i)
  \/ CancelInvoice(i)

PaymentStepOf(p) ==
  \/ \E c \in Customers, n \in Amounts : CreatePayment(p, c, n)
  \/ ApprovePayment(p)
  \/ CancelPayment(p)
  \/ \E a \in AllocationRequests : PostPayment(p, a) \/ AllocateAdvance(p, a)
  \/ ReversePayment(p)

ReturnStepOf(r) ==
  \/ \E i \in Invoices, q \in Amounts, m \in RefundMethods, b \in BOOLEAN :
       CreateReturn(r, i, q, m, b)
  \/ ApproveReturn(r)
  \/ CancelReturn(r)
  \/ PostReturn(r)
  \/ ReverseReturn(r)

LEMMA StepsOfDocuments ==
  /\ InvoiceStep <=> \E i \in Invoices : InvoiceStepOf(i)
  /\ PaymentStep <=> \E p \in Payments : PaymentStepOf(p)
  /\ ReturnStep <=> \E r \in Returns : ReturnStepOf(r)
<1>1. InvoiceStep <=> \E i \in Invoices : InvoiceStepOf(i)
  BY DEF InvoiceStep, InvoiceStepOf
<1>2. PaymentStep <=> \E p \in Payments : PaymentStepOf(p)
  BY DEF PaymentStep, PaymentStepOf
<1>3. ReturnStep <=> \E r \in Returns : ReturnStepOf(r)
  BY DEF ReturnStep, ReturnStepOf
<1> QED BY <1>1, <1>2, <1>3

CollectionRefs(p) ==
  {<<"CustomerPayment", p>>, <<"CustomerAdvance", p>>,
   <<"CustomerAdvanceApplication", p>>}

ReturnRefs(r) == {<<"SalesReturn", r>>, <<"SalesReturnCOGS", r>>}

\* The journals of two documents are different journals.
LEMMA RefsApart ==
  /\ \A i \in Invoices : <<"CustomerInvoice", i>> \in JournalRefs
  /\ \A p \in Payments : CollectionRefs(p) \subseteq JournalRefs
  /\ \A r \in Returns : ReturnRefs(r) \subseteq JournalRefs
  /\ \A i \in Invoices, p \in Payments : <<"CustomerInvoice", i>> \notin CollectionRefs(p)
  /\ \A i \in Invoices, r \in Returns : <<"CustomerInvoice", i>> \notin ReturnRefs(r)
  /\ \A p \in Payments, r \in Returns : CollectionRefs(p) \cap ReturnRefs(r) = {}
  /\ \A i, k \in Invoices :
       i # k => <<"CustomerInvoice", i>> # <<"CustomerInvoice", k>>
  /\ \A p, q \in Payments : p # q => CollectionRefs(p) \cap CollectionRefs(q) = {}
  /\ \A r, s \in Returns : r # s => ReturnRefs(r) \cap ReturnRefs(s) = {}
BY DEF JournalRefs, CollectionRefs, ReturnRefs

\* Posting and reversing move the named journal only.
LEMMA OtherJournals ==
  ASSUME NEW j \in [JournalRefs -> JournalRows], NEW name, NEW n,
         NEW ref \in JournalRefs, ref # name
  PROVE  Post(j, name, n)[ref] = j[ref] /\ PostReversal(j, name)[ref] = j[ref]
BY DEF Post, PostReversal

\* A step of an invoice writes its row and its journal.
LEMMA InvoiceStepWrites ==
  ASSUME TypeOK, NEW i \in Invoices, InvoiceStepOf(i)
  PROVE  /\ UNCHANGED <<payment, live, salesReturn, stock>>
         /\ \A k \in Invoices : k # i => invoice'[k] = invoice[k]
         /\ \A ref \in JournalRefs :
              ref # <<"CustomerInvoice", i>> => journal'[ref] = journal[ref]
<1>1. journal' = journal \/ \E n : journal' = Post(journal, <<"CustomerInvoice", i>>, n)
  BY DEF InvoiceStepOf, CreateDraft, IssueInvoice, CancelInvoice
<1>2. \A ref \in JournalRefs :
        ref # <<"CustomerInvoice", i>> => journal'[ref] = journal[ref]
  BY <1>1, OtherJournals DEF TypeOK
<1>3. \A k \in Invoices : k # i => invoice'[k] = invoice[k]
  BY DEF InvoiceStepOf, CreateDraft, IssueInvoice, CancelInvoice, TypeOK
<1>4. UNCHANGED <<payment, live, salesReturn, stock>>
  BY DEF InvoiceStepOf, CreateDraft, IssueInvoice, CancelInvoice
<1> QED BY <1>2, <1>3, <1>4

\* A step of a collection writes its row, its allocations, its journals,
\* and the invoices it allocates to.
LEMMA PaymentStepWrites ==
  ASSUME TypeOK, NEW p \in Payments, PaymentStepOf(p)
  PROVE  /\ UNCHANGED <<salesReturn, stock>>
         /\ \A q \in Payments :
              q # p => payment'[q] = payment[q] /\ live'[q] = live[q]
         /\ \A ref \in JournalRefs \ CollectionRefs(p) :
              journal'[ref] = journal[ref]
<1>1. \/ journal' = journal
      \/ \E n, m : journal' = Post(Post(journal, <<"CustomerPayment", p>>, n),
                                   <<"CustomerAdvance", p>>, m)
      \/ \E n : journal' = Post(journal, <<"CustomerAdvanceApplication", p>>, n)
      \/ ReversePayment(p)
  BY DEF PaymentStepOf, CreatePayment, ApprovePayment, CancelPayment,
         PostPayment, AllocateAdvance, ReceiptJournals
<1>2. ASSUME NEW ref \in JournalRefs \ CollectionRefs(p)
      PROVE  journal'[ref] = journal[ref]
  <2>1. /\ ref # <<"CustomerPayment", p>> /\ ref # <<"CustomerAdvance", p>>
        /\ ref # <<"CustomerAdvanceApplication", p>>
    BY DEF CollectionRefs
  <2>2. journal \in [JournalRefs -> JournalRows] /\ payment[p] \in PaymentRows
    BY DEF TypeOK
  <2>3. ASSUME NEW n, NEW m
        PROVE  Post(Post(journal, <<"CustomerPayment", p>>, n),
                    <<"CustomerAdvance", p>>, m)[ref] = journal[ref]
    BY <2>1, <2>2 DEF Post
  <2>4. ASSUME NEW n
        PROVE  Post(journal, <<"CustomerAdvanceApplication", p>>, n)[ref]
                 = journal[ref]
    BY <2>1, <2>2 DEF Post
  <2>5. CASE ReversePayment(p)
    <3>1. payment[p].journalId \in {"none", "CustomerPayment", "CustomerAdvance"}
      BY <2>2 DEF PaymentRows
    <3>2. CASE payment[p].journalId = "none"
      <4>1. ref # <<"none", p>>
        BY DEF JournalRefs
      <4> QED BY <2>1, <2>2, <2>5, <3>2, <4>1 DEF ReversePayment, PostReversal
    <3>3. CASE payment[p].journalId # "none"
      <4>1. ref # <<payment[p].journalId, p>>
        BY <2>1, <3>1, <3>3
      <4> QED BY <2>1, <2>2, <2>5, <4>1 DEF ReversePayment, PostReversal
    <3> QED BY <3>2, <3>3
  <2> QED BY <1>1, <2>3, <2>4, <2>5
<1>3. \A q \in Payments : q # p => payment'[q] = payment[q]
  BY DEF PaymentStepOf, CreatePayment, ApprovePayment, CancelPayment,
         PostPayment, AllocateAdvance, ReversePayment, TypeOK
<1>4. \A q \in Payments : q # p => live'[q] = live[q]
  BY DEF PaymentStepOf, CreatePayment, ApprovePayment, CancelPayment,
         PostPayment, AllocateAdvance, ReversePayment, WithAllocations, TypeOK
<1>5. UNCHANGED <<salesReturn, stock>>
  BY DEF PaymentStepOf, CreatePayment, ApprovePayment, CancelPayment,
         PostPayment, AllocateAdvance, ReversePayment
<1> QED BY <1>2, <1>3, <1>4, <1>5

\* A step of a return writes its row, its journals, the stock, and the
\* invoice its memo settles.
LEMMA ReturnStepWrites ==
  ASSUME TypeOK, NEW r \in Returns, ReturnStepOf(r)
  PROVE  /\ UNCHANGED <<payment, live>>
         /\ \A s \in Returns : s # r => salesReturn'[s] = salesReturn[s]
         /\ \A ref \in JournalRefs \ ReturnRefs(r) :
              journal'[ref] = journal[ref]
<1>1. \/ journal' = journal
      \/ \E n : journal' = Post(journal, <<"SalesReturn", r>>, n)
      \/ \E n, m : journal' = Post(Post(journal, <<"SalesReturn", r>>, n),
                                   <<"SalesReturnCOGS", r>>, m)
      \/ journal' = PostReversal(journal, <<"SalesReturn", r>>)
      \/ journal' = PostReversal(PostReversal(journal, <<"SalesReturn", r>>),
                                 <<"SalesReturnCOGS", r>>)
  BY DEF ReturnStepOf, CreateReturn, ApproveReturn, CancelReturn, PostReturn,
         ReverseReturn, ReturnReversalJournals
<1>2. ASSUME NEW ref \in JournalRefs \ ReturnRefs(r)
      PROVE  journal'[ref] = journal[ref]
  <2>1. ref # <<"SalesReturn", r>> /\ ref # <<"SalesReturnCOGS", r>>
    BY DEF ReturnRefs
  <2>2. journal \in [JournalRefs -> JournalRows]
    BY DEF TypeOK
  <2>3. /\ \A n : Post(journal, <<"SalesReturn", r>>, n)[ref] = journal[ref]
        /\ \A n, m : Post(Post(journal, <<"SalesReturn", r>>, n),
                          <<"SalesReturnCOGS", r>>, m)[ref] = journal[ref]
        /\ PostReversal(journal, <<"SalesReturn", r>>)[ref] = journal[ref]
        /\ PostReversal(PostReversal(journal, <<"SalesReturn", r>>),
                        <<"SalesReturnCOGS", r>>)[ref] = journal[ref]
    BY <2>1, <2>2 DEF Post, PostReversal
  <2> QED BY <1>1, <2>3
<1>3. \A s \in Returns : s # r => salesReturn'[s] = salesReturn[s]
  BY DEF ReturnStepOf, CreateReturn, ApproveReturn, CancelReturn, PostReturn,
         ReverseReturn, TypeOK
<1>4. UNCHANGED <<payment, live>>
  BY DEF ReturnStepOf, CreateReturn, ApproveReturn, CancelReturn, PostReturn,
         ReverseReturn
<1> QED BY <1>2, <1>3, <1>4

-----------------------------------------------------------------------------
(* A collection, its allocation rows and its three journals.                *)

\* Before posting there is nothing; a posted collection has its receipt,
\* its advance and the applications of the advance in the ledger, and
\* journal_id names the first of them; of a reversed one the receipt is
\* reversed and the allocations are gone, while applications stay.
CollectionTies(p) ==
  LET row         == payment[p]
      receipt     == journal[<<"CustomerPayment", p>>]
      advance     == journal[<<"CustomerAdvance", p>>]
      application == journal[<<"CustomerAdvanceApplication", p>>]
  IN  /\ application.reversals = 0
      /\ row.status \notin {"posted", "reversed"} =>
           /\ AllocatedOf(live, p) = 0
           /\ receipt.amount = 0 /\ receipt.reversals = 0
           /\ advance.amount = 0 /\ advance.reversals = 0
           /\ application.amount = 0
      /\ row.status = "posted" =>
           /\ receipt.reversals = 0 /\ advance.reversals = 0
           /\ AllocatedOf(live, p) = row.allocated
           /\ row.allocated + row.unapplied = row.amount
           /\ row.unapplied >= -Tol
           /\ receipt.amount + application.amount = row.allocated
           /\ advance.amount - application.amount - row.unapplied \in 0..Tol
           /\ row.journalId = IF receipt.amount > 0 THEN "CustomerPayment"
                              ELSE "CustomerAdvance"
      /\ row.status = "reversed" =>
           /\ AllocatedOf(live, p) = 0
           /\ receipt.amount = 0 \/ receipt.reversals = 1

CollectionsInv == \A p \in Payments : CollectionTies(p)

\* A step that leaves a collection, its allocations and its journals alone
\* leaves them tied.
LEMMA CollectionFrame ==
  ASSUME NEW p \in Payments, CollectionTies(p),
         payment'[p] = payment[p], live'[p] = live[p],
         \A ref \in CollectionRefs(p) : journal'[ref] = journal[ref]
  PROVE  CollectionTies(p)'
<1>1. /\ journal'[<<"CustomerPayment", p>>] = journal[<<"CustomerPayment", p>>]
      /\ journal'[<<"CustomerAdvance", p>>] = journal[<<"CustomerAdvance", p>>]
      /\ journal'[<<"CustomerAdvanceApplication", p>>]
           = journal[<<"CustomerAdvanceApplication", p>>]
  BY DEF CollectionRefs
<1>2. AllocatedOf(live', p) = AllocatedOf(live, p)
  BY DEF AllocatedOf
<1> QED BY <1>1, <1>2 DEF CollectionTies, AllocatedOf

\* Posting a collection writes a receipt for what is allocated and an
\* advance for the rest, which applyAllocations kept within the amount.
LEMMA PostPaymentTies ==
  ASSUME TypeOK, CollectionsInv,
         NEW p \in Payments, NEW a \in AllocationRequests, PostPayment(p, a)
  PROVE  CollectionTies(p)'
<1> DEFINE allocated == SumFunction(a)
           unapplied == payment[p].amount - allocated
           receipt   == <<"CustomerPayment", p>>
           advance   == <<"CustomerAdvance", p>>
           applied   == <<"CustomerAdvanceApplication", p>>
           first     == Post(journal, receipt, allocated)
<1>1. /\ journal \in [JournalRefs -> JournalRows]
      /\ live \in LiveRows /\ payment[p] \in PaymentRows
  BY DEF TypeOK, LiveRows
<1>2. /\ allocated \in Nat /\ payment[p].amount \in Nat
      /\ unapplied \in Int /\ Tol \in {0, 1}
  BY <1>1, RequestType, AmountsAssumption DEF PaymentRows
<1>3. /\ receipt \in JournalRefs /\ advance \in JournalRefs
      /\ applied \in JournalRefs
      /\ receipt # advance /\ receipt # applied /\ advance # applied
  BY RefsApart DEF CollectionRefs
<1>4. /\ AllocatedOf(live, p) = 0
      /\ journal[receipt].amount = 0 /\ journal[receipt].reversals = 0
      /\ journal[advance].amount = 0 /\ journal[advance].reversals = 0
      /\ journal[applied].amount = 0 /\ journal[applied].reversals = 0
  BY DEF PostPayment, CollectionsInv, CollectionTies
<1>5. AllocatedOf(live', p) = allocated
  BY <1>1, <1>2, <1>4, AllocationAdds DEF PostPayment
<1>6. unapplied >= -Tol
  <2>1. allocated <= payment[p].amount + Tol
    BY <1>5 DEF PostPayment, CanAllocate
  <2> HIDE DEF allocated
  <2> QED BY <1>2, <2>1
<1>7. /\ payment'[p].status = "posted"
      /\ payment'[p].amount = payment[p].amount
      /\ payment'[p].allocated = allocated
      /\ payment'[p].unapplied = unapplied
      /\ payment'[p].journalId = IF allocated > 0 THEN "CustomerPayment"
                                 ELSE "CustomerAdvance"
  BY <1>1 DEF PostPayment, TypeOK, PaymentRows
<1>8. journal' = Post(first, advance, AtLeastZero(unapplied))
  BY DEF PostPayment, ReceiptJournals
<1> HIDE DEF allocated, unapplied, receipt, advance, applied
<1>9. AtLeastZero(unapplied) \in Nat /\ first \in [JournalRefs -> JournalRows]
  BY <1>1, <1>2, JournalType DEF AtLeastZero
<1>10. /\ first[receipt].amount = allocated /\ first[receipt].reversals = 0
       /\ first[advance].amount = 0 /\ first[advance].reversals = 0
       /\ first[applied].amount = 0 /\ first[applied].reversals = 0
  BY <1>1, <1>2, <1>3, <1>4, JournalWrites
<1> HIDE DEF first
<1>11. /\ journal'[receipt].amount = allocated
       /\ journal'[receipt].reversals = 0
       /\ journal'[advance].amount = AtLeastZero(unapplied)
       /\ journal'[advance].reversals = 0
       /\ journal'[applied].amount = 0 /\ journal'[applied].reversals = 0
  BY <1>3, <1>8, <1>9, <1>10, JournalWrites
<1>12. /\ allocated + unapplied = payment[p].amount
       /\ AtLeastZero(unapplied) - 0 - unapplied \in 0..Tol
       /\ allocated + 0 = allocated
  BY <1>2, <1>6 DEF AtLeastZero, unapplied
<1> QED BY <1>5, <1>6, <1>7, <1>11, <1>12
        DEF CollectionTies, AllocatedOf, receipt, advance, applied

\* Applying an advance moves the same amount in the rows and in the ledger.
LEMMA AllocateAdvanceTies ==
  ASSUME TypeOK, CollectionsInv,
         NEW p \in Payments, NEW a \in AllocationRequests, AllocateAdvance(p, a)
  PROVE  CollectionTies(p)'
<1> DEFINE want    == SumFunction(a)
           row     == payment[p]
           receipt == <<"CustomerPayment", p>>
           advance == <<"CustomerAdvance", p>>
           applied == <<"CustomerAdvanceApplication", p>>
<1>1. /\ journal \in [JournalRefs -> JournalRows]
      /\ live \in LiveRows /\ row \in PaymentRows
  BY DEF TypeOK, LiveRows
<1>2. /\ want \in Nat /\ row.allocated \in Nat /\ row.unapplied \in Int
      /\ row.amount \in Nat /\ Tol \in {0, 1}
  BY <1>1, RequestType, AmountsAssumption DEF PaymentRows
<1>3. /\ receipt \in JournalRefs /\ advance \in JournalRefs
      /\ applied \in JournalRefs
      /\ receipt # advance /\ receipt # applied /\ advance # applied
  BY RefsApart DEF CollectionRefs
<1>4. /\ row.status = "posted"
      /\ journal[receipt].reversals = 0 /\ journal[advance].reversals = 0
      /\ journal[applied].reversals = 0
      /\ AllocatedOf(live, p) = row.allocated
      /\ row.allocated + row.unapplied = row.amount
      /\ journal[receipt].amount + journal[applied].amount = row.allocated
      /\ journal[advance].amount - journal[applied].amount - row.unapplied \in 0..Tol
      /\ row.journalId = IF journal[receipt].amount > 0 THEN "CustomerPayment"
                         ELSE "CustomerAdvance"
  BY DEF AllocateAdvance, CollectionsInv, CollectionTies
<1>5. AllocatedOf(live', p) = row.allocated + want
  BY <1>1, <1>4, AllocationAdds DEF AllocateAdvance
<1>6. want <= row.unapplied + Tol
  BY DEF AllocateAdvance
<1>7. /\ payment'[p] = Applied(row, want)
      /\ journal' = Post(journal, applied, want)
  BY DEF AllocateAdvance, TypeOK
<1> HIDE DEF want, row, receipt, advance, applied
<1>8. /\ payment'[p].status = "posted" /\ payment'[p].amount = row.amount
      /\ payment'[p].allocated = row.allocated + want
      /\ payment'[p].unapplied = row.unapplied - want
      /\ payment'[p].journalId = row.journalId
  <2>1. Applied(row, want).journalId = row.journalId
    BY <1>1 DEF Applied, PaymentRows
  <2>2. /\ Applied(row, want).status = row.status
        /\ Applied(row, want).amount = row.amount
        /\ Applied(row, want).allocated = row.allocated + want
        /\ Applied(row, want).unapplied = row.unapplied - want
    BY <1>1, <1>2, WrittenRows
  <2> QED BY <1>4, <1>7, <2>1, <2>2
<1>9. /\ journal'[receipt] = journal[receipt]
      /\ journal'[advance] = journal[advance]
      /\ journal'[applied].amount = journal[applied].amount + want
      /\ journal'[applied].reversals = journal[applied].reversals
  BY <1>1, <1>2, <1>3, <1>7, JournalWrites
<1>10. /\ journal[receipt].amount \in Nat /\ journal[advance].amount \in Nat
       /\ journal[applied].amount \in Nat
  BY <1>1, <1>3 DEF JournalRows
<1>11. /\ (row.allocated + want) + (row.unapplied - want) = row.amount
       /\ row.unapplied - want >= -Tol
       /\ journal[receipt].amount + (journal[applied].amount + want)
            = row.allocated + want
       /\ journal[advance].amount - (journal[applied].amount + want)
            - (row.unapplied - want) \in 0..Tol
  BY <1>2, <1>4, <1>6, <1>10
<1>12. /\ payment'[p].allocated + payment'[p].unapplied = payment'[p].amount
       /\ payment'[p].unapplied >= -Tol
       /\ journal'[receipt].amount + journal'[applied].amount = payment'[p].allocated
       /\ journal'[advance].amount - journal'[applied].amount
            - payment'[p].unapplied \in 0..Tol
  BY <1>8, <1>9, <1>11, Zenon
<1> QED BY <1>4, <1>5, <1>8, <1>9, <1>12
        DEF CollectionTies, AllocatedOf, row, receipt, advance, applied

\* Reversing a collection takes back its receipt, if it had one, and every
\* allocation.
LEMMA ReversePaymentTies ==
  ASSUME TypeOK, CollectionsInv, NEW p \in Payments, ReversePayment(p)
  PROVE  CollectionTies(p)'
<1> DEFINE receipt  == <<"CustomerPayment", p>>
           advance  == <<"CustomerAdvance", p>>
           applied  == <<"CustomerAdvanceApplication", p>>
           reversed == PostReversal(journal, <<payment[p].journalId, p>>)
<1>1. journal \in [JournalRefs -> JournalRows] /\ payment[p] \in PaymentRows
  BY DEF TypeOK
<1>2. /\ receipt \in JournalRefs /\ advance \in JournalRefs
      /\ applied \in JournalRefs
      /\ receipt # advance /\ receipt # applied /\ advance # applied
  BY RefsApart DEF CollectionRefs
<1>3. /\ journal[receipt].reversals = 0 /\ journal[applied].reversals = 0
      /\ payment[p].journalId = IF journal[receipt].amount > 0
                                THEN "CustomerPayment" ELSE "CustomerAdvance"
      /\ journal[receipt].amount \in Nat
  BY <1>1, <1>2
  DEF ReversePayment, CollectionsInv, CollectionTies, JournalRows
<1>4. AllocatedOf(live', p) = 0
  <2>1. live'[p] \in [Invoices -> Int] /\ \A i \in Invoices : live'[p][i] = 0
    BY DEF ReversePayment, TypeOK
  <2> QED BY <2>1, SumZero, DocumentsAssumption DEF AllocatedOf
<1>5. payment'[p].status = "reversed"
  BY <1>1 DEF ReversePayment, TypeOK, PaymentRows
<1>6. journal' = reversed \/ journal' = PostReversal(reversed, advance)
  BY DEF ReversePayment
<1>7. CASE journal[receipt].amount > 0
  <2>1. reversed = PostReversal(journal, receipt)
    BY <1>3, <1>7
  <2> HIDE DEF receipt, advance, applied, reversed
  <2>2. reversed \in [JournalRefs -> JournalRows]
    BY <1>1, <2>1, JournalType
  <2>3. /\ reversed[receipt].reversals = 1
        /\ reversed[applied].reversals = 0
    BY <1>1, <1>2, <1>3, <2>1, JournalWrites
  <2>4. /\ journal'[receipt].reversals = 1
        /\ journal'[applied].reversals = 0
    BY <1>2, <1>6, <2>2, <2>3, JournalWrites
  <2> QED BY <1>4, <1>5, <2>4 DEF CollectionTies, AllocatedOf, receipt, applied
<1>8. CASE ~ (journal[receipt].amount > 0)
  <2>1. reversed = PostReversal(journal, advance) /\ journal[receipt].amount = 0
    BY <1>3, <1>8
  <2> HIDE DEF receipt, advance, applied, reversed
  <2>2. reversed \in [JournalRefs -> JournalRows]
    BY <1>1, <2>1, JournalType
  <2>3. /\ reversed[receipt].amount = 0
        /\ reversed[applied].reversals = 0
    BY <1>1, <1>2, <1>3, <2>1, JournalWrites
  <2>4. /\ journal'[receipt].amount = 0
        /\ journal'[applied].reversals = 0
    BY <1>2, <1>6, <2>2, <2>3, JournalWrites
  <2> QED BY <1>4, <1>5, <2>4 DEF CollectionTies, AllocatedOf, receipt, applied
<1> QED BY <1>7, <1>8

\* The invariant behind the theorems on collections.
LEMMA CollectionsInvariant == Spec => []CollectionsInv
<1>1. Init => CollectionsInv
  <2> SUFFICES ASSUME Init, NEW p \in Payments PROVE CollectionTies(p)
    BY DEF CollectionsInv
  <2>1. AllocatedOf(live, p) = 0
    <3>1. live[p] \in [Invoices -> Int] /\ \A i \in Invoices : live[p][i] = 0
      BY DEF Init
    <3> QED BY <3>1, SumZero, DocumentsAssumption DEF AllocatedOf
  <2>2. \A ref \in CollectionRefs(p) : journal[ref] = NewJournal
    BY RefsApart DEF Init
  <2> QED BY <2>1, <2>2 DEF Init, CollectionTies, CollectionRefs, NewJournal
<1>2. ASSUME TypeOK, CollectionsInv, [Next]_vars PROVE CollectionsInv'
  <2> SUFFICES ASSUME NEW p \in Payments PROVE CollectionTies(p)'
    BY DEF CollectionsInv
  <2>1. CollectionTies(p)
    BY <1>2 DEF CollectionsInv
  <2>2. CASE InvoiceStep
    <3>1. PICK i \in Invoices : InvoiceStepOf(i)
      BY <2>2, StepsOfDocuments
    <3>2. payment' = payment /\ live' = live
      BY <1>2, <3>1, InvoiceStepWrites
    <3>3. \A ref \in CollectionRefs(p) : journal'[ref] = journal[ref]
      BY <1>2, <3>1, InvoiceStepWrites, RefsApart
    <3> QED BY <2>1, <3>2, <3>3, CollectionFrame
  <2>3. CASE ReturnStep
    <3>1. PICK r \in Returns : ReturnStepOf(r)
      BY <2>3, StepsOfDocuments
    <3>2. payment' = payment /\ live' = live
      BY <1>2, <3>1, ReturnStepWrites
    <3>3. \A ref \in CollectionRefs(p) : journal'[ref] = journal[ref]
      BY <1>2, <3>1, ReturnStepWrites, RefsApart
    <3> QED BY <2>1, <3>2, <3>3, CollectionFrame
  <2>4. CASE PaymentStep
    <3>1. PICK q \in Payments : PaymentStepOf(q)
      BY <2>4, StepsOfDocuments
    <3>2. CASE q # p
      <4>1. payment'[p] = payment[p] /\ live'[p] = live[p]
        BY <1>2, <3>1, <3>2, PaymentStepWrites
      <4>2. \A ref \in CollectionRefs(p) : journal'[ref] = journal[ref]
        BY <1>2, <3>1, <3>2, PaymentStepWrites, RefsApart
      <4> QED BY <2>1, <4>1, <4>2, CollectionFrame
    <3>3. CASE q = p
      <4>1. ASSUME NEW c \in Customers, NEW n \in Amounts, CreatePayment(p, c, n)
            PROVE  CollectionTies(p)'
        <5>1. payment'[p].status = "draft" /\ payment[p].status = "none"
          BY <1>2, <4>1 DEF CreatePayment, TypeOK
        <5> QED BY <2>1, <4>1, <5>1 DEF CreatePayment, CollectionTies, AllocatedOf
      <4>2. CASE ApprovePayment(p) \/ CancelPayment(p)
        <5>1. /\ payment'[p].status \in {"approved", "cancelled"}
              /\ payment[p].status \in {"draft", "approved"}
          BY <1>2, <4>2 DEF ApprovePayment, CancelPayment, TypeOK, PaymentRows
        <5>2. live' = live /\ journal' = journal
          BY <4>2 DEF ApprovePayment, CancelPayment
        <5> QED BY <2>1, <5>1, <5>2 DEF CollectionTies, AllocatedOf
      <4>3. ASSUME NEW a \in AllocationRequests, PostPayment(p, a)
            PROVE  CollectionTies(p)'
        BY <1>2, <4>3, PostPaymentTies
      <4>4. ASSUME NEW a \in AllocationRequests, AllocateAdvance(p, a)
            PROVE  CollectionTies(p)'
        BY <1>2, <4>4, AllocateAdvanceTies
      <4>5. CASE ReversePayment(p)
        BY <1>2, <4>5, ReversePaymentTies
      <4> QED BY <3>1, <3>3, <4>1, <4>2, <4>3, <4>4, <4>5 DEF PaymentStepOf
    <3> QED BY <3>2, <3>3
  <2>5. CASE UNCHANGED vars
    BY <2>1, <2>5, CollectionFrame DEF vars
  <2> QED BY <1>2, <2>2, <2>3, <2>4, <2>5 DEF Next
<1> QED BY <1>1, <1>2, TypeCorrect, PTL DEF Spec

\* The allocation rows, the amount columns and the amount received of a
\* collection agree; nothing is allocated before posting or after reversal.
THEOREM PaymentsWithinAmount == Spec => []PaymentWithinAmount
<1>1. CollectionsInv => PaymentWithinAmount
  BY DEF CollectionsInv, CollectionTies, PaymentWithinAmount
<1> QED BY <1>1, CollectionsInvariant, PTL

\* What the ledger holds of a posted collection is what its row says.
THEOREM LedgerTiesToPayments == Spec => []LedgerTiesToPayment
<1>1. TypeOK /\ CollectionsInv => LedgerTiesToPayment
  <2> SUFFICES ASSUME TypeOK, CollectionsInv, NEW p \in Payments,
                      payment[p].status = "posted"
               PROVE  LET application == journal[<<"CustomerAdvanceApplication", p>>].amount
                      IN  /\ Net(journal, <<"CustomerPayment", p>>) + application
                               = payment[p].allocated
                          /\ Net(journal, <<"CustomerAdvance", p>>) - application
                               - payment[p].unapplied \in 0..Tol
    BY DEF LedgerTiesToPayment
  <2>1. \A ref \in CollectionRefs(p) : journal[ref] \in JournalRows
    BY RefsApart DEF TypeOK
  <2>2. \A n \in Nat : n * (1 - 0) = n
    OBVIOUS
  <2>3. /\ Net(journal, <<"CustomerPayment", p>>)
             = journal[<<"CustomerPayment", p>>].amount
        /\ Net(journal, <<"CustomerAdvance", p>>)
             = journal[<<"CustomerAdvance", p>>].amount
    BY <2>1, <2>2 DEF Net, CollectionsInv, CollectionTies, CollectionRefs, JournalRows
  <2> QED BY <2>3 DEF CollectionsInv, CollectionTies
<1> QED BY <1>1, CollectionsInvariant, TypeCorrect, PTL

-----------------------------------------------------------------------------
(* A return and its two journals.                                           *)

\* The value a journal leaves in the ledger is an integer; reversed once it
\* is nothing.
LEMMA NetType ==
  ASSUME NEW j \in [JournalRefs -> JournalRows], NEW ref \in JournalRefs
  PROVE  /\ Net(j, ref) \in Int
         /\ j[ref].reversals = 0 => Net(j, ref) = j[ref].amount
         /\ j[ref].amount = 0 \/ j[ref].reversals = 1 => Net(j, ref) = 0
<1>1. j[ref].amount \in Nat /\ j[ref].reversals \in Nat
  BY DEF JournalRows
<1>2. ASSUME NEW n \in Nat, NEW m \in Nat
      PROVE  /\ n * (1 - m) \in Int
             /\ m = 0 => n * (1 - m) = n
             /\ n = 0 \/ m = 1 => n * (1 - m) = 0
  OBVIOUS
<1> QED BY <1>1, <1>2 DEF Net

\* Before posting a return has no journal; a posted one has its sales
\* journal, and its COGS journal when it restocks; of a reversed one the
\* COGS journal is reversed exactly once.
ReturnTies(r) ==
  LET row   == salesReturn[r]
      sales == journal[<<"SalesReturn", r>>]
      cogs  == journal[<<"SalesReturnCOGS", r>>]
  IN  /\ row.status # "none" => row.total > 0
      /\ row.status \notin {"posted", "reversed"} =>
           /\ sales.amount = 0 /\ sales.reversals = 0
           /\ cogs.amount = 0 /\ cogs.reversals = 0
      /\ row.status = "posted" =>
           /\ sales.amount = row.total /\ sales.reversals = 0
           /\ cogs.amount = IF row.restock THEN row.total ELSE 0
           /\ cogs.reversals = 0
      /\ row.status = "reversed" => cogs.amount = 0 \/ cogs.reversals = 1

ReturnsInv == \A r \in Returns : ReturnTies(r)

LEMMA ReturnFrame ==
  ASSUME NEW r \in Returns, ReturnTies(r),
         salesReturn'[r] = salesReturn[r],
         \A ref \in ReturnRefs(r) : journal'[ref] = journal[ref]
  PROVE  ReturnTies(r)'
<1>1. /\ journal'[<<"SalesReturn", r>>] = journal[<<"SalesReturn", r>>]
      /\ journal'[<<"SalesReturnCOGS", r>>] = journal[<<"SalesReturnCOGS", r>>]
  BY DEF ReturnRefs
<1> QED BY <1>1 DEF ReturnTies

\* The row a change of status leaves behind.
LEMMA ReturnStatusRow ==
  ASSUME TypeOK, NEW r \in Returns, NEW s,
         salesReturn' = [salesReturn EXCEPT ![r].status = s]
  PROVE  /\ salesReturn'[r].status = s
         /\ salesReturn'[r].original = salesReturn[r].original
         /\ salesReturn'[r].total = salesReturn[r].total
         /\ salesReturn'[r].method = salesReturn[r].method
         /\ salesReturn'[r].restock = salesReturn[r].restock
<1>1. salesReturn[r] \in ReturnRows
  BY DEF TypeOK
<1>2. salesReturn'[r] = [salesReturn[r] EXCEPT !.status = s]
  BY DEF TypeOK
<1> QED BY <1>1, <1>2 DEF ReturnRows

\* The journals a post of a return writes.
LEMMA PostReturnWrites ==
  ASSUME TypeOK, ReturnsInv, NEW r \in Returns, PostReturn(r)
  PROVE  LET total == salesReturn[r].total
             sales == <<"SalesReturn", r>>
             cogs  == <<"SalesReturnCOGS", r>>
         IN  /\ total \in Nat
             /\ journal'[sales].amount = total /\ journal'[sales].reversals = 0
             /\ journal'[cogs].amount = IF salesReturn[r].restock THEN total ELSE 0
             /\ journal'[cogs].reversals = 0
             /\ stock' = stock + journal'[cogs].amount
<1> DEFINE total == salesReturn[r].total
           restock == salesReturn[r].restock
           sales == <<"SalesReturn", r>>
           cogs  == <<"SalesReturnCOGS", r>>
           first == Post(journal, sales, total)
<1>1. /\ journal \in [JournalRefs -> JournalRows]
      /\ total \in Nat /\ restock \in BOOLEAN /\ stock \in Int
  BY DEF TypeOK, ReturnRows
<1>2. sales \in JournalRefs /\ cogs \in JournalRefs /\ sales # cogs
  BY RefsApart DEF ReturnRefs
<1>3. /\ journal[sales].amount = 0 /\ journal[sales].reversals = 0
      /\ journal[cogs].amount = 0 /\ journal[cogs].reversals = 0
  BY DEF PostReturn, ReturnsInv, ReturnTies
<1>4. IF restock THEN /\ journal' = Post(first, cogs, total)
                      /\ stock' = stock + total
                 ELSE journal' = first /\ stock' = stock
  BY DEF PostReturn
<1> HIDE DEF total, restock, sales, cogs, first
<1>5. /\ first \in [JournalRefs -> JournalRows]
      /\ first[sales].amount = total /\ first[sales].reversals = 0
      /\ first[cogs].amount = 0 /\ first[cogs].reversals = 0
  BY <1>1, <1>2, <1>3, JournalType, JournalWrites DEF first
<1>6. CASE restock
  <2>1. journal' = Post(first, cogs, total) /\ stock' = stock + total
    BY <1>4, <1>6
  <2>2. /\ journal'[sales] = first[sales]
        /\ journal'[cogs].amount = 0 + total /\ journal'[cogs].reversals = 0
    BY <1>1, <1>2, <1>5, <2>1, JournalWrites
  <2>3. 0 + total = total
    BY <1>1
  <2> QED BY <1>1, <1>5, <1>6, <2>1, <2>2, <2>3 DEF total, restock, sales, cogs
<1>7. CASE ~restock
  <2>1. journal' = first /\ stock' = stock /\ stock + 0 = stock
    BY <1>1, <1>4, <1>7
  <2> QED BY <1>1, <1>5, <1>7, <2>1 DEF total, restock, sales, cogs
<1> QED BY <1>6, <1>7

\* The COGS journal after the reversal of a return, and the stock.
LEMMA ReverseReturnWrites ==
  ASSUME TypeOK, ReturnsInv, NEW r \in Returns, ReverseReturn(r)
  PROVE  LET cogs == <<"SalesReturnCOGS", r>>
         IN  /\ journal'[cogs].amount = 0 \/ journal'[cogs].reversals = 1
             /\ stock' = stock - journal[cogs].amount
             /\ journal[cogs].reversals = 0
<1> DEFINE total == salesReturn[r].total
           restock == salesReturn[r].restock
           sales == <<"SalesReturn", r>>
           cogs  == <<"SalesReturnCOGS", r>>
           first == PostReversal(journal, sales)
<1>1. /\ journal \in [JournalRefs -> JournalRows]
      /\ total \in Nat /\ restock \in BOOLEAN /\ stock \in Int
  BY DEF TypeOK, ReturnRows
<1>2. sales \in JournalRefs /\ cogs \in JournalRefs /\ sales # cogs
  BY RefsApart DEF ReturnRefs
<1>3. /\ journal[cogs].amount = IF restock THEN total ELSE 0
      /\ journal[cogs].reversals = 0 /\ total > 0
  BY DEF ReverseReturn, ReturnsInv, ReturnTies
<1>4. /\ journal' = IF journal[cogs].amount > 0 /\ journal[cogs].reversals = 0
                    THEN PostReversal(first, cogs) ELSE first
      /\ stock' = IF restock THEN stock - total ELSE stock
  BY DEF ReverseReturn, ReturnReversalJournals, Posted
<1> HIDE DEF total, restock, sales, cogs, first
<1>5. /\ first \in [JournalRefs -> JournalRows]
      /\ first[cogs] = journal[cogs]
  BY <1>1, <1>2, JournalType, JournalWrites DEF first
<1>6. CASE restock
  <2>1. journal[cogs].amount = total
    BY <1>3, <1>6
  <2>2. journal' = PostReversal(first, cogs) /\ stock' = stock - total
    BY <1>3, <1>4, <1>6, <2>1
  <2>3. journal'[cogs].reversals = 0 + 1
    BY <1>2, <1>3, <1>5, <2>2, JournalWrites
  <2> QED BY <1>3, <2>1, <2>2, <2>3 DEF cogs
<1>7. CASE ~restock
  <2>1. journal[cogs].amount = 0
    BY <1>3, <1>7
  <2>2. journal' = first /\ stock' = stock
    BY <1>4, <1>7, <2>1
  <2>3. stock - 0 = stock
    BY <1>1
  <2> QED BY <1>3, <1>5, <2>1, <2>2, <2>3 DEF cogs
<1> QED BY <1>6, <1>7

\* The invariant behind the theorem on restocking.
LEMMA ReturnsInvariant == Spec => []ReturnsInv
<1>1. Init => ReturnsInv
  <2> SUFFICES ASSUME Init, NEW r \in Returns PROVE ReturnTies(r)
    BY DEF ReturnsInv
  <2>1. \A ref \in ReturnRefs(r) : journal[ref] = NewJournal
    BY RefsApart DEF Init
  <2> QED BY <2>1 DEF Init, ReturnTies, ReturnRefs, NewJournal
<1>2. ASSUME TypeOK, ReturnsInv, [Next]_vars PROVE ReturnsInv'
  <2> SUFFICES ASSUME NEW r \in Returns PROVE ReturnTies(r)'
    BY DEF ReturnsInv
  <2>1. ReturnTies(r)
    BY <1>2 DEF ReturnsInv
  <2>2. CASE InvoiceStep
    <3>1. PICK i \in Invoices : InvoiceStepOf(i)
      BY <2>2, StepsOfDocuments
    <3>2. salesReturn' = salesReturn
      BY <1>2, <3>1, InvoiceStepWrites
    <3>3. \A ref \in ReturnRefs(r) : journal'[ref] = journal[ref]
      BY <1>2, <3>1, InvoiceStepWrites, RefsApart
    <3> QED BY <2>1, <3>2, <3>3, ReturnFrame
  <2>3. CASE PaymentStep
    <3>1. PICK p \in Payments : PaymentStepOf(p)
      BY <2>3, StepsOfDocuments
    <3>2. salesReturn' = salesReturn
      BY <1>2, <3>1, PaymentStepWrites
    <3>3. \A ref \in ReturnRefs(r) : journal'[ref] = journal[ref]
      BY <1>2, <3>1, PaymentStepWrites, RefsApart
    <3> QED BY <2>1, <3>2, <3>3, ReturnFrame
  <2>4. CASE ReturnStep
    <3>1. PICK s \in Returns : ReturnStepOf(s)
      BY <2>4, StepsOfDocuments
    <3>2. CASE s # r
      <4>1. salesReturn'[r] = salesReturn[r]
        BY <1>2, <3>1, <3>2, ReturnStepWrites
      <4>2. \A ref \in ReturnRefs(r) : journal'[ref] = journal[ref]
        BY <1>2, <3>1, <3>2, ReturnStepWrites, RefsApart
      <4> QED BY <2>1, <4>1, <4>2, ReturnFrame
    <3>3. CASE s = r
      <4>1. ASSUME NEW i \in Invoices, NEW q \in Amounts, NEW m \in RefundMethods,
                   NEW b \in BOOLEAN, CreateReturn(r, i, q, m, b)
            PROVE  ReturnTies(r)'
        <5>1. q > 0
          BY AmountsAssumption
        <5>2. /\ salesReturn'[r].status = "draft" /\ salesReturn'[r].total = q
              /\ salesReturn[r].status = "none" /\ journal' = journal
          BY <1>2, <4>1 DEF CreateReturn, TypeOK
        <5> QED BY <2>1, <5>1, <5>2 DEF ReturnTies
      <4>2. CASE ApproveReturn(r) \/ CancelReturn(r)
        <5>1. PICK new \in {"approved", "cancelled"} :
                salesReturn' = [salesReturn EXCEPT ![r].status = new]
          BY <4>2 DEF ApproveReturn, CancelReturn
        <5>2. /\ salesReturn'[r].status = new
              /\ salesReturn'[r].total = salesReturn[r].total
          BY <1>2, <5>1, ReturnStatusRow
        <5>3. /\ salesReturn[r].status \in {"draft", "approved"}
              /\ journal' = journal
          BY <4>2 DEF ApproveReturn, CancelReturn
        <5> QED BY <2>1, <5>1, <5>2, <5>3 DEF ReturnTies
      <4>3. CASE PostReturn(r)
        <5>1. /\ salesReturn[r].status = "approved"
              /\ salesReturn' = [salesReturn EXCEPT ![r].status = "posted"]
          BY <4>3 DEF PostReturn
        <5>2. /\ salesReturn'[r].status = "posted"
              /\ salesReturn'[r].total = salesReturn[r].total
              /\ salesReturn'[r].restock = salesReturn[r].restock
          BY <1>2, <5>1, ReturnStatusRow
        <5>3. /\ journal'[<<"SalesReturn", r>>].amount = salesReturn[r].total
              /\ journal'[<<"SalesReturn", r>>].reversals = 0
              /\ journal'[<<"SalesReturnCOGS", r>>].amount
                   = IF salesReturn[r].restock THEN salesReturn[r].total ELSE 0
              /\ journal'[<<"SalesReturnCOGS", r>>].reversals = 0
          BY <1>2, <4>3, PostReturnWrites
        <5> QED BY <2>1, <5>1, <5>2, <5>3 DEF ReturnTies
      <4>4. CASE ReverseReturn(r)
        <5>1. /\ salesReturn[r].status = "posted"
              /\ salesReturn' = [salesReturn EXCEPT ![r].status = "reversed"]
          BY <4>4 DEF ReverseReturn
        <5>2. /\ salesReturn'[r].status = "reversed"
              /\ salesReturn'[r].total = salesReturn[r].total
          BY <1>2, <5>1, ReturnStatusRow
        <5>3. \/ journal'[<<"SalesReturnCOGS", r>>].amount = 0
              \/ journal'[<<"SalesReturnCOGS", r>>].reversals = 1
          BY <1>2, <4>4, ReverseReturnWrites
        <5> QED BY <2>1, <5>1, <5>2, <5>3 DEF ReturnTies
      <4> QED BY <3>1, <3>3, <4>1, <4>2, <4>3, <4>4 DEF ReturnStepOf
    <3> QED BY <3>2, <3>3
  <2>5. CASE UNCHANGED vars
    BY <2>1, <2>5, ReturnFrame DEF vars
  <2> QED BY <1>2, <2>2, <2>3, <2>4, <2>5 DEF Next
<1> QED BY <1>1, <1>2, TypeCorrect, PTL DEF Spec

\* What the COGS journals put back.
RestockedValue ==
  [r \in Returns |-> Net(journal, <<"SalesReturnCOGS", r>>)]

LEMMA RestockedType ==
  TypeOK => /\ RestockedValue \in [Returns -> Int]
            /\ journal \in [JournalRefs -> JournalRows]
<1> SUFFICES ASSUME TypeOK PROVE RestockedValue \in [Returns -> Int]
  BY DEF TypeOK
<1>1. ASSUME NEW r \in Returns
      PROVE  Net(journal, <<"SalesReturnCOGS", r>>) \in Int
  <2>1. <<"SalesReturnCOGS", r>> \in JournalRefs
    BY RefsApart DEF ReturnRefs
  <2> QED BY <2>1, NetType DEF TypeOK
<1> QED BY <1>1 DEF RestockedValue

\* The stock that returns put back is the value of their COGS journals,
\* through posts and reversals.
THEOREM RestockTies == Spec => []RestockTiesToLedger
<1>0. RestockTiesToLedger <=> stock = SumFunction(RestockedValue)
  BY DEF RestockTiesToLedger, RestockedValue
<1>1. Init => RestockTiesToLedger
  <2> SUFFICES ASSUME Init PROVE RestockTiesToLedger
    OBVIOUS
  <2>1. ASSUME NEW r \in Returns
        PROVE  Net(journal, <<"SalesReturnCOGS", r>>) = 0
    <3>1. /\ journal \in [JournalRefs -> JournalRows]
          /\ <<"SalesReturnCOGS", r>> \in JournalRefs
          /\ journal[<<"SalesReturnCOGS", r>>].amount = 0
      BY RefsApart DEF Init, NewJournal, JournalRows, ReturnRefs
    <3> QED BY <3>1, NetType
  <2>2. /\ RestockedValue \in [Returns -> Int]
        /\ \A r \in Returns : RestockedValue[r] = 0
    BY <2>1 DEF RestockedValue
  <2>3. SumFunction(RestockedValue) = 0
    BY <2>2, SumZero, DocumentsAssumption
  <2> QED BY <1>0, <2>3 DEF Init
<1>2. ASSUME TypeOK, TypeOK', ReturnsInv, RestockTiesToLedger, [Next]_vars
      PROVE  RestockTiesToLedger'
  <2>1. /\ RestockedValue \in [Returns -> Int]
        /\ journal \in [JournalRefs -> JournalRows] /\ stock \in Int
    BY <1>2, RestockedType DEF TypeOK
  <2>2. /\ RestockedValue' \in [Returns -> Int]
        /\ journal' \in [JournalRefs -> JournalRows]
    <3>1. TypeOK' => (/\ RestockedValue \in [Returns -> Int]
                      /\ journal \in [JournalRefs -> JournalRows])'
      BY RestockedType, PTL
    <3> QED BY <1>2, <3>1
  <2>3. /\ stock = SumFunction(RestockedValue)
        /\ RestockTiesToLedger' <=> stock' = SumFunction(RestockedValue')
    BY <1>2 DEF RestockTiesToLedger, RestockedValue
  <2>4. ASSUME stock' = stock,
               \A r \in Returns : journal'[<<"SalesReturnCOGS", r>>]
                                   = journal[<<"SalesReturnCOGS", r>>]
        PROVE  RestockTiesToLedger'
    <3>1. RestockedValue' = RestockedValue
      BY <2>4 DEF RestockedValue, Net
    <3> QED BY <2>3, <2>4, <3>1
  <2>5. CASE InvoiceStep
    <3>1. PICK i \in Invoices : InvoiceStepOf(i)
      BY <2>5, StepsOfDocuments
    <3> QED BY <1>2, <2>4, <3>1, InvoiceStepWrites, RefsApart DEF ReturnRefs
  <2>6. CASE PaymentStep
    <3>1. PICK p \in Payments : PaymentStepOf(p)
      BY <2>6, StepsOfDocuments
    <3> QED BY <1>2, <2>4, <3>1, PaymentStepWrites, RefsApart DEF ReturnRefs
  <2>7. CASE ReturnStep
    <3>1. PICK r \in Returns : ReturnStepOf(r)
      BY <2>7, StepsOfDocuments
    <3> DEFINE cogs == <<"SalesReturnCOGS", r>>
    <3>2. cogs \in JournalRefs
      BY RefsApart DEF ReturnRefs
    <3>3. ASSUME NEW s \in Returns, s # r
          PROVE  RestockedValue'[s] = RestockedValue[s]
      <4>1. journal'[<<"SalesReturnCOGS", s>>] = journal[<<"SalesReturnCOGS", s>>]
        BY <1>2, <3>1, <3>3, ReturnStepWrites, RefsApart DEF ReturnRefs
      <4> QED BY <4>1 DEF RestockedValue, Net
    <3>4. /\ RestockedValue[r] = Net(journal, cogs)
          /\ RestockedValue'[r] = Net(journal', cogs)
      BY DEF RestockedValue, Net
    <3>5. /\ SumFunction(RestockedValue) \in Int
          /\ SumFunction(RestockedValue') = SumFunction(RestockedValue)
                + RestockedValue'[r] - RestockedValue[r]
      BY <2>1, <2>2, <3>3, SumInt, SumUpdate, DocumentsAssumption
    <3>6. stock' = stock + Net(journal', cogs) - Net(journal, cogs)
      <4>1. /\ Net(journal, cogs) \in Int /\ Net(journal', cogs) \in Int
            /\ journal[cogs].amount \in Nat /\ journal'[cogs].amount \in Nat
        BY <2>1, <2>2, <3>2, NetType DEF JournalRows
      <4>2. CASE PostReturn(r)
        <5>1. /\ journal'[cogs].reversals = 0
              /\ stock' = stock + journal'[cogs].amount
          BY <1>2, <4>2, PostReturnWrites
        <5>2. journal[cogs].amount = 0
          BY <1>2, <4>2 DEF PostReturn, ReturnsInv, ReturnTies
        <5>3. Net(journal', cogs) = journal'[cogs].amount /\ Net(journal, cogs) = 0
          BY <2>1, <2>2, <3>2, <5>1, <5>2, NetType
        <5> QED BY <2>1, <4>1, <5>1, <5>3
      <4>3. CASE ReverseReturn(r)
        <5>1. /\ journal'[cogs].amount = 0 \/ journal'[cogs].reversals = 1
              /\ journal[cogs].reversals = 0
              /\ stock' = stock - journal[cogs].amount
          BY <1>2, <4>3, ReverseReturnWrites
        <5>2. Net(journal', cogs) = 0 /\ Net(journal, cogs) = journal[cogs].amount
          BY <2>1, <2>2, <3>2, <5>1, NetType
        <5> QED BY <2>1, <4>1, <5>1, <5>2
      <4>4. CASE ~PostReturn(r) /\ ~ReverseReturn(r)
        <5>1. journal' = journal /\ stock' = stock
          BY <3>1, <4>4 DEF ReturnStepOf, CreateReturn, ApproveReturn, CancelReturn
        <5> QED BY <2>1, <4>1, <5>1
      <4> QED BY <4>2, <4>3, <4>4
    <3>7. stock' = SumFunction(RestockedValue')
      <4> HIDE DEF cogs
      <4>1. RestockedValue[r] \in Int /\ RestockedValue'[r] \in Int
        BY <2>1, <2>2
      <4> QED BY <2>1, <2>3, <3>4, <3>5, <3>6, <4>1
    <3> QED BY <2>3, <3>7
  <2>8. CASE UNCHANGED vars
    BY <2>4, <2>8 DEF vars
  <2> QED BY <1>2, <2>5, <2>6, <2>7, <2>8 DEF Next
<1> QED BY <1>1, <1>2, TypeCorrect, ReturnsInvariant, PTL DEF Spec

-----------------------------------------------------------------------------
(* Quantities returned and quantities sold.                                 *)

\* The total of an invoice is fixed when its draft is made: a return never
\* moves it, another step only when it makes the draft.
LEMMA TotalsStay ==
  ASSUME TypeOK, [Next]_vars, NEW i \in Invoices,
         invoice[i].status # "none" \/ ReturnStep
  PROVE  invoice'[i].total = invoice[i].total
<1>1. invoice[i] \in InvoiceRows /\ live \in LiveRows
  BY DEF TypeOK, LiveRows
<1>2. ASSUME NEW l \in LiveRows, NEW touched,
             invoice' = RecomputedInvoices(l, touched)
      PROVE  invoice'[i].total = invoice[i].total
  <2>1. AllocatedOn(l, i) \in Int
    BY AllocatedType
  <2>2. Recomputed(invoice[i], AllocatedOn(l, i)).total = invoice[i].total
    BY <1>1, <2>1, RecomputedRow
  <2> QED BY <1>2, <2>2 DEF RecomputedInvoices
<1>3. CASE InvoiceStep /\ ~ReturnStep
  <2>1. PICK k \in Invoices : InvoiceStepOf(k)
    BY <1>3, StepsOfDocuments
  <2>2. CASE k # i
    BY <2>1, <2>2, InvoiceStepWrites
  <2>3. CASE k = i /\ IssueInvoice(i)
    <3>1. invoice'[i] = [invoice[i] EXCEPT !.status = "issued",
                                           !.balance = invoice[i].total,
                                           !.paid = 0]
      BY <2>3 DEF IssueInvoice, TypeOK
    <3> QED BY <1>1, <3>1, WrittenRows
  <2>4. CASE k = i /\ CancelInvoice(i)
    BY <1>1, <2>4 DEF CancelInvoice, TypeOK, InvoiceRows
  <2> QED BY <1>3, <2>1, <2>2, <2>3, <2>4 DEF InvoiceStepOf, CreateDraft
<1>4. CASE PaymentStep
  <2>1. PICK p \in Payments : PaymentStepOf(p)
    BY <1>4, StepsOfDocuments
  <2>2. ASSUME NEW a \in AllocationRequests, PostPayment(p, a) \/ AllocateAdvance(p, a)
        PROVE  invoice'[i].total = invoice[i].total
    <3>1. /\ live' = WithAllocations(live, p, a)
          /\ invoice' = RecomputedInvoices(live', Named(a))
      BY <2>2 DEF PostPayment, AllocateAdvance
    <3>2. live' \in LiveRows
      BY <1>1, <3>1, AllocationAdds
    <3> QED BY <1>2, <3>1, <3>2
  <2>3. CASE ReversePayment(p)
    <3>1. live' \in LiveRows
      BY <1>1, <2>3, AllocationsLift DEF ReversePayment
    <3> QED BY <1>2, <2>3, <3>1 DEF ReversePayment
  <2>4. CASE invoice' = invoice
    BY <2>4
  <2> QED BY <2>1, <2>2, <2>3, <2>4
          DEF PaymentStepOf, CreatePayment, ApprovePayment, CancelPayment
<1>5. CASE ReturnStep
  <2>1. PICK r \in Returns : ReturnStepOf(r)
    BY <1>5, StepsOfDocuments
  <2>2. CASE PostReturn(r)
    <3> DEFINE k == salesReturn[r].original
               memo == salesReturn[r].total
    <3>1. memo \in Nat
      BY DEF TypeOK, ReturnRows
    <3>2. \/ invoice' = invoice
          \/ invoice' = [invoice EXCEPT ![k] = Credited(invoice[k], memo)]
      BY <2>2 DEF PostReturn
    <3>3. Credited(invoice[i], memo).total = invoice[i].total
      BY <1>1, <3>1, CreditedRow
    <3> QED BY <3>2, <3>3 DEF TypeOK
  <2>3. CASE ~PostReturn(r)
    BY <2>1, <2>3 DEF ReturnStepOf, CreateReturn, ApproveReturn, CancelReturn,
                      ReverseReturn
  <2> QED BY <2>2, <2>3
<1>6. CASE UNCHANGED vars
  BY <1>6 DEF vars
<1> QED BY <1>3, <1>4, <1>5, <1>6 DEF Next

\* The quantity of an invoice one return holds.
Holds(r, i) ==
  IF /\ salesReturn[r].original = i
     /\ salesReturn[r].status \notin {"none", "cancelled", "reversed"}
  THEN salesReturn[r].total ELSE 0

HoldsOf(i) == [r \in Returns |-> Holds(r, i)]

HoldsTyped ==
  \A i \in Invoices : /\ HoldsOf(i) \in [Returns -> Int]
                      /\ ReturnedOn(i) = SumFunction(HoldsOf(i))
                      /\ \A r \in Returns : HoldsOf(i)[r] \in Nat

LEMMA HoldsType == TypeOK => HoldsTyped
BY DEF TypeOK, ReturnRows, HoldsTyped, HoldsOf, Holds, ReturnedOn

\* When one return holds more or less of an invoice, so do they all.
LEMMA ReturnedChange ==
  ASSUME TypeOK, TypeOK', NEW r \in Returns, NEW i \in Invoices,
         \A s \in Returns : s # r => salesReturn'[s] = salesReturn[s]
  PROVE  /\ ReturnedOn(i) \in Int
         /\ HoldsOf(i)[r] \in Nat /\ HoldsOf(i)'[r] \in Nat
         /\ ReturnedOn(i)' = ReturnedOn(i) + HoldsOf(i)'[r] - HoldsOf(i)[r]
<1>1. /\ HoldsOf(i) \in [Returns -> Int]
      /\ ReturnedOn(i) = SumFunction(HoldsOf(i))
      /\ HoldsOf(i)[r] \in Nat
  BY HoldsType DEF HoldsTyped
<1>2. /\ HoldsOf(i)' \in [Returns -> Int]
      /\ ReturnedOn(i)' = SumFunction(HoldsOf(i)')
      /\ HoldsOf(i)'[r] \in Nat
  <2>1. TypeOK' => HoldsTyped'
    BY HoldsType, PTL
  <2> QED BY <2>1 DEF HoldsTyped
<1>3. \A s \in Returns : s # r => HoldsOf(i)'[s] = HoldsOf(i)[s]
  BY DEF HoldsOf, Holds
<1>4. SumFunction(HoldsOf(i)) \in Int
  BY <1>1, SumInt, DocumentsAssumption
<1> QED BY <1>1, <1>2, <1>3, <1>4, SumUpdate, DocumentsAssumption

\* Returns made one at a time never promise back more than was sold,
\* drafts and posts included, whatever was cancelled or reversed before.
THEOREM NeverOverReturned == Spec => []NoOverReturn
<1>1. Init => NoOverReturn
  <2> SUFFICES ASSUME Init, NEW i \in Invoices PROVE ReturnedOn(i) <= invoice[i].total
    BY DEF NoOverReturn
  <2>1. /\ HoldsOf(i) \in [Returns -> Int]
        /\ \A r \in Returns : HoldsOf(i)[r] = 0
        /\ ReturnedOn(i) = SumFunction(HoldsOf(i))
    BY DEF Init, HoldsOf, Holds, ReturnedOn
  <2>2. ReturnedOn(i) = 0
    BY <2>1, SumZero, DocumentsAssumption
  <2> QED BY <2>2 DEF Init
<1>2. ASSUME TypeOK, TypeOK', InvoicesInv, NoOverReturn, [Next]_vars
      PROVE  NoOverReturn'
  <2> SUFFICES ASSUME NEW i \in Invoices
               PROVE  ReturnedOn(i)' <= invoice'[i].total
    BY DEF NoOverReturn
  <2>1. /\ ReturnedOn(i) <= invoice[i].total
        /\ ReturnedOn(i) \in Int
        /\ invoice[i].total \in Nat /\ invoice'[i].total \in Nat
    <3>1. HoldsOf(i) \in [Returns -> Int] /\ ReturnedOn(i) = SumFunction(HoldsOf(i))
      BY <1>2, HoldsType DEF HoldsTyped
    <3> QED BY <1>2, <3>1, SumInt, DocumentsAssumption
            DEF NoOverReturn, TypeOK, InvoiceRows
  <2>2. CASE ReturnStep
    <3>1. PICK r \in Returns : ReturnStepOf(r)
      BY <2>2, StepsOfDocuments
    <3>2. invoice'[i].total = invoice[i].total
      BY <1>2, <2>2, TotalsStay
    <3>3. \A s \in Returns : s # r => salesReturn'[s] = salesReturn[s]
      BY <1>2, <3>1, ReturnStepWrites
    <3>4. /\ HoldsOf(i)[r] \in Nat /\ HoldsOf(i)'[r] \in Nat
          /\ ReturnedOn(i)' = ReturnedOn(i) + HoldsOf(i)'[r] - HoldsOf(i)[r]
      BY <1>2, <3>3, ReturnedChange
    <3>5. HoldsOf(i)[r] = Holds(r, i) /\ HoldsOf(i)'[r] = Holds(r, i)'
      BY DEF HoldsOf, Holds
    <3>6. ASSUME NEW k \in Invoices, NEW q \in Amounts, NEW m \in RefundMethods,
                 NEW b \in BOOLEAN, CreateReturn(r, k, q, m, b)
          PROVE  ReturnedOn(i)' <= invoice'[i].total
      <4>1. /\ salesReturn'[r].original = k /\ salesReturn'[r].total = q
            /\ salesReturn[r].status = "none" /\ q \in Nat
        BY <1>2, <3>6, AmountsAssumption DEF CreateReturn, TypeOK
      <4>2. Holds(r, i) = 0 /\ Holds(r, i)' \in {0, IF k = i THEN q ELSE 0}
        BY <4>1 DEF Holds
      <4>3. k = i => q <= invoice[i].total - ReturnedOn(i)
        BY <3>6 DEF CreateReturn, Returnable
      <4> QED BY <2>1, <3>2, <3>4, <3>5, <4>1, <4>2, <4>3
    <3>7. ASSUME NEW s \in ReturnStatuses,
                 salesReturn' = [salesReturn EXCEPT ![r].status = s],
                 salesReturn[r].status \in {"draft", "approved", "posted"}
          PROVE  ReturnedOn(i)' <= invoice'[i].total
      <4>1. /\ salesReturn'[r].original = salesReturn[r].original
            /\ salesReturn'[r].total = salesReturn[r].total
        BY <1>2, <3>7, ReturnStatusRow
      <4>2. Holds(r, i)' = Holds(r, i) \/ Holds(r, i)' = 0
        BY <3>7, <4>1 DEF Holds
      <4> QED BY <2>1, <3>2, <3>4, <3>5, <4>2
    <3>8. \/ \E k \in Invoices, q \in Amounts, m \in RefundMethods, b \in BOOLEAN :
               CreateReturn(r, k, q, m, b)
          \/ /\ salesReturn[r].status \in {"draft", "approved", "posted"}
             /\ \E s \in ReturnStatuses :
                  salesReturn' = [salesReturn EXCEPT ![r].status = s]
      BY <3>1 DEF ReturnStepOf, ApproveReturn, CancelReturn, PostReturn,
                  ReverseReturn, ReturnStatuses, PaymentStatuses
    <3> QED BY <3>6, <3>7, <3>8
  <2>3. CASE ~ReturnStep
    <3>1. salesReturn' = salesReturn
      BY <1>2, <2>3, StepsOfDocuments, InvoiceStepWrites, PaymentStepWrites
      DEF Next, vars
    <3>2. ReturnedOn(i)' = ReturnedOn(i)
      BY <3>1 DEF ReturnedOn
    <3>3. invoice'[i].total = invoice[i].total \/ invoice[i].status = "none"
      BY <1>2, TotalsStay
    <3>4. invoice[i].status = "none" => ReturnedOn(i) = 0
      <4> SUFFICES ASSUME invoice[i].status = "none" PROVE ReturnedOn(i) = 0
        OBVIOUS
      <4>1. \A r \in Returns : Holds(r, i) = 0
        BY <1>2 DEF InvoicesInv, OriginalExists, Holds
      <4>2. /\ HoldsOf(i) \in [Returns -> Int]
            /\ ReturnedOn(i) = SumFunction(HoldsOf(i))
            /\ \A r \in Returns : HoldsOf(i)[r] = 0
        BY <1>2, <4>1, HoldsType DEF HoldsTyped, HoldsOf
      <4> QED BY <4>2, SumZero, DocumentsAssumption
    <3> QED BY <2>1, <3>2, <3>3, <3>4
  <2> QED BY <2>2, <2>3
<1> QED BY <1>1, <1>2, TypeCorrect, InvoicesInvariant, PTL DEF Spec

-----------------------------------------------------------------------------
(* The subledger against the ledger.                                        *)

\* The journal of an invoice is there once it is issued, whole and never
\* reversed.
InvoiceTies(i) ==
  LET sold == journal[<<"CustomerInvoice", i>>]
  IN  /\ sold.reversals = 0
      /\ sold.amount = IF invoice[i].status \in Unissued THEN 0
                       ELSE invoice[i].total

\* No credit note has reduced receivables yet.
NoMemo ==
  \A r \in Returns : salesReturn[r].status \in {"posted", "reversed"}
                       => salesReturn[r].method # "ar_reduction"

\* What is open of an invoice that no credit memo touched is its total less
\* its allocations; a paid one is allocated its total, give or take the tolerance.
Exact(row, allocated) ==
  /\ row.status # "credited"
  /\ row.status \in {"issued", "partially_paid"} => row.balance = row.total - allocated
  /\ row.status = "paid" => row.total - allocated \in -Tol..Tol

OpenInv ==
  /\ \A i \in Invoices : InvoiceTies(i)
  /\ NoMemo => \A i \in Invoices : Exact(invoice[i], AllocatedOn(live, i))

LEMMA RecomputedExact ==
  ASSUME NEW row \in InvoiceRows, NEW n \in Nat, n <= row.total + Tol,
         row.status \notin Unissued, row.status # "credited"
  PROVE  /\ Exact(Recomputed(row, n), n)
         /\ Recomputed(row, n).status \notin Unissued
<1> DEFINE new == Recomputed(row, n)
<1>1. /\ new.total = row.total
      /\ new.balance = IF row.total - n < 0 THEN 0 ELSE row.total - n
      /\ new.status \in {"issued", "partially_paid", "paid"}
  BY RecomputedRow DEF Unissued
<1>2. row.total \in Nat /\ Tol \in {0, 1}
  BY AmountsAssumption DEF InvoiceRows
<1>3. new.status = "paid" <=> row.total - n <= Tol
  <2>1. new.status = IF row.total - n <= Tol THEN "paid"
                     ELSE IF n > Tol THEN "partially_paid" ELSE "issued"
    BY DEF Recomputed, InvoiceRows, Unissued
  <2> QED BY <2>1
<1> HIDE DEF new
<1> QED BY <1>1, <1>2, <1>3 DEF Exact, Unissued, new

\* Whether an invoice is issued changes only when it is issued.
LEMMA RecomputedIssued ==
  ASSUME NEW row \in InvoiceRows, NEW n \in Int, row.status # "none"
  PROVE  (Recomputed(row, n).status \in Unissued) <=> (row.status \in Unissued)
<1> DEFINE new == Recomputed(row, n)
<1>1. /\ row.status \in {"cancelled", "credited", "draft"} => new.status = row.status
      /\ row.status \notin {"cancelled", "credited", "draft"} =>
           new.status \in {"issued", "partially_paid", "paid"}
  BY RecomputedRow
<1> HIDE DEF new
<1> QED BY <1>1 DEF Unissued, new

\* A step that recomputes the invoices whose allocations it changed keeps
\* journals and open amounts in step.
LEMMA RecomputingKeepsOpen ==
  ASSUME TypeOK, InvoicesInv, InvoicesInv', OpenInv,
         NEW touched, live' \in LiveRows,
         invoice' = RecomputedInvoices(live', touched),
         salesReturn' = salesReturn,
         \A i \in Invoices : journal'[<<"CustomerInvoice", i>>]
                               = journal[<<"CustomerInvoice", i>>],
         \A i \in Invoices : /\ i \in touched => invoice[i].status \notin Unissued
                             /\ i \notin touched =>
                                  AllocatedOn(live', i) = AllocatedOn(live, i)
  PROVE  OpenInv'
<1>1. ASSUME NEW i \in Invoices
      PROVE  /\ InvoiceTies(i)'
             /\ NoMemo => Exact(invoice'[i], AllocatedOn(live', i))
  <2>1. /\ invoice[i] \in InvoiceRows /\ InvoiceTies(i)
        /\ NoMemo => Exact(invoice[i], AllocatedOn(live, i))
        /\ AllocatedOn(live', i) \in Nat
    BY AllocatedType DEF TypeOK, OpenInv
  <2>2. CASE i \notin touched
    <3>1. invoice'[i] = invoice[i]
      BY <2>2 DEF RecomputedInvoices
    <3> QED BY <2>1, <2>2, <3>1 DEF InvoiceTies
  <2>3. CASE i \in touched
    <3> DEFINE n == AllocatedOn(live', i)
    <3>1. invoice'[i] = Recomputed(invoice[i], n) /\ invoice[i].status \notin Unissued
      BY <2>3 DEF RecomputedInvoices
    <3>2. invoice'[i].total = invoice[i].total /\ invoice[i].total \in Nat
      BY <2>1, <3>1, RecomputedRow DEF InvoiceRows
    <3>3. n <= invoice[i].total + Tol
      <4>1. Settled(invoice'[i], n)
        BY DEF InvoicesInv, AllocatedOn
      <4> HIDE DEF n
      <4> QED BY <3>2, <4>1 DEF Settled
    <3> HIDE DEF n
    <3>4. invoice'[i].status \notin Unissued
      BY <2>1, <3>1, RecomputedIssued DEF Unissued, n
    <3>5. InvoiceTies(i)'
      BY <2>1, <3>1, <3>2, <3>4 DEF InvoiceTies
    <3>6. NoMemo => Exact(invoice'[i], n)
      <4> SUFFICES ASSUME NoMemo PROVE Exact(invoice'[i], n)
        OBVIOUS
      <4>1. invoice[i].status # "credited"
        BY <2>1 DEF Exact
      <4> QED BY <2>1, <3>1, <3>3, <4>1, RecomputedExact DEF n
    <3> QED BY <3>5, <3>6 DEF n
  <2> QED BY <2>2, <2>3
<1>2. NoMemo' => NoMemo
  BY DEF NoMemo
<1> QED BY <1>1, <1>2 DEF OpenInv, AllocatedOn

\* Steps of invoices.
LEMMA InvoiceStepKeepsOpen ==
  ASSUME TypeOK, InvoicesInv, OpenInv, NEW i \in Invoices, InvoiceStepOf(i)
  PROVE  OpenInv'
<1>1. /\ salesReturn' = salesReturn /\ live' = live
      /\ \A k \in Invoices : k # i => invoice'[k] = invoice[k]
      /\ \A ref \in JournalRefs :
           ref # <<"CustomerInvoice", i>> => journal'[ref] = journal[ref]
  BY InvoiceStepWrites
<1>2. /\ invoice[i].status \in Unissued /\ invoice[i] \in InvoiceRows
      /\ AllocatedOn(live, i) = 0 /\ InvoiceTies(i)
      /\ <<"CustomerInvoice", i>> \in JournalRefs
      /\ journal \in [JournalRefs -> JournalRows]
  BY RefsApart DEF InvoiceStepOf, CreateDraft, IssueInvoice, CancelInvoice, Unissued,
     InvoicesInv, Settled, TypeOK, OpenInv
<1>3. InvoiceTies(i)' /\ Exact(invoice'[i], 0)
  <2>1. CASE IssueInvoice(i)
    <3>1. invoice'[i] = [invoice[i] EXCEPT !.status = "issued",
                                           !.balance = invoice[i].total,
                                           !.paid = 0]
      BY <2>1 DEF IssueInvoice, TypeOK
    <3>2. /\ invoice'[i].status = "issued"
          /\ invoice'[i].total = invoice[i].total
          /\ invoice'[i].balance = invoice[i].total
      BY <1>2, <3>1, WrittenRows
    <3>3. invoice[i].total \in Nat
      BY <1>2 DEF InvoiceRows
    <3>4. /\ journal'[<<"CustomerInvoice", i>>].amount = 0 + invoice[i].total
          /\ journal'[<<"CustomerInvoice", i>>].reversals = 0
      <4>1. journal[<<"CustomerInvoice", i>>].amount = 0
        BY <1>2 DEF InvoiceTies
      <4>2. journal[<<"CustomerInvoice", i>>].reversals = 0
        BY <1>2 DEF InvoiceTies
      <4> QED BY <1>2, <2>1, <3>3, <4>1, <4>2, JournalWrites DEF IssueInvoice
    <3> QED BY <3>2, <3>3, <3>4 DEF InvoiceTies, Exact, Unissued
  <2>2. CASE ~IssueInvoice(i)
    <3>1. invoice'[i].status \in {"draft", "cancelled"} /\ journal' = journal
      BY <1>2, <2>2 DEF InvoiceStepOf, CreateDraft, CancelInvoice, TypeOK, InvoiceRows
    <3> QED BY <1>2, <3>1 DEF InvoiceTies, Exact, Unissued
  <2> QED BY <2>1, <2>2
<1>4. ASSUME NEW k \in Invoices, k # i
      PROVE  journal'[<<"CustomerInvoice", k>>] = journal[<<"CustomerInvoice", k>>]
  BY <1>1, <1>4, RefsApart
<1>5. \A k \in Invoices : InvoiceTies(k)'
  BY <1>1, <1>3, <1>4 DEF OpenInv, InvoiceTies
<1>6. NoMemo' => NoMemo
  BY <1>1 DEF NoMemo
<1>7. NoMemo => \A k \in Invoices : Exact(invoice'[k], AllocatedOn(live', k))
  BY <1>1, <1>2, <1>3 DEF OpenInv
<1> QED BY <1>5, <1>6, <1>7 DEF OpenInv, AllocatedOn

\* Steps of collections.
LEMMA PaymentStepKeepsOpen ==
  ASSUME TypeOK, InvoicesInv, InvoicesInv', OpenInv,
         NEW p \in Payments, PaymentStepOf(p)
  PROVE  OpenInv'
<1>1. live \in LiveRows
  BY DEF TypeOK, LiveRows
<1>2. /\ salesReturn' = salesReturn
      /\ \A i \in Invoices : journal'[<<"CustomerInvoice", i>>]
                               = journal[<<"CustomerInvoice", i>>]
  BY PaymentStepWrites, RefsApart
<1>3. ASSUME NEW a \in AllocationRequests, PostPayment(p, a) \/ AllocateAdvance(p, a)
      PROVE  OpenInv'
  <2>1. /\ live' = WithAllocations(live, p, a) /\ CanAllocate(p, a)
        /\ invoice' = RecomputedInvoices(live', Named(a))
    BY <1>3 DEF PostPayment, AllocateAdvance
  <2>2. /\ live' \in LiveRows
        /\ \A i \in Invoices : AllocatedOn(live', i) = AllocatedOn(live, i) + a[i]
    BY <1>1, <2>1, AllocationAdds
  <2>3. ASSUME NEW i \in Invoices
        PROVE  /\ i \in Named(a) => invoice[i].status \notin Unissued
               /\ i \notin Named(a) => AllocatedOn(live', i) = AllocatedOn(live, i)
    <3>1. a[i] \in Nat /\ AllocatedOn(live, i) \in Nat
      BY <1>1, RequestType, AllocatedType
    <3>2. i \notin Named(a) => a[i] = 0
      BY <3>1 DEF Named
    <3> QED BY <2>1, <2>2, <3>1, <3>2 DEF CanAllocate, Allocatable, Unissued
  <2> QED BY <1>2, <2>1, <2>2, <2>3, RecomputingKeepsOpen
<1>4. CASE ReversePayment(p)
  <2>1. /\ live' \in LiveRows
        /\ \A i \in Invoices : AllocatedOn(live', i) = AllocatedOn(live, i) - live[p][i]
    BY <1>1, <1>4, AllocationsLift DEF ReversePayment
  <2>2. invoice' = RecomputedInvoices(live', Named(live[p]))
    BY <1>4 DEF ReversePayment, ToRecompute
  <2>3. ASSUME NEW i \in Invoices
        PROVE  /\ i \in Named(live[p]) => invoice[i].status \notin Unissued
               /\ i \notin Named(live[p]) => AllocatedOn(live', i) = AllocatedOn(live, i)
    <3>1. /\ live[p][i] \in Nat /\ live[p][i] <= AllocatedOn(live, i)
          /\ AllocatedOn(live, i) \in Nat
      BY <1>1, PartOfSum, AllocatedType
    <3>2. invoice[i].status \in Unissued => AllocatedOn(live, i) = 0
      BY DEF InvoicesInv, Settled
    <3>3. i \notin Named(live[p]) => live[p][i] = 0
      BY <3>1 DEF Named
    <3>4. i \in Named(live[p]) => live[p][i] > 0
      BY DEF Named
    <3> QED BY <2>1, <3>1, <3>2, <3>3, <3>4
  <2> QED BY <1>2, <2>1, <2>2, <2>3, RecomputingKeepsOpen
<1>5. CASE live' = live /\ invoice' = invoice
  <2>1. NoMemo' => NoMemo
    BY <1>2 DEF NoMemo
  <2>2. \A i \in Invoices : InvoiceTies(i)'
    BY <1>2, <1>5 DEF OpenInv, InvoiceTies
  <2>3. NoMemo => \A i \in Invoices : Exact(invoice'[i], AllocatedOn(live', i))
    BY <1>5 DEF OpenInv
  <2> QED BY <2>1, <2>2, <2>3 DEF OpenInv, AllocatedOn
<1> QED BY <1>3, <1>4, <1>5
        DEF PaymentStepOf, CreatePayment, ApprovePayment, CancelPayment

\* Steps of returns.  Once a credit note has reduced receivables, it stays
\* posted or becomes reversed.
LEMMA ReturnStepKeepsOpen ==
  ASSUME TypeOK, InvoicesInv, OpenInv, NEW r \in Returns, ReturnStepOf(r)
  PROVE  OpenInv'
<1>1. /\ live' = live
      /\ \A s \in Returns : s # r => salesReturn'[s] = salesReturn[s]
      /\ \A i \in Invoices : journal'[<<"CustomerInvoice", i>>]
                               = journal[<<"CustomerInvoice", i>>]
  BY ReturnStepWrites, RefsApart
<1>2. salesReturn[r].status \in {"posted", "reversed"} =>
        /\ salesReturn'[r].status \in {"posted", "reversed"}
        /\ salesReturn'[r].method = salesReturn[r].method
  <2> SUFFICES ASSUME salesReturn[r].status \in {"posted", "reversed"}
               PROVE  /\ salesReturn'[r].status \in {"posted", "reversed"}
                      /\ salesReturn'[r].method = salesReturn[r].method
    OBVIOUS
  <2>1. salesReturn' = [salesReturn EXCEPT ![r].status = "reversed"]
    BY DEF ReturnStepOf, CreateReturn, ApproveReturn, CancelReturn, PostReturn,
           ReverseReturn
  <2> QED BY <2>1, ReturnStatusRow
<1>3. NoMemo' => NoMemo
  <2> SUFFICES ASSUME NoMemo', NEW s \in Returns,
                      salesReturn[s].status \in {"posted", "reversed"}
               PROVE  salesReturn[s].method # "ar_reduction"
    BY DEF NoMemo
  <2>1. /\ salesReturn'[s].status \in {"posted", "reversed"}
        /\ salesReturn'[s].method = salesReturn[s].method
    BY <1>1, <1>2
  <2> QED BY <2>1 DEF NoMemo
<1>4. ASSUME invoice' = invoice
      PROVE  OpenInv'
  <2>1. \A i \in Invoices : InvoiceTies(i)'
    BY <1>1, <1>4 DEF OpenInv, InvoiceTies
  <2>2. NoMemo => \A i \in Invoices : Exact(invoice'[i], AllocatedOn(live', i))
    BY <1>1, <1>4 DEF OpenInv
  <2> QED BY <1>3, <2>1, <2>2 DEF OpenInv, AllocatedOn
<1>5. CASE PostReturn(r)
  <2> DEFINE i == salesReturn[r].original
             memo == salesReturn[r].total
  <2>1. /\ i \in Invoices /\ invoice[i] \in InvoiceRows /\ memo \in Nat
        /\ invoice[i].status # "none"
    BY <1>5 DEF PostReturn, InvoicesInv, OriginalExists, TypeOK, ReturnRows
  <2>2. /\ salesReturn'[r].status = "posted"
        /\ salesReturn'[r].method = salesReturn[r].method
    BY <1>5, ReturnStatusRow DEF PostReturn
  <2>3. \/ invoice' = invoice
        \/ /\ salesReturn[r].method = "ar_reduction"
           /\ invoice[i].status \notin {"cancelled", "draft"}
           /\ invoice' = [invoice EXCEPT ![i] = Credited(invoice[i], memo)]
    BY <1>5 DEF PostReturn
  <2> HIDE DEF i, memo
  <2>4. CASE /\ salesReturn[r].method = "ar_reduction"
             /\ invoice[i].status \notin {"cancelled", "draft"}
             /\ invoice' = [invoice EXCEPT ![i] = Credited(invoice[i], memo)]
    <3>1. ~NoMemo'
      BY <2>2, <2>4 DEF NoMemo
    <3>2. /\ \A k \in Invoices : k # i => invoice'[k] = invoice[k]
          /\ invoice'[i] = Credited(invoice[i], memo)
      BY <2>1, <2>4 DEF TypeOK
    <3>3. /\ invoice'[i].total = invoice[i].total
          /\ invoice'[i].status \notin Unissued
          /\ invoice[i].status \notin Unissued
      <4>1. /\ Credited(invoice[i], memo).total = invoice[i].total
            /\ Credited(invoice[i], memo).status \in {"partially_paid", "credited", "paid"}
        BY <2>1, CreditedRow
      <4> QED BY <2>1, <2>4, <3>2, <4>1 DEF Unissued
    <3>4. \A k \in Invoices : InvoiceTies(k)'
      BY <1>1, <3>2, <3>3 DEF OpenInv, InvoiceTies
    <3> QED BY <3>1, <3>4 DEF OpenInv
  <2> QED BY <1>4, <2>3, <2>4
<1> QED BY <1>4, <1>5
        DEF ReturnStepOf, CreateReturn, ApproveReturn, CancelReturn, ReverseReturn

LEMMA OpenInvariant == Spec => []OpenInv
<1>1. Init => OpenInv
  <2> SUFFICES ASSUME Init PROVE OpenInv
    OBVIOUS
  <2>1. \A i \in Invoices : journal[<<"CustomerInvoice", i>>] = NewJournal
    BY RefsApart DEF Init
  <2> QED BY <2>1 DEF Init, OpenInv, InvoiceTies, Exact, Unissued, NewJournal
<1>2. TypeOK /\ InvoicesInv /\ InvoicesInv' /\ OpenInv /\ [Next]_vars => OpenInv'
  <2> SUFFICES ASSUME TypeOK, InvoicesInv, InvoicesInv', OpenInv, [Next]_vars
               PROVE  OpenInv'
    OBVIOUS
  <2>1. CASE InvoiceStep
    BY <2>1, StepsOfDocuments, InvoiceStepKeepsOpen
  <2>2. CASE PaymentStep
    BY <2>2, StepsOfDocuments, PaymentStepKeepsOpen
  <2>3. CASE ReturnStep
    BY <2>3, StepsOfDocuments, ReturnStepKeepsOpen
  <2>4. CASE UNCHANGED vars
    BY <2>4 DEF vars, OpenInv, InvoiceTies, NoMemo, AllocatedOn
  <2> QED BY <2>1, <2>2, <2>3, <2>4 DEF Next
<1> QED BY <1>1, <1>2, TypeCorrect, InvoicesInvariant, PTL DEF Spec

\* The difference is the applications of reversed collections and what the
\* tolerance forgave.
LEMMA DriftOfInvariants ==
  ASSUME TypeOK, InvoicesInv, CollectionsInv, ReturnsInv, OpenInv
  PROVE  DriftIsStrandedApplications
<1> SUFFICES ASSUME NoMemo
             PROVE  /\ ReceivablesAccount
                         = OpenReceivables - StrandedApplications
                             + SumFunction([i \in Invoices |-> Forgiven(i)])
                    /\ \A i \in Invoices : Forgiven(i) \in -Tol..Tol
  BY DEF NoMemo, DriftIsStrandedApplications
<1> DEFINE sold == [i \in Invoices |-> Net(journal, <<"CustomerInvoice", i>>)]
           open == [i \in Invoices |->
                      IF invoice[i].status \in {"issued", "partially_paid"}
                      THEN invoice[i].balance ELSE 0]
           forgiven == [i \in Invoices |-> Forgiven(i)]
           settled == [i \in Invoices |-> open[i] + forgiven[i]]
           on   == [i \in Invoices |-> SumFunction([p \in Payments |-> live[p][i]])]
           of   == [p \in Payments |-> SumFunction(live[p])]
           cash == [p \in Payments |->
                      Net(journal, <<"CustomerPayment", p>>)
                        + Net(journal, <<"CustomerAdvanceApplication", p>>)]
           stranded == [p \in Payments |->
                      IF payment[p].status = "reversed"
                      THEN journal[<<"CustomerAdvanceApplication", p>>].amount
                      ELSE 0]
           memos == [r \in Returns |->
                      IF salesReturn[r].method = "ar_reduction"
                      THEN Net(journal, <<"SalesReturn", r>>) ELSE 0]
<1>1. /\ ReceivablesAccount = SumFunction(sold) - SumFunction(cash) - SumFunction(memos)
      /\ OpenReceivables = SumFunction(open)
      /\ StrandedApplications = SumFunction(stranded)
  BY DEF ReceivablesAccount, OpenReceivables, StrandedApplications
<1>2. /\ journal \in [JournalRefs -> JournalRows] /\ live \in LiveRows
      /\ live \in [Payments -> [Invoices -> Int]]
  BY DEF TypeOK, LiveRows
<1>3. /\ IsFiniteSet(Invoices) /\ IsFiniteSet(Payments) /\ IsFiniteSet(Returns)
  BY DocumentsAssumption
<1>4. SumFunction(on) = SumFunction(of)
  <2>1. live \in [Payments -> [Invoices -> Int]]
    BY <1>2
  <2>2. PICK m : m = live
    OBVIOUS
  <2>3. m \in [Payments -> [Invoices -> Int]]
    BY <2>1, <2>2
  <2>4. SumFunction([i \in Invoices |-> SumFunction([p \in Payments |-> m[p][i]])])
          = SumFunction([p \in Payments |-> SumFunction(m[p])])
    BY <1>3, <2>3, SumExchange
  <2> QED BY <2>2, <2>4
<1>5. ASSUME NEW i \in Invoices
      PROVE  /\ sold[i] \in Int /\ open[i] \in Int /\ on[i] \in Int
             /\ forgiven[i] \in Int /\ forgiven[i] \in -Tol..Tol
             /\ settled[i] = open[i] + forgiven[i]
             /\ sold[i] = settled[i] + on[i]
  <2> DEFINE ref == <<"CustomerInvoice", i>>
  <2>1. on[i] = AllocatedOn(live, i) /\ on[i] \in Nat
    BY <1>2, AllocatedType DEF AllocatedOn
  <2>2. /\ ref \in JournalRefs /\ invoice[i] \in InvoiceRows
        /\ InvoiceTies(i) /\ Exact(invoice[i], AllocatedOn(live, i))
    BY RefsApart DEF TypeOK, OpenInv
  <2>3. sold[i] = IF invoice[i].status \in Unissued THEN 0 ELSE invoice[i].total
    BY <1>2, <2>2, NetType DEF InvoiceTies
  <2>4. invoice[i].status \in Unissued => AllocatedOn(live, i) = 0
    BY DEF InvoicesInv, Settled
  <2>5. forgiven[i] = IF invoice[i].status = "paid"
                      THEN invoice[i].total - AllocatedOn(live, i) ELSE 0
    BY DEF Forgiven
  <2>6. Tol \in {0, 1}
    BY AmountsAssumption
  <2> QED BY <2>1, <2>2, <2>3, <2>4, <2>5, <2>6
          DEF Exact, InvoiceRows, InvoiceStatuses, Unissued
<1>6. ASSUME NEW p \in Payments
      PROVE  /\ cash[p] \in Int /\ of[p] \in Int /\ stranded[p] \in Int
             /\ cash[p] = of[p] + stranded[p]
  <2> DEFINE receipt == <<"CustomerPayment", p>>
             applied == <<"CustomerAdvanceApplication", p>>
  <2>1. of[p] = AllocatedOf(live, p) /\ of[p] \in Nat
    BY <1>2, AllocatedType DEF AllocatedOf
  <2>2. receipt \in JournalRefs /\ applied \in JournalRefs /\ CollectionTies(p)
    BY RefsApart DEF CollectionRefs, CollectionsInv
  <2>3. journal[receipt].amount \in Nat /\ journal[applied].amount \in Nat
    BY <1>2, <2>2 DEF JournalRows
  <2>4. Net(journal, applied) = journal[applied].amount
    BY <1>2, <2>2, NetType DEF CollectionTies
  <2>5. CASE payment[p].status = "posted"
    <3>1. Net(journal, receipt) = journal[receipt].amount
      BY <1>2, <2>2, <2>5, NetType DEF CollectionTies
    <3>2. journal[receipt].amount + journal[applied].amount = AllocatedOf(live, p)
      BY <2>2, <2>5 DEF CollectionTies
    <3> QED BY <2>1, <2>3, <2>4, <2>5, <3>1, <3>2
  <2>6. CASE payment[p].status # "posted"
    <3>1. Net(journal, receipt) = 0
      BY <1>2, <2>2, <2>6, NetType DEF CollectionTies
    <3>2. /\ AllocatedOf(live, p) = 0
          /\ payment[p].status # "reversed" => journal[applied].amount = 0
      BY <2>2, <2>6 DEF CollectionTies
    <3> QED BY <2>1, <2>3, <2>4, <2>6, <3>1, <3>2
  <2> QED BY <2>5, <2>6
<1>7. ASSUME NEW r \in Returns
      PROVE  memos[r] = 0
  <2>1. <<"SalesReturn", r>> \in JournalRefs
    BY RefsApart DEF ReturnRefs
  <2>2. salesReturn[r].method = "ar_reduction"
          => journal[<<"SalesReturn", r>>].amount = 0
    BY DEF NoMemo, ReturnsInv, ReturnTies
  <2> QED BY <1>2, <2>1, <2>2, NetType
<1>8. /\ sold \in [Invoices -> Int] /\ open \in [Invoices -> Int]
      /\ on \in [Invoices -> Int] /\ forgiven \in [Invoices -> Int]
      /\ settled \in [Invoices -> Int]
  <2>2. /\ sold = [i \in Invoices |-> sold[i]] /\ open = [i \in Invoices |-> open[i]]
        /\ on = [i \in Invoices |-> on[i]]
        /\ forgiven = [i \in Invoices |-> forgiven[i]]
        /\ settled = [i \in Invoices |-> settled[i]]
    OBVIOUS
  <2> HIDE DEF sold, open, on, forgiven, settled
  <2> QED BY <1>5, <2>2
<1>9. /\ cash \in [Payments -> Int] /\ of \in [Payments -> Int]
      /\ stranded \in [Payments -> Int]
  <2>2. /\ cash = [p \in Payments |-> cash[p]] /\ of = [p \in Payments |-> of[p]]
        /\ stranded = [p \in Payments |-> stranded[p]]
    OBVIOUS
  <2> HIDE DEF cash, of, stranded
  <2> QED BY <1>6, <2>2
<1>10. memos \in [Returns -> Int]
  <2>1. memos = [r \in Returns |-> memos[r]]
    OBVIOUS
  <2> HIDE DEF memos
  <2> QED BY <1>7, <2>1
<1>14. \A i \in Invoices : Forgiven(i) \in -Tol..Tol
  BY <1>5
<1> HIDE DEF sold, open, on, forgiven, settled, of, cash, stranded, memos
<1>11. /\ SumFunction(sold) = SumFunction(open) + SumFunction(forgiven) + SumFunction(on)
       /\ SumFunction(open) \in Int /\ SumFunction(on) \in Int
       /\ SumFunction(forgiven) \in Int
  <2>1. \A i \in Invoices : sold[i] = settled[i] + on[i]
    BY <1>5
  <2>2. \A i \in Invoices : settled[i] = open[i] + forgiven[i]
    BY <1>5
  <2>3. SumFunction(sold) = SumFunction(settled) + SumFunction(on)
    BY <1>3, <1>8, <2>1, SumPlus
  <2>4. SumFunction(settled) = SumFunction(open) + SumFunction(forgiven)
    BY <1>3, <1>8, <2>2, SumPlus
  <2>5. /\ SumFunction(open) \in Int /\ SumFunction(on) \in Int
        /\ SumFunction(forgiven) \in Int
    BY <1>3, <1>8, SumInt
  <2> QED BY <2>3, <2>4, <2>5
<1>12. /\ SumFunction(cash) = SumFunction(of) + SumFunction(stranded)
       /\ SumFunction(of) \in Int /\ SumFunction(stranded) \in Int
  BY <1>3, <1>6, <1>9, SumPlus, SumInt
<1>13. SumFunction(memos) = 0
  BY <1>3, <1>7, <1>10, SumZero
<1>15. ReceivablesAccount = OpenReceivables - StrandedApplications + SumFunction(forgiven)
  BY <1>1, <1>4, <1>11, <1>12, <1>13
<1> QED BY <1>14, <1>15 DEF forgiven

\* Until a credit note reduces receivables, ledger and subledger differ by
\* the applied advances of reversed collections and by nothing else, to the
\* tolerance on each paid invoice.
THEOREM DriftIsStranded == Spec => []DriftIsStrandedApplications
<1>1. TypeOK /\ InvoicesInv /\ CollectionsInv /\ ReturnsInv /\ OpenInv
        => DriftIsStrandedApplications
  BY DriftOfInvariants
<1> QED BY <1>1, TypeCorrect, InvoicesInvariant, CollectionsInvariant,
           ReturnsInvariant, OpenInvariant, PTL
=============================================================================

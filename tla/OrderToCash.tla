----------------------------- MODULE OrderToCash -----------------------------
(***************************************************************************)
(* The money of the order-to-cash cycle: customer invoices, collections    *)
(* and their allocations, sales returns with their credit notes, and the   *)
(* journals each of them posts (services/order-to-cash, lib/order-to-cash).*)
(*                                                                         *)
(* One action is one committed transaction of the services: everything a   *)
(* handler writes happens in its step, and a handler that throws rolls     *)
(* back, so a refused call is no step.  Transactions that overlap are left *)
(* out: keys, versions and row locks are the subject of TransitionExecutor *)
(* and of ZatcaChain.                                                      *)
(*                                                                         *)
(* Money is counted in halalas, so the 0.01 tolerances of the code are Tol *)
(* units (0 or 1).  An invoice has one line of unit price 1: a returned    *)
(* quantity is also its value.                                             *)
(***************************************************************************)
EXTENDS Integers, FiniteSets, Functions

CONSTANTS Invoices, Payments, Returns,   \* ids of the documents
          Customers, NoCustomer,         \* a walk-in invoice has no customer
          NoInvoice,                     \* original of a return not yet made
          Amounts,                       \* amounts a client may ask for
          RefundMethods,                 \* subset of AllRefundMethods
          Tol                            \* the 0.01 of the comparisons

AllRefundMethods == {"ar_reduction", "cash", "customer_deposit"}

ASSUME DocumentsAssumption ==
  /\ IsFiniteSet(Invoices) /\ IsFiniteSet(Payments) /\ IsFiniteSet(Returns)
  /\ NoCustomer \notin Customers /\ NoInvoice \notin Invoices
ASSUME AmountsAssumption ==
  /\ Amounts \subseteq Nat \ {0}
  /\ Tol \in {0, 1}
  /\ RefundMethods \subseteq AllRefundMethods

VARIABLES invoice,      \* ar_documents of type invoice
          payment,      \* customer_payments
          live,         \* ar_payment_allocations with reversed = 0
          salesReturn,  \* sales_returns, each with its credit note
          journal,      \* gl_journals, by reference_type and reference_id
          stock         \* warehouse_stock.qty of the one item, relative

vars == <<invoice, payment, live, salesReturn, journal, stock>>

-----------------------------------------------------------------------------
(* Status tables (lib/order-to-cash/stateMachine.js).  "none" is a row that *)
(* does not exist yet.                                                      *)

InvoiceStatuses == {"none", "draft", "issued", "partially_paid", "paid",
                    "credited", "cancelled"}
PaymentStatuses == {"none", "draft", "approved", "posted", "reversed",
                    "cancelled"}
ReturnStatuses  == PaymentStatuses

\* The only reference types whose journals move receivables, deposits,
\* cash or inventory after the sale itself.
JournalRefs ==
  ({"CustomerInvoice"} \X Invoices)
    \cup ({"CustomerPayment", "CustomerAdvance", "CustomerAdvanceApplication"}
            \X Payments)
    \cup ({"SalesReturn", "SalesReturnCOGS"} \X Returns)

InvoiceRows ==
  [status: InvoiceStatuses, customer: Customers \cup {NoCustomer},
   total: Nat, paid: Int, balance: Nat]
PaymentRows ==
  [status: PaymentStatuses, customer: Customers \cup {NoCustomer},
   amount: Nat, allocated: Nat, unapplied: Int,
   journalId: {"none", "CustomerPayment", "CustomerAdvance"}]
ReturnRows ==
  [status: ReturnStatuses, original: Invoices \cup {NoInvoice}, total: Nat,
   method: AllRefundMethods, restock: BOOLEAN]
JournalRows == [amount: Nat, reversals: Nat]

\* One type invariant for the module.
TypeOK ==
  /\ invoice \in [Invoices -> InvoiceRows]
  /\ payment \in [Payments -> PaymentRows]
  /\ live \in [Payments -> [Invoices -> Nat]]
  /\ salesReturn \in [Returns -> ReturnRows]
  /\ journal \in [JournalRefs -> JournalRows]
  /\ stock \in Int

-----------------------------------------------------------------------------
(* Allocation arithmetic (PaymentAllocationService).                        *)

\* lockedAllocatedSum: live allocations on an invoice.
AllocatedOn(l, i) == SumFunction([p \in Payments |-> l[p][i]])

\* The per-payment SUM of applyAllocations.
AllocatedOf(l, p) == SumFunction(l[p])

AtMost(m, n) == IF n < m THEN n ELSE m

\* Math.max(0, n)
AtLeastZero(n) == IF n < 0 THEN 0 ELSE n

\* Slip: the balance left as it was.
Bug_PaidWithoutBalance(row, paid) ==
  [row EXCEPT !.paid = paid,
              !.status = IF row.total - paid <= Tol THEN "paid"
                         ELSE IF paid > Tol THEN "partially_paid"
                         ELSE "issued"]

\* recomputeInvoice: paid, balance and status follow the live allocations;
\* a credited, cancelled or draft invoice keeps its status.
Recomputed(row, paid) ==
  LET balance == row.total - paid
  IN  [row EXCEPT
         !.paid = paid,
         !.balance = AtLeastZero(balance),
         !.status = IF @ \in {"cancelled", "credited", "draft"} THEN @
                    ELSE IF balance <= Tol THEN "paid"
                    ELSE IF paid > Tol THEN "partially_paid"
                    ELSE "issued"]

\* The invoice table after the allocation rows became l, where the
\* transaction recomputes the invoices of `touched` only.
RecomputedInvoices(l, touched) ==
  [i \in Invoices |-> IF i \in touched
                      THEN Recomputed(invoice[i], AllocatedOn(l, i))
                      ELSE invoice[i]]

\* A request's allocations: an amount per invoice, 0 for the unnamed ones.
AllocationRequests == [Invoices -> {0} \cup Amounts]
Named(a) == {i \in Invoices : a[i] > 0}
WithAllocations(l, p, a) ==
  [l EXCEPT ![p] = [i \in Invoices |-> l[p][i] + a[i]]]

\* Slip: the cap on the total instead of what is outstanding.
Bug_CapOnTotal(p, i, amount) ==
  /\ invoice[i].status \notin {"none", "draft", "cancelled"}
  /\ invoice[i].customer \in {payment[p].customer, NoCustomer}
  /\ amount <= invoice[i].total + Tol

\* What applyAllocations requires of one named invoice.
Allocatable(p, i, amount) ==
  /\ invoice[i].status \notin {"none", "draft", "cancelled"}
  /\ invoice[i].customer \in {payment[p].customer, NoCustomer}
  /\ amount <= invoice[i].total - AllocatedOn(live, i) + Tol

CanAllocate(p, a) ==
  /\ \A i \in Named(a) : Allocatable(p, i, a[i])
  /\ AllocatedOf(WithAllocations(live, p, a), p) <= payment[p].amount + Tol

-----------------------------------------------------------------------------
(* Journals (lib/order-to-cash/posting.js).                                 *)

\* _post of a journal of some reference; a zero amount posts nothing.
Post(j, ref, amount) == [j EXCEPT ![ref].amount = @ + amount]

\* postReversal: a swapped clone, linked to the journal it reverses.
PostReversal(j, ref) == [j EXCEPT ![ref].reversals = @ + 1]

Posted(j, ref) == j[ref].amount > 0

\* What a journal and its reversals add up to.
Net(j, ref) == j[ref].amount * (1 - j[ref].reversals)

NewJournal == [amount |-> 0, reversals |-> 0]
-----------------------------------------------------------------------------
Init ==
  /\ invoice = [i \in Invoices |->
       [status |-> "none", customer |-> NoCustomer, total |-> 0,
        paid |-> 0, balance |-> 0]]
  /\ payment = [p \in Payments |->
       [status |-> "none", customer |-> NoCustomer, amount |-> 0,
        allocated |-> 0, unapplied |-> 0, journalId |-> "none"]]
  /\ live = [p \in Payments |-> [i \in Invoices |-> 0]]
  /\ salesReturn = [r \in Returns |->
       [status |-> "none", original |-> NoInvoice, total |-> 0,
        method |-> "ar_reduction", restock |-> FALSE]]
  /\ journal = [ref \in JournalRefs |-> NewJournal]
  /\ stock = 0

-----------------------------------------------------------------------------
(* Invoices (InvoiceService).                                               *)

\* createDraft: the draft already carries its total as balance.
CreateDraft(i, customer, total) ==
  /\ invoice[i].status = "none"
  /\ invoice' = [invoice EXCEPT ![i] =
       [status |-> "draft", customer |-> customer, total |-> total,
        paid |-> 0, balance |-> total]]
  /\ UNCHANGED <<payment, live, salesReturn, journal, stock>>

\* issue: Dr AR for the whole total; the balance starts at the total.
IssueInvoice(i) ==
  /\ invoice[i].status = "draft"
  /\ invoice' = [invoice EXCEPT ![i].status = "issued",
                                ![i].balance = invoice[i].total,
                                ![i].paid = 0]
  /\ journal' = Post(journal, <<"CustomerInvoice", i>>, invoice[i].total)
  /\ UNCHANGED <<payment, live, salesReturn, stock>>

\* cancel is a transition of a draft only.
CancelInvoice(i) ==
  /\ invoice[i].status = "draft"
  /\ invoice' = [invoice EXCEPT ![i].status = "cancelled"]
  /\ UNCHANGED <<payment, live, salesReturn, journal, stock>>

-----------------------------------------------------------------------------
(* Collections (CustomerPaymentService).                                    *)

CreatePayment(p, customer, amount) ==
  /\ payment[p].status = "none"
  /\ payment' = [payment EXCEPT ![p] =
       [status |-> "draft", customer |-> customer, amount |-> amount,
        allocated |-> 0, unapplied |-> amount, journalId |-> "none"]]
  /\ UNCHANGED <<invoice, live, salesReturn, journal, stock>>

ApprovePayment(p) ==
  /\ payment[p].status = "draft"
  /\ payment' = [payment EXCEPT ![p].status = "approved"]
  /\ UNCHANGED <<invoice, live, salesReturn, journal, stock>>

CancelPayment(p) ==
  /\ payment[p].status \in {"draft", "approved"}
  /\ payment' = [payment EXCEPT ![p].status = "cancelled"]
  /\ UNCHANGED <<invoice, live, salesReturn, journal, stock>>

\* Slip: the advance journal for the whole receipt.
Bug_AdvanceForAll(p, allocated, unapplied) ==
  Post(Post(journal, <<"CustomerPayment", p>>, allocated),
       <<"CustomerAdvance", p>>, payment[p].amount)

\* The journals of a post: Dr Cash / Cr AR for what is allocated, and
\* Dr Cash / Cr Deposits for the rest.
ReceiptJournals(p, allocated, unapplied) ==
  Post(Post(journal, <<"CustomerPayment", p>>, allocated),
       <<"CustomerAdvance", p>>, AtLeastZero(unapplied))

\* post: allocations and journals in one transaction; journal_id remembers
\* the first journal.
PostPayment(p, a) ==
  LET allocated == SumFunction(a)
      unapplied == payment[p].amount - allocated
  IN  /\ payment[p].status = "approved"
      /\ CanAllocate(p, a)
      /\ live' = WithAllocations(live, p, a)
      /\ invoice' = RecomputedInvoices(live', Named(a))
      /\ journal' = ReceiptJournals(p, allocated, unapplied)
      /\ payment' = [payment EXCEPT
           ![p].status = "posted",
           ![p].allocated = allocated,
           ![p].unapplied = unapplied,
           ![p].journalId = IF allocated > 0 THEN "CustomerPayment"
                            ELSE "CustomerAdvance"]
      /\ UNCHANGED <<salesReturn, stock>>

\* Slip: what is left computed from the amount received.
Bug_LeftOfAmount(row, want) ==
  [row EXCEPT !.allocated = @ + want, !.unapplied = row.amount - want]

\* The columns allocateAdvance writes on the collection.
Applied(row, want) ==
  [row EXCEPT !.allocated = @ + want, !.unapplied = @ - want]

\* allocateAdvance: Dr Deposits / Cr AR for what is applied now.
AllocateAdvance(p, a) ==
  LET want == SumFunction(a)
  IN  /\ payment[p].status = "posted"
      /\ want > 0
      /\ want <= payment[p].unapplied + Tol
      /\ CanAllocate(p, a)
      /\ live' = WithAllocations(live, p, a)
      /\ invoice' = RecomputedInvoices(live', Named(a))
      /\ journal' = Post(journal, <<"CustomerAdvanceApplication", p>>, want)
      /\ payment' = [payment EXCEPT ![p] = Applied(@, want)]
      /\ UNCHANGED <<salesReturn, stock>>

\* Slip: the allocations are reversed and no invoice is recomputed.
Bug_RecomputeNone(p) == {}

\* The invoices reverseAllocations recomputes.
ToRecompute(p) == Named(live[p])

\* reverse: every live allocation, the journal of journal_id, and the
\* advance journal if there is one.
ReversePayment(p) ==
  LET first == <<payment[p].journalId, p>>
      advance == <<"CustomerAdvance", p>>
      reversed == PostReversal(journal, first)
  IN  /\ payment[p].status = "posted"
      /\ live' = [live EXCEPT ![p] = [i \in Invoices |-> 0]]
      /\ invoice' = RecomputedInvoices(live', ToRecompute(p))
      /\ journal' = IF Posted(journal, advance)
                    THEN PostReversal(reversed, advance)
                    ELSE reversed
      /\ payment' = [payment EXCEPT ![p].status = "reversed"]
      /\ UNCHANGED <<salesReturn, stock>>

-----------------------------------------------------------------------------
(* Sales returns (SalesReturnService).                                      *)

\* Quantity of an invoice held by returns that are neither cancelled nor
\* reversed, drafts included.
ReturnedOn(i) ==
  SumFunction([r \in Returns |->
    IF salesReturn[r].original = i
       /\ salesReturn[r].status \notin {"none", "cancelled", "reversed"}
    THEN salesReturn[r].total ELSE 0])

\* Slip: each return compared with the sale alone.
Bug_EachReturnAlone(i, quantity) == quantity <= invoice[i].total

\* OVER_RETURN: the returned quantity fits in what is left of the line.
Returnable(i, quantity) == quantity <= invoice[i].total - ReturnedOn(i)

CreateReturn(r, i, quantity, method, restock) ==
  /\ salesReturn[r].status = "none"
  /\ invoice[i].status # "none"
  /\ Returnable(i, quantity)
  /\ salesReturn' = [salesReturn EXCEPT ![r] =
       [status |-> "draft", original |-> i, total |-> quantity,
        method |-> method, restock |-> restock]]
  /\ UNCHANGED <<invoice, payment, live, journal, stock>>

ApproveReturn(r) ==
  /\ salesReturn[r].status = "draft"
  /\ salesReturn' = [salesReturn EXCEPT ![r].status = "approved"]
  /\ UNCHANGED <<invoice, payment, live, journal, stock>>

CancelReturn(r) ==
  /\ salesReturn[r].status \in {"draft", "approved"}
  /\ salesReturn' = [salesReturn EXCEPT ![r].status = "cancelled"]
  /\ UNCHANGED <<invoice, payment, live, journal, stock>>

\* Step 7 of post: the credit memo settles the original invoice, at most up
\* to its balance.
Credited(row, memo) ==
  LET applied == AtMost(row.balance, memo)
      paid    == row.paid + applied
      balance == row.total - paid
  IN  [row EXCEPT
         !.paid = paid,
         !.balance = AtLeastZero(balance),
         !.status = IF balance > Tol THEN "partially_paid"
                    ELSE IF applied >= row.balance /\ row.balance > 0
                    THEN "credited" ELSE "paid"]

\* post: the credit note's journal refunds the whole total, the cost goes
\* back to inventory for restocked lines, and an AR reduction adjusts the
\* original invoice.
PostReturn(r) ==
  LET ret   == salesReturn[r]
      i     == ret.original
      sales == Post(journal, <<"SalesReturn", r>>, ret.total)
  IN  /\ ret.status = "approved"
      /\ salesReturn' = [salesReturn EXCEPT ![r].status = "posted"]
      /\ invoice' = IF /\ ret.method = "ar_reduction"
                       /\ invoice[i].status \notin {"cancelled", "draft"}
                    THEN [invoice EXCEPT ![i] = Credited(@, ret.total)]
                    ELSE invoice
      /\ IF ret.restock
         THEN /\ journal' = Post(sales, <<"SalesReturnCOGS", r>>, ret.total)
              /\ stock' = stock + ret.total
         ELSE journal' = sales /\ UNCHANGED stock
      /\ UNCHANGED <<payment, live>>

\* Slip: sales_returns remembers one journal, so one journal is reversed.
Bug_SalesJournalOnly(r) == PostReversal(journal, <<"SalesReturn", r>>)

\* The sales journal, and every COGS journal not reversed yet.
ReturnReversalJournals(r) ==
  LET cogs  == <<"SalesReturnCOGS", r>>
      sales == PostReversal(journal, <<"SalesReturn", r>>)
  IN  IF Posted(journal, cogs) /\ journal[cogs].reversals = 0
      THEN PostReversal(sales, cogs) ELSE sales

\* reverse: the journals, and the stock the post put back.  The original
\* invoice is left as it is.
ReverseReturn(r) ==
  LET ret == salesReturn[r]
  IN  /\ ret.status = "posted"
      /\ salesReturn' = [salesReturn EXCEPT ![r].status = "reversed"]
      /\ journal' = ReturnReversalJournals(r)
      /\ stock' = IF ret.restock THEN stock - ret.total ELSE stock
      /\ UNCHANGED <<invoice, payment, live>>

-----------------------------------------------------------------------------
InvoiceStep ==
  \E i \in Invoices :
    \/ \E c \in Customers \cup {NoCustomer}, n \in Amounts : CreateDraft(i, c, n)
    \/ IssueInvoice(i)
    \/ CancelInvoice(i)

PaymentStep ==
  \E p \in Payments :
    \/ \E c \in Customers, n \in Amounts : CreatePayment(p, c, n)
    \/ ApprovePayment(p)
    \/ CancelPayment(p)
    \/ \E a \in AllocationRequests : PostPayment(p, a) \/ AllocateAdvance(p, a)
    \/ ReversePayment(p)

ReturnStep ==
  \E r \in Returns :
    \/ \E i \in Invoices, q \in Amounts, m \in RefundMethods, b \in BOOLEAN :
         CreateReturn(r, i, q, m, b)
    \/ ApproveReturn(r)
    \/ CancelReturn(r)
    \/ PostReturn(r)
    \/ ReverseReturn(r)

Next == InvoiceStep \/ PaymentStep \/ ReturnStep

Spec == Init /\ [][Next]_vars

-----------------------------------------------------------------------------
(* What the documents promise each other.                                   *)

\* No invoice ever carries live allocations beyond its total, whatever
\* posts, later applications of advances and reversals came before
\* (PaymentAllocationService guards each invoice separately).
NoOverAllocation ==
  \A i \in Invoices : AllocatedOn(live, i) <= invoice[i].total + Tol

\* The three records of a collection agree: the allocation rows, the two
\* amount columns and the amount received.  Nothing is allocated before
\* posting or left allocated after a reversal.
PaymentWithinAmount ==
  \A p \in Payments :
    IF payment[p].status = "posted"
    THEN /\ AllocatedOf(live, p) = payment[p].allocated
         /\ payment[p].allocated + payment[p].unapplied = payment[p].amount
         /\ payment[p].unapplied >= -Tol
    ELSE AllocatedOf(live, p) = 0

\* The balance an invoice shows is what is left of its total, through
\* issue, allocations, reversals and credit memos (invoice_consistency and
\* no_negative_balance of O2CReconciliationService).
InvoiceConsistency ==
  \A i \in Invoices :
    invoice[i].status \notin {"none", "cancelled"} =>
      /\ invoice[i].balance - (invoice[i].total - invoice[i].paid) \in 0..Tol
      /\ invoice[i].balance >= 0

\* Drafts, approvals and posts of returns never promise back more than was
\* sold, when returns are created one at a time.
NoOverReturn ==
  \A i \in Invoices : ReturnedOn(i) <= invoice[i].total

\* The ledger holds of a posted collection what its row says: receivables
\* went down by the allocated part and the deposit liability is the part
\* not applied yet, however often the advance was applied since.
LedgerTiesToPayment ==
  \A p \in Payments :
    payment[p].status = "posted" =>
      LET application == journal[<<"CustomerAdvanceApplication", p>>].amount
      IN  /\ Net(journal, <<"CustomerPayment", p>>) + application
               = payment[p].allocated
          /\ Net(journal, <<"CustomerAdvance", p>>) - application
               - payment[p].unapplied \in 0..Tol

\* Goods and value move together: the stock that returns put back is the
\* value their COGS journals put back, also after reversals.
RestockTiesToLedger ==
  stock = SumFunction([r \in Returns |-> Net(journal, <<"SalesReturnCOGS", r>>)])

-----------------------------------------------------------------------------
(* The subledger against the ledger (O2CReconciliationService, check 8).    *)

\* Open receivables: balances of issued and partially paid invoices.
OpenReceivables ==
  SumFunction([i \in Invoices |->
    IF invoice[i].status \in {"issued", "partially_paid"}
    THEN invoice[i].balance ELSE 0])

\* The receivables account: invoices, less collections and applied
\* advances, less credit notes that refund by AR reduction.
ReceivablesAccount ==
  SumFunction([i \in Invoices |-> Net(journal, <<"CustomerInvoice", i>>)])
  - SumFunction([p \in Payments |->
      Net(journal, <<"CustomerPayment", p>>)
        + Net(journal, <<"CustomerAdvanceApplication", p>>)])
  - SumFunction([r \in Returns |->
      IF salesReturn[r].method = "ar_reduction"
      THEN Net(journal, <<"SalesReturn", r>>) ELSE 0])

\* Applied advances of collections that were reversed afterwards: reverse
\* never reverses a CustomerAdvanceApplication journal.
StrandedApplications ==
  SumFunction([p \in Payments |->
    IF payment[p].status = "reversed"
    THEN journal[<<"CustomerAdvanceApplication", p>>].amount ELSE 0])

\* What the tolerance forgives: a paid invoice is no longer open, but may be
\* allocated a halala more or less than its total.
Forgiven(i) ==
  IF invoice[i].status = "paid" THEN invoice[i].total - AllocatedOn(live, i) ELSE 0

\* Until a credit note reduces receivables, stranded applications are the
\* whole difference between ledger and subledger, which are to agree on a
\* database of O2C data (docs/ORDER_TO_CASH_RECONCILIATION_AR.md:18), but for
\* a tolerance on each paid invoice.
DriftIsStrandedApplications ==
  (\A r \in Returns : salesReturn[r].status \in {"posted", "reversed"}
                       => salesReturn[r].method # "ar_reduction")
  => /\ ReceivablesAccount = OpenReceivables - StrandedApplications
                               + SumFunction([i \in Invoices |-> Forgiven(i)])
     /\ \A i \in Invoices : Forgiven(i) \in -Tol..Tol
=============================================================================

---------------------------- MODULE PurchaseToPay ----------------------------
(***************************************************************************)
(* Purchase to pay after the order is placed: receipts with their import   *)
(* charges, supplier invoices matched to receipt lines, their approval and *)
(* credit notes, and the supplier payments allocated to them               *)
(* (routes/procurement, lib/procurement/matching.js).                      *)
(*                                                                         *)
(* A transition is one transaction.  With an Idempotency-Key its first     *)
(* statement is a plain SELECT, which fixes the snapshot that later plain  *)
(* reads see; reads FOR UPDATE see the latest rows.  A transition whose    *)
(* plain reads matter has two steps: Begin keeps what its snapshot shows,  *)
(* Commit locks, checks and writes.  The others are one step.              *)
(*                                                                         *)
(* Quantities are in base units with the over-receipt tolerance at its     *)
(* default of zero, money in units of 0.01.  The lines of a document on    *)
(* one receipt line are taken together.  Order headers, lots and stock     *)
(* values, VAT, variances and journals other than the one of an approved   *)
(* invoice are left out: a reversal of a receipt may fail where a lot has  *)
(* been used, which Abandon covers.                                        *)
(***************************************************************************)
EXTENDS Integers, FiniteSets, Functions

CONSTANTS Users,
          OrderLines, Ordered,           \* po_lines and their base_qty
          Receipts,
          Lines, ReceiptOf, OrderLineOf, Qty,  \* purchase_receipt_lines
          Charges, ChargedOn,            \* purchase_receipt_charges
          Invoices, NoInvoice, Total,    \* supplier_invoices
          Drafts,                        \* what an invoice may be made of
          Payments, Amount, Allocations  \* payment_records, and amounts asked for

ASSUME PurchaseAssumption ==
  /\ IsFiniteSet(Receipts) /\ IsFiniteSet(Lines)
  /\ IsFiniteSet(Invoices) /\ IsFiniteSet(Payments)
  /\ Ordered \in [OrderLines -> Nat]
  /\ ReceiptOf \in [Lines -> Receipts] /\ OrderLineOf \in [Lines -> OrderLines]
  /\ Qty \in [Lines -> Nat \ {0}]
  /\ ChargedOn \in [Charges -> Receipts]
  /\ NoInvoice \notin Invoices /\ Total \in [Invoices -> Nat \ {0}]
  /\ Drafts \subseteq [stock : BOOLEAN, lines : [Lines -> Nat], charges : SUBSET Charges]
  /\ Amount \in [Payments -> Nat \ {0}] /\ Allocations \subseteq Nat \ {0}

VARIABLES receipt,   \* purchase_receipts.status
          received,  \* po_lines.base_received_qty
          charge,    \* status and supplier_invoice_id of a charge
          invoiced,  \* purchase_receipt_lines.base_invoiced_qty
          invoice,   \* supplier_invoices with their lines
          match,     \* supplier_invoice_matches, by invoice and receipt line
          payment,   \* payment_records.status
          alloc,     \* payment_allocations, by payment and invoice
          tx         \* the transition a user has begun

receiptVars == <<receipt, received>>
invoiceVars == <<charge, invoiced, match>>
paymentVars == <<payment, alloc>>
vars == <<receiptVars, invoiceVars, invoice, paymentVars, tx>>

-----------------------------------------------------------------------------
(* Rows.  "none" is a row that does not exist yet.                          *)

ReceiptStatuses == {"none", "draft", "approved", "posted", "reversed", "cancelled"}
InvoiceStatuses == {"draft", "pending_review", "approved", "partially_paid",
                    "paid", "cancelled"}
PaymentStatuses == {"none", "requested", "authorized", "paid", "closed",
                    "reversed", "cancelled"}

NoRow       == [status |-> "none"]
Accrued     == [status |-> "accrued", by |-> NoInvoice]
ChargeRows  == [status : {"accrued", "invoiced"}, by : Invoices \cup {NoInvoice}]
\* The journal of an approved invoice, until its credit note reverses it.
InvoiceRows == [status : InvoiceStatuses, journal : {"none", "live", "reversed"},
                made : Drafts]
\* A reversed allocation keeps its amount; revived is history.
AllocRows   == [amount : Nat, live : BOOLEAN, revived : BOOLEAN]
NoAlloc     == [amount |-> 0, live |-> FALSE, revived |-> FALSE]

Idle == [op |-> "idle"]
Txs  == [op : {"create"}, doc : Invoices, made : Drafts]
          \cup [op : {"approve"}, doc : Invoices, refs : SUBSET Lines]
          \cup [op : {"unreceive"}, doc : Receipts]
          \cup [op : {"pay"}, doc : Payments, seen : [Invoices -> Nat]]
          \cup [op : {"unpay"}, doc : Payments, seen : SUBSET Invoices]

TypeOK ==
  /\ receipt \in [Receipts -> ReceiptStatuses]
  /\ received \in [OrderLines -> Nat]
  /\ charge \in [Charges -> ChargeRows \cup {NoRow}]
  /\ invoiced \in [Lines -> Nat]
  /\ invoice \in [Invoices -> InvoiceRows \cup {NoRow}]
  /\ match \in [Invoices -> [Lines -> Nat]]
  /\ payment \in [Payments -> PaymentStatuses]
  /\ alloc \in [Payments -> [Invoices -> AllocRows]]
  /\ tx \in [Users -> Txs \cup {Idle}]

Init ==
  /\ receipt = [r \in Receipts |-> "none"]
  /\ received = [o \in OrderLines |-> 0]
  /\ charge = [c \in Charges |-> NoRow]
  /\ invoiced = [l \in Lines |-> 0]
  /\ invoice = [i \in Invoices |-> NoRow]
  /\ match = [i \in Invoices |-> [l \in Lines |-> 0]]
  /\ payment = [p \in Payments |-> "none"]
  /\ alloc = [p \in Payments |-> [i \in Invoices |-> NoAlloc]]
  /\ tx = [u \in Users |-> Idle]

-----------------------------------------------------------------------------
(* Receipts.                                                                *)

LinesOf(r)   == {l \in Lines : ReceiptOf[l] = r}
ChargesOf(r) == {c \in Charges : ChargedOn[c] = r}

\* The charges of a receipt are replaced as a set.
Charged(r, C) == [c \in Charges |-> IF c \notin ChargesOf(r) THEN charge[c]
                                    ELSE IF c \in C THEN Accrued ELSE NoRow]

CreateReceipt(r, C) ==
  /\ receipt[r] = "none"
  /\ receipt' = [receipt EXCEPT ![r] = "draft"]
  /\ charge' = Charged(r, C)
  /\ UNCHANGED <<received, invoiced, match, invoice, paymentVars, tx>>

PutCharges(r, C) ==
  /\ receipt[r] \in {"draft", "approved"}
  /\ charge' = Charged(r, C)
  /\ UNCHANGED <<receiptVars, invoiced, match, invoice, paymentVars, tx>>

MoveReceipt(r) ==
  /\ \/ receipt[r] = "draft" /\ receipt' = [receipt EXCEPT ![r] = "approved"]
     \/ receipt[r] \in {"draft", "approved"} /\ receipt' = [receipt EXCEPT ![r] = "cancelled"]
  /\ UNCHANGED <<received, invoiceVars, invoice, paymentVars, tx>>

\* What a receipt brings to an order line.
Brought(r, o) ==
  SumFunction([l \in {k \in LinesOf(r) : OrderLineOf[k] = o} |-> Qty[l]])

\* Slip: the guard compares a line with what was ordered, not what is left.
Bug_FitsOrder(r) == \A o \in OrderLines : Brought(r, o) <= Ordered[o]

\* applyReceiptStock's guard, on the locked order lines.
FitsOrder(r) == \A o \in OrderLines : received[o] + Brought(r, o) <= Ordered[o]

PostReceipt(r) ==
  /\ receipt[r] = "approved" /\ FitsOrder(r)
  /\ receipt' = [receipt EXCEPT ![r] = "posted"]
  /\ received' = [o \in OrderLines |-> received[o] + Brought(r, o)]
  /\ UNCHANGED <<invoiceVars, invoice, paymentVars, tx>>

\* Both blocks, an invoiced line and an invoiced charge, are plain reads.
BeginUnreceive(u, r) ==
  /\ tx[u] = Idle /\ receipt[r] # "none"
  /\ \A l \in LinesOf(r) : invoiced[l] = 0
  /\ \A c \in ChargesOf(r) : charge[c].status # "invoiced"
  /\ tx' = [tx EXCEPT ![u] = [op |-> "unreceive", doc |-> r]]
  /\ UNCHANGED <<receiptVars, invoiceVars, invoice, paymentVars>>

Larger(a, b) == IF a > b THEN a ELSE b

CommitUnreceive(u) ==
  /\ tx[u].op = "unreceive" /\ receipt[tx[u].doc] = "posted"
  /\ receipt' = [receipt EXCEPT ![tx[u].doc] = "reversed"]
  /\ received' = [o \in OrderLines |-> Larger(0, received[o] - Brought(tx[u].doc, o))]
  /\ tx' = [tx EXCEPT ![u] = Idle]
  /\ UNCHANGED <<invoiceVars, invoice, paymentVars>>

-----------------------------------------------------------------------------
(* Supplier invoices.                                                       *)

Exists(i)   == invoice[i].status # "none"
Live(i)     == invoice[i].status \notin {"none", "cancelled"}
Claims(i)   == invoice[i].made.charges
Claimed(C, others) == \E j \in others : Live(j) /\ Claims(j) \cap C # {}

\* The locked half of _lockInvoiceableCharges: the charge and its receipt.
Invoiceable(C) ==
  \A c \in C : charge[c].status = "accrued" /\ receipt[ChargedOn[c]] = "posted"

\* The snapshot opens with the read of the supplier; whether another live
\* invoice names the charge is read from it, after the lock.
BeginCreate(u, i, d) ==
  /\ tx[u] = Idle /\ ~Exists(i) /\ d.charges # {}
  /\ ~Claimed(d.charges, Invoices \ {i})
  /\ tx' = [tx EXCEPT ![u] = [op |-> "create", doc |-> i, made |-> d]]
  /\ UNCHANGED <<receiptVars, invoiceVars, invoice, paymentVars>>

Draft(d) == [status |-> "draft", journal |-> "none", made |-> d]

CommitCreate(u) ==
  /\ tx[u].op = "create" /\ ~Exists(tx[u].doc)
  /\ Invoiceable(tx[u].made.charges)
  /\ invoice' = [invoice EXCEPT ![tx[u].doc] = Draft(tx[u].made)]
  /\ tx' = [tx EXCEPT ![u] = Idle]
  /\ UNCHANGED <<receiptVars, invoiceVars, paymentVars>>

\* Without charges nothing is vetted, and nothing read can be stale.
CreateInvoice(i, d) ==
  /\ ~Exists(i) /\ d.charges = {}
  /\ invoice' = [invoice EXCEPT ![i] = Draft(d)]
  /\ UNCHANGED <<receiptVars, invoiceVars, paymentVars, tx>>

\* Slip: only invoices already approved hold capacity.
Bug_Reserved(i, l) ==
  SumFunction([j \in Invoices |-> IF j # i /\ invoice[j].status = "approved"
                                  THEN match[j][l] ELSE 0])

\* What the other invoices hold of a receipt line.
Reserved(i, l) ==
  SumFunction([j \in Invoices |-> IF j # i THEN match[j][l] ELSE 0])

\* lockReceiptMatchPlan, then the invoice's matches are replaced.
Match(i) ==
  /\ invoice[i].status \in {"draft", "pending_review"}
  /\ LET want == invoice[i].made.lines
     IN /\ \A l \in Lines : want[l] > 0 => /\ receipt[ReceiptOf[l]] # "none"
                                           /\ Reserved(i, l) + want[l] <= Qty[l]
        /\ match' = [match EXCEPT ![i] = want]
  /\ UNCHANGED <<receiptVars, charge, invoiced, invoice, paymentVars, tx>>

Submit(i) ==
  /\ invoice[i].status = "draft"
  /\ invoice' = [invoice EXCEPT ![i].status = "pending_review"]
  /\ UNCHANGED <<receiptVars, invoiceVars, paymentVars, tx>>

\* Slip: cancelling leaves the reservations behind.
Bug_Cancel(i) ==
  /\ invoice[i].status \in {"draft", "pending_review"}
  /\ invoice' = [invoice EXCEPT ![i].status = "cancelled"]
  /\ UNCHANGED <<receiptVars, invoiceVars, paymentVars, tx>>

Unmatched(i) == [match EXCEPT ![i] = [l \in Lines |-> 0]]

Cancel(i) ==
  /\ invoice[i].status \in {"draft", "pending_review"}
  /\ invoice' = [invoice EXCEPT ![i].status = "cancelled"]
  /\ match' = Unmatched(i)
  /\ UNCHANGED <<receiptVars, charge, invoiced, paymentVars, tx>>

\* The receipt lines of the invoice's matches, and whether another live
\* invoice names its charges, come from the snapshot.
BeginApprove(u, i) ==
  /\ tx[u] = Idle /\ Exists(i)
  /\ ~Claimed(Claims(i), Invoices \ {i})
  /\ tx' = [tx EXCEPT ![u] = [op |-> "approve", doc |-> i,
                              refs |-> {l \in Lines : match[i][l] > 0}]]
  /\ UNCHANGED <<receiptVars, invoiceVars, invoice, paymentVars>>

\* applyApprovedReceiptQuantities looks again at every line it was told of.
MayConsume(i, refs) ==
  \A l \in refs : /\ match[i][l] > 0
                  /\ Reserved(i, l) + match[i][l] <= Qty[l]
                  /\ invoiced[l] + match[i][l] <= Qty[l]

\* Only a stock invoice consumes what it was matched to.
Consumed(i, refs) == IF invoice[i].made.stock THEN refs ELSE {}

CommitApprove(u) ==
  /\ tx[u].op = "approve"
  /\ LET i == tx[u].doc
         consumed == Consumed(i, tx[u].refs)
     IN /\ invoice[i].status = "pending_review"
        /\ Invoiceable(Claims(i))
        /\ MayConsume(i, consumed)
        /\ invoiced' = [l \in Lines |-> IF l \in consumed THEN invoiced[l] + match[i][l]
                                        ELSE invoiced[l]]
        /\ charge' = [c \in Charges |-> IF c \in Claims(i)
                        THEN [status |-> "invoiced", by |-> i] ELSE charge[c]]
        /\ invoice' = [invoice EXCEPT ![i].status = "approved", ![i].journal = "live"]
  /\ tx' = [tx EXCEPT ![u] = Idle]
  /\ UNCHANGED <<receiptVars, match, paymentVars>>

LiveAmount(p, i) == IF alloc[p][i].live THEN alloc[p][i].amount ELSE 0
Paid(i)          == SumFunction([p \in Payments |-> LiveAmount(p, i)])

\* releaseApprovedReceiptQuantities refuses to release more than is held.
Releasable(i) == \A l \in Lines : match[i][l] <= invoiced[l]
Released(i)   == [l \in Lines |-> invoiced[l] - match[i][l]]

\* Slip: the charges stay marked as invoiced.
Bug_Reopened(i) == charge

Reopened(i) ==
  [c \in Charges |-> IF charge[c].status = "invoiced" /\ charge[c].by = i
                     THEN Accrued ELSE charge[c]]

\* Slip: the receipt lines are not released.
Bug_CreditNote(i) ==
  /\ invoice[i].status \in {"approved", "partially_paid"} /\ Paid(i) = 0
  /\ charge' = Reopened(i)
  /\ match' = Unmatched(i)
  /\ invoice' = [invoice EXCEPT ![i].status = "cancelled",
                   ![i].journal = IF @ = "live" THEN "reversed" ELSE @]
  /\ UNCHANGED <<receiptVars, invoiced, paymentVars, tx>>

CreditNote(i) ==
  /\ invoice[i].status \in {"approved", "partially_paid"} /\ Paid(i) = 0
  /\ Releasable(i) /\ invoiced' = Released(i)
  /\ charge' = Reopened(i)
  /\ match' = Unmatched(i)
  /\ invoice' = [invoice EXCEPT ![i].status = "cancelled",
                   ![i].journal = IF @ = "live" THEN "reversed" ELSE @]
  /\ UNCHANGED <<receiptVars, paymentVars, tx>>

-----------------------------------------------------------------------------
(* Supplier payments.                                                       *)

MovePayment(p) ==
  /\ \/ payment[p] = "none" /\ payment' = [payment EXCEPT ![p] = "requested"]
     \/ payment[p] = "requested" /\ payment' = [payment EXCEPT ![p] = "authorized"]
     \/ payment[p] \in {"requested", "authorized"} /\ payment' = [payment EXCEPT ![p] = "cancelled"]
     \/ payment[p] = "paid" /\ payment' = [payment EXCEPT ![p] = "closed"]
  /\ UNCHANGED <<receiptVars, invoiceVars, invoice, alloc, tx>>

\* Slip: only allocations of payments that have been made count.
Bug_Outstanding(i) ==
  Total[i] - SumFunction([p \in Payments |->
               IF payment[p] \in {"paid", "closed"} THEN LiveAmount(p, i) ELSE 0])

\* _lockedAllocatedSum: the latest rows, under the lock of the invoice.
Outstanding(i) == Total[i] - Paid(i)

\* INSERT ... ON DUPLICATE KEY UPDATE: a reversed row comes back with its amount.
Grown(row, a) == [amount  |-> row.amount + a, live |-> TRUE,
                  revived |-> row.revived \/ (row.amount > 0 /\ ~row.live)]

\* _recomputeInvoice: the status follows the money, whatever it was before.
StatusFor(i, paid) ==
  IF invoice[i].status = "cancelled" THEN "cancelled"
  ELSE IF paid >= Total[i] THEN "paid"
  ELSE IF paid > 0 THEN "partially_paid" ELSE "approved"

\* _applyAllocations.  A gives the amount asked for, 0 for the other
\* invoices; seen is what a plain read shows of the payment's other rows.
Asks == [Invoices -> Allocations \cup {0}] \ {[i \in Invoices |-> 0]}

Allocate(p, A, seen) ==
  LET asked == {i \in Invoices : A[i] > 0}
      row   == [i \in Invoices |-> IF i \in asked THEN Grown(alloc[p][i], A[i])
                                                  ELSE alloc[p][i]]
  IN /\ \A i \in asked : Exists(i) /\ A[i] <= Outstanding(i)
     /\ SumFunction([i \in Invoices |-> IF i \in asked THEN row[i].amount ELSE seen[i]])
          <= Amount[p]
     /\ alloc' = [alloc EXCEPT ![p] = row]
     /\ invoice' = [i \in Invoices |-> IF i \in asked
          THEN [invoice[i] EXCEPT !.status = StatusFor(i, Paid(i) - LiveAmount(p, i) + row[i].amount)]
          ELSE invoice[i]]

SeenNow(p) == [i \in Invoices |-> LiveAmount(p, i)]

\* POST /:id/allocations, on a payment of any status.
AddAllocation(p, A) ==
  /\ payment[p] # "none"
  /\ Allocate(p, A, SeenNow(p))
  /\ UNCHANGED <<receiptVars, invoiceVars, payment, tx>>

BeginPay(u, p) ==
  /\ tx[u] = Idle /\ payment[p] # "none"
  /\ tx' = [tx EXCEPT ![u] = [op |-> "pay", doc |-> p, seen |-> SeenNow(p)]]
  /\ UNCHANGED <<receiptVars, invoiceVars, invoice, paymentVars>>

CommitPay(u, A) ==
  /\ tx[u].op = "pay" /\ payment[tx[u].doc] = "authorized"
  /\ Allocate(tx[u].doc, A, tx[u].seen)
  /\ payment' = [payment EXCEPT ![tx[u].doc] = "paid"]
  /\ tx' = [tx EXCEPT ![u] = Idle]
  /\ UNCHANGED <<receiptVars, invoiceVars>>

\* The invoices to recompute come from the snapshot; every row is reversed.
BeginUnpay(u, p) ==
  /\ tx[u] = Idle /\ payment[p] # "none"
  /\ tx' = [tx EXCEPT ![u] = [op |-> "unpay", doc |-> p,
                              seen |-> {i \in Invoices : alloc[p][i].live}]]
  /\ UNCHANGED <<receiptVars, invoiceVars, invoice, paymentVars>>

CommitUnpay(u) ==
  /\ tx[u].op = "unpay"
  /\ LET p == tx[u].doc
     IN /\ payment[p] \in {"paid", "closed"}
        /\ payment' = [payment EXCEPT ![p] = "reversed"]
        /\ alloc' = [alloc EXCEPT ![p] = [i \in Invoices |-> [alloc[p][i] EXCEPT !.live = FALSE]]]
        /\ invoice' = [i \in Invoices |-> IF i \in tx[u].seen
             THEN [invoice[i] EXCEPT !.status = StatusFor(i, Paid(i) - LiveAmount(p, i))]
             ELSE invoice[i]]
  /\ tx' = [tx EXCEPT ![u] = Idle]
  /\ UNCHANGED <<receiptVars, invoiceVars>>

\* A refused check, a deadlock, a lost connection: the transaction rolls back.
Abandon(u) ==
  /\ tx[u] # Idle
  /\ tx' = [tx EXCEPT ![u] = Idle]
  /\ UNCHANGED <<receiptVars, invoiceVars, invoice, paymentVars>>

-----------------------------------------------------------------------------
ReceiptStep ==
  \/ \E r \in Receipts : \/ \E C \in SUBSET ChargesOf(r) : CreateReceipt(r, C) \/ PutCharges(r, C)
                         \/ MoveReceipt(r) \/ PostReceipt(r)
                         \/ \E u \in Users : BeginUnreceive(u, r)
  \/ \E u \in Users : CommitUnreceive(u)

InvoiceStep ==
  \/ \E i \in Invoices, d \in Drafts : CreateInvoice(i, d) \/ \E u \in Users : BeginCreate(u, i, d)
  \/ \E i \in Invoices : \/ Match(i) \/ Submit(i) \/ Cancel(i) \/ CreditNote(i)
                         \/ \E u \in Users : BeginApprove(u, i)
  \/ \E u \in Users : CommitCreate(u) \/ CommitApprove(u)

PaymentStep ==
  \/ \E p \in Payments : \/ MovePayment(p)
                         \/ \E A \in Asks : AddAllocation(p, A)
                         \/ \E u \in Users : BeginPay(u, p) \/ BeginUnpay(u, p)
  \/ \E u \in Users : CommitUnpay(u) \/ \E A \in Asks : CommitPay(u, A)

Next == ReceiptStep \/ InvoiceStep \/ PaymentStep \/ \E u \in Users : Abandon(u)

Spec == Init /\ [][Next]_vars

-----------------------------------------------------------------------------
(* Properties.                                                              *)

\* Whatever invoices are drafted, matched, cancelled and credited at once,
\* they never hold more of a receipt line than was received on it
\* (matching.js, "proves capacity across ALL other invoice matches").
CapacityHolds ==
  \A l \in Lines : SumFunction([i \in Invoices |-> match[i][l]]) <= Qty[l]

\* What an order line counts as received is what its posted receipts brought,
\* reversals with stale reads included, and never more than was ordered.
NeverOverReceived ==
  \A o \in OrderLines :
    /\ received[o] = SumFunction([r \in Receipts |->
                       IF receipt[r] = "posted" THEN Brought(r, o) ELSE 0])
    /\ received[o] <= Ordered[o]

OnTheBooks(i) == Exists(i) /\ invoice[i].journal = "live"

\* A receipt line is never counted as invoiced beyond the matches of the
\* stock invoices on the books, so that once all of them are credited its
\* receipt can be reversed again.
InvoicedIsMatched ==
  \A l \in Lines :
    invoiced[l] <= SumFunction([i \in Invoices |->
      IF OnTheBooks(i) /\ invoice[i].made.stock THEN match[i][l] ELSE 0])

\* The accrual of an import charge is cleared by exactly one journal while it
\* says invoiced, the one of the invoice it names, and by none otherwise,
\* though two drafts may come to name the same charge
\* (invoices.js, "two invoices clearing one accrual would debit GRNI twice").
ClearedOnce ==
  \A c \in Charges :
    {i \in Invoices : OnTheBooks(i) /\ c \in Claims(i)}
      = IF charge[c].status = "invoiced" THEN {charge[c].by} ELSE {}

\* A cancelled invoice leaves nothing behind: no capacity held, no journal on
\* the books, no charge marked as its own.
CancelledIsClean ==
  \A i \in Invoices : invoice[i].status = "cancelled" =>
    /\ \A l \in Lines : match[i][l] = 0
    /\ ~OnTheBooks(i)
    /\ \A c \in Charges : charge[c].status = "invoiced" => charge[c].by # i

\* Payments made at once never allocate more to an invoice than its total,
\* except by bringing a reversed allocation back with its old amount.
OnlyRevivalOverpays ==
  \A i \in Invoices :
    Paid(i) > Total[i] => \E p \in Payments : alloc[p][i].revived

\* The matches an invoice was approved on stand as long as its journal does.
EvidenceStands ==
  [][\A i \in Invoices :
       OnTheBooks(i) => match'[i] = match[i] \/ invoice'[i].journal = "reversed"]_vars
=============================================================================

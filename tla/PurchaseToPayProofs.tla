------------------------ MODULE PurchaseToPayProofs ------------------------
(***************************************************************************)
(* For any receipts, invoices, payments and users: what the lines of a     *)
(* receipt can be invoiced for, what an order line counts as received, who *)
(* clears an import charge, and what is paid on an invoice.                *)
(*                                                                         *)
(* The inductive invariant adds that money is only ever allocated to an    *)
(* invoice that exists, that an invoice on the books has been approved,    *)
(* that a cancelled one holds nothing, and that the receipt of an invoiced *)
(* charge has been posted.                                                 *)
(***************************************************************************)
EXTENDS PurchaseToPay, SumTheorems

\* Money is allocated to invoices that exist, and so is what a transition
\* remembers of it.
AllocatedExists ==
  /\ \A p \in Payments, i \in Invoices : alloc[p][i].live => Exists(i)
  /\ \A u \in Users : tx[u].op = "unpay" => \A i \in tx[u].seen : Exists(i)

TypeInv == TypeOK /\ AllocatedExists

-----------------------------------------------------------------------------
(* Sums and rows.                                                           *)

LEMMA BroughtNat ==
  ASSUME NEW r \in Receipts, NEW o \in OrderLines
  PROVE  Brought(r, o) \in Nat
<1> DEFINE S == {k \in LinesOf(r) : OrderLineOf[k] = o}
           f == [l \in S |-> Qty[l]]
<1>1. S \subseteq Lines
  BY DEF LinesOf
<1>2. IsFiniteSet(S)
  BY <1>1, PurchaseAssumption, FS_Subset
<1>3. f \in [S -> Nat]
  BY <1>1, PurchaseAssumption
<1>4. SumFunction(f) \in Nat
  <2> HIDE DEF f, S
  <2> QED BY <1>2, <1>3, SumNat
<1> QED BY <1>4 DEF Brought

LEMMA ReservedNat ==
  ASSUME TypeOK, NEW i \in Invoices, NEW l \in Lines
  PROVE  Reserved(i, l) \in Nat
<1> DEFINE f == [j \in Invoices |-> IF j # i THEN match[j][l] ELSE 0]
<1>1. f \in [Invoices -> Nat]
  BY DEF TypeOK
<1>2. SumFunction(f) \in Nat
  <2> HIDE DEF f
  <2> QED BY <1>1, PurchaseAssumption, SumNat
<1> QED BY <1>2 DEF Reserved

LEMMA LiveAmountNat ==
  ASSUME TypeOK, NEW p \in Payments, NEW i \in Invoices
  PROVE  LiveAmount(p, i) \in Nat
<1>1. alloc[p][i] \in AllocRows
  BY DEF TypeOK
<1> QED BY <1>1 DEF LiveAmount, AllocRows

LEMMA InvoiceRow ==
  ASSUME TypeOK, NEW i \in Invoices, Exists(i)
  PROVE  /\ invoice[i] \in InvoiceRows
         /\ invoice[i].made \in Drafts
         /\ invoice[i].made.lines \in [Lines -> Nat]
         /\ invoice[i].made.charges \subseteq Charges
         /\ invoice[i].made.stock \in BOOLEAN
<1>1. invoice[i] \in InvoiceRows
  BY DEF TypeOK, Exists, NoRow
<1> QED BY <1>1, PurchaseAssumption DEF InvoiceRows

LEMMA DraftRow ==
  ASSUME NEW d \in Drafts
  PROVE  Draft(d) \in InvoiceRows
BY DEF Draft, InvoiceRows, InvoiceStatuses

\* Only the status of an invoice moves, or its status and its journal.
LEMMA StatusMoves ==
  ASSUME NEW row \in InvoiceRows, NEW s \in InvoiceStatuses,
         NEW j \in {"none", "live", "reversed"}
  PROVE  /\ [row EXCEPT !.status = s] \in InvoiceRows
         /\ [row EXCEPT !.status = s, !.journal = j] \in InvoiceRows
BY DEF InvoiceRows

LEMMA StatusForType ==
  ASSUME NEW i, NEW n
  PROVE  StatusFor(i, n) \in InvoiceStatuses
BY DEF StatusFor, InvoiceStatuses

LEMMA ChargedType ==
  ASSUME TypeOK, NEW r \in Receipts, NEW C
  PROVE  Charged(r, C) \in [Charges -> ChargeRows \cup {NoRow}]
<1>1. Accrued \in ChargeRows
  BY DEF Accrued, ChargeRows
<1> QED BY <1>1 DEF Charged, TypeOK

LEMMA OpenTx ==
  ASSUME TypeOK, NEW u \in Users
  PROVE  /\ tx[u].op \in {"create", "approve", "unreceive", "pay", "unpay"} => tx[u] \in Txs
         /\ tx[u].op = "create" => tx[u].doc \in Invoices /\ tx[u].made \in Drafts
         /\ tx[u].op = "approve" => tx[u].doc \in Invoices /\ tx[u].refs \in SUBSET Lines
         /\ tx[u].op = "unreceive" => tx[u].doc \in Receipts
         /\ tx[u].op = "pay" => tx[u].doc \in Payments /\ tx[u].seen \in [Invoices -> Nat]
         /\ tx[u].op = "unpay" => tx[u].doc \in Payments /\ tx[u].seen \in SUBSET Invoices
<1>1. tx[u] \in Txs \cup {Idle}
  BY DEF TypeOK
<1>2. Idle.op = "idle"
  BY DEF Idle
<1> QED BY <1>1, <1>2 DEF Txs

-----------------------------------------------------------------------------
(* Types.                                                                   *)

\* No invoice ever goes away.
Stay == \A i \in Invoices : Exists(i) => Exists(i)'

LEMMA TxCloses ==
  ASSUME TypeInv, Stay, NEW u \in Users, tx' = [tx EXCEPT ![u] = Idle]
  PROVE  /\ tx' \in [Users -> Txs \cup {Idle}]
         /\ \A v \in Users : tx'[v].op = "unpay" => \A i \in tx'[v].seen : Exists(i)'
<1>1. tx \in [Users -> Txs \cup {Idle}]
  BY DEF TypeInv, TypeOK
<1>2. \A v \in Users : v # u => tx'[v] = tx[v]
  BY <1>1
<1>3. tx'[u] = Idle /\ Idle.op = "idle"
  BY <1>1 DEF Idle
<1>4. ASSUME NEW v \in Users, tx'[v].op = "unpay", NEW i \in tx'[v].seen
      PROVE  Exists(i)'
  <2>1. tx[v].op = "unpay" /\ i \in tx[v].seen
    BY <1>2, <1>3, <1>4
  <2>2. Exists(i) /\ i \in Invoices
    BY <2>1, OpenTx DEF TypeInv, AllocatedExists
  <2> QED BY <2>2 DEF Stay
<1> QED BY <1>1, <1>4

LEMMA TxOpens ==
  ASSUME TypeInv, UNCHANGED invoice, NEW u \in Users, NEW t \in Txs,
         t.op = "unpay" => \A i \in t.seen : Exists(i),
         tx' = [tx EXCEPT ![u] = t]
  PROVE  /\ tx' \in [Users -> Txs \cup {Idle}]
         /\ \A v \in Users : tx'[v].op = "unpay" => \A i \in tx'[v].seen : Exists(i)'
<1>1. tx \in [Users -> Txs \cup {Idle}]
  BY DEF TypeInv, TypeOK
<1>2. \A v \in Users : tx'[v] = IF v = u THEN t ELSE tx[v]
  BY <1>1
<1>3. \A i : Exists(i)' <=> Exists(i)
  BY DEF Exists
<1> QED BY <1>1, <1>2, <1>3 DEF TypeInv, AllocatedExists

LEMMA TxStays ==
  ASSUME TypeInv, Stay, UNCHANGED tx
  PROVE  /\ tx' \in [Users -> Txs \cup {Idle}]
         /\ \A v \in Users : tx'[v].op = "unpay" => \A i \in tx'[v].seen : Exists(i)'
<1>1. ASSUME NEW v \in Users, tx'[v].op = "unpay", NEW i \in tx'[v].seen
      PROVE  Exists(i)'
  <2>1. Exists(i) /\ i \in Invoices
    BY <1>1, OpenTx DEF TypeInv, AllocatedExists
  <2> QED BY <2>1 DEF Stay
<1> QED BY <1>1 DEF TypeInv, TypeOK

\* What a step has to say for itself, its transaction apart.
DocumentTypes ==
  /\ receipt' \in [Receipts -> ReceiptStatuses]
  /\ received' \in [OrderLines -> Nat]
  /\ charge' \in [Charges -> ChargeRows \cup {NoRow}]
  /\ invoiced' \in [Lines -> Nat]
  /\ invoice' \in [Invoices -> InvoiceRows \cup {NoRow}]
  /\ match' \in [Invoices -> [Lines -> Nat]]
  /\ payment' \in [Payments -> PaymentStatuses]
  /\ alloc' \in [Payments -> [Invoices -> AllocRows]]
  /\ \A p \in Payments, i \in Invoices : alloc'[p][i].live => Exists(i)'

LEMMA TypesTogether ==
  ASSUME DocumentTypes,
         tx' \in [Users -> Txs \cup {Idle}],
         \A v \in Users : tx'[v].op = "unpay" => \A i \in tx'[v].seen : Exists(i)'
  PROVE  TypeInv'
BY DEF DocumentTypes, TypeInv, TypeOK, AllocatedExists

LEMMA AllocationsStay ==
  ASSUME TypeInv, Stay, UNCHANGED alloc
  PROVE  /\ alloc' \in [Payments -> [Invoices -> AllocRows]]
         /\ \A p \in Payments, i \in Invoices : alloc'[p][i].live => Exists(i)'
BY DEF TypeInv, TypeOK, AllocatedExists, Stay

LEMMA InvoicesStay == UNCHANGED invoice => Stay
BY DEF Stay, Exists

LEMMA ReceiptTypes == TypeInv /\ ReceiptStep => TypeInv'
<1> SUFFICES ASSUME TypeInv, ReceiptStep PROVE TypeInv'
  OBVIOUS
<1> USE DEF receiptVars, invoiceVars, paymentVars
<1>a. UNCHANGED <<invoice, alloc>>
  BY DEF ReceiptStep, CreateReceipt, PutCharges, MoveReceipt, PostReceipt,
         BeginUnreceive, CommitUnreceive
<1>b. Stay
  BY <1>a, InvoicesStay
<1>c. /\ alloc' \in [Payments -> [Invoices -> AllocRows]]
      /\ \A p \in Payments, i \in Invoices : alloc'[p][i].live => Exists(i)'
  BY <1>a, <1>b, AllocationsStay
<1>t. TypeOK
  BY DEF TypeInv
<1>1. ASSUME NEW r \in Receipts, NEW C \in SUBSET ChargesOf(r),
             CreateReceipt(r, C) \/ PutCharges(r, C)
      PROVE  TypeInv'
  <2>1. charge' = Charged(r, C) /\ UNCHANGED tx
    BY <1>1 DEF CreateReceipt, PutCharges
  <2>2. Charged(r, C) \in [Charges -> ChargeRows \cup {NoRow}]
    BY <1>t, ChargedType
  <2>3. DocumentTypes
    BY <1>1, <1>t, <1>c, <2>1, <2>2
    DEF DocumentTypes, TypeOK, CreateReceipt, PutCharges, ReceiptStatuses
  <2> QED BY <1>b, <2>1, <2>3, TxStays, TypesTogether
<1>2. ASSUME NEW r \in Receipts, MoveReceipt(r) PROVE TypeInv'
  <2>1. DocumentTypes /\ UNCHANGED tx
    BY <1>2, <1>t, <1>c DEF DocumentTypes, TypeOK, MoveReceipt, ReceiptStatuses
  <2> QED BY <1>b, <2>1, TxStays, TypesTogether
<1>3. ASSUME NEW r \in Receipts, PostReceipt(r) PROVE TypeInv'
  <2>1. received' \in [OrderLines -> Nat]
    BY <1>3, <1>t, BroughtNat DEF TypeOK, PostReceipt
  <2>2. DocumentTypes /\ UNCHANGED tx
    BY <1>3, <1>t, <1>c, <2>1 DEF DocumentTypes, TypeOK, PostReceipt, ReceiptStatuses
  <2> QED BY <1>b, <2>2, TxStays, TypesTogether
<1>4. ASSUME NEW r \in Receipts, NEW u \in Users, BeginUnreceive(u, r) PROVE TypeInv'
  <2> DEFINE t == [op |-> "unreceive", doc |-> r]
  <2>1. t \in Txs /\ t.op # "unpay"
    BY DEF Txs
  <2>2. DocumentTypes
    BY <1>4, <1>t, <1>c DEF DocumentTypes, TypeOK, BeginUnreceive
  <2>3. tx' = [tx EXCEPT ![u] = t]
    BY <1>4 DEF BeginUnreceive
  <2> HIDE DEF t
  <2> QED BY <1>a, <2>1, <2>2, <2>3, TxOpens, TypesTogether
<1>5. ASSUME NEW u \in Users, CommitUnreceive(u) PROVE TypeInv'
  <2>1. tx[u].doc \in Receipts
    BY <1>5, <1>t, OpenTx DEF CommitUnreceive
  <2>2. received' \in [OrderLines -> Nat]
    BY <1>5, <1>t, <2>1, BroughtNat DEF TypeOK, CommitUnreceive, Larger
  <2>3. DocumentTypes /\ tx' = [tx EXCEPT ![u] = Idle]
    BY <1>5, <1>t, <1>c, <2>2 DEF DocumentTypes, TypeOK, CommitUnreceive, ReceiptStatuses
  <2> QED BY <1>b, <2>3, TxCloses, TypesTogether
<1> QED BY <1>1, <1>2, <1>3, <1>4, <1>5 DEF ReceiptStep

LEMMA InvoiceWritten ==
  ASSUME TypeInv, NEW i \in Invoices, NEW row \in InvoiceRows,
         invoice' = [invoice EXCEPT ![i] = row], UNCHANGED alloc
  PROVE  /\ Stay
         /\ invoice' \in [Invoices -> InvoiceRows \cup {NoRow}]
         /\ alloc' \in [Payments -> [Invoices -> AllocRows]]
         /\ \A p \in Payments, j \in Invoices : alloc'[p][j].live => Exists(j)'
<1>1. invoice' \in [Invoices -> InvoiceRows \cup {NoRow}]
  BY DEF TypeInv, TypeOK
<1>2. row.status # "none"
  BY DEF InvoiceRows, InvoiceStatuses
<1>3. Stay
  BY <1>2 DEF Stay, Exists, TypeInv, TypeOK
<1> QED BY <1>1, <1>3, AllocationsStay

LEMMA StatusWritten ==
  ASSUME TypeInv, NEW i \in Invoices, Exists(i), NEW s \in InvoiceStatuses,
         invoice' = [invoice EXCEPT ![i].status = s], UNCHANGED alloc
  PROVE  /\ Stay
         /\ invoice' \in [Invoices -> InvoiceRows \cup {NoRow}]
         /\ alloc' \in [Payments -> [Invoices -> AllocRows]]
         /\ \A p \in Payments, j \in Invoices : alloc'[p][j].live => Exists(j)'
<1> DEFINE row == [invoice[i] EXCEPT !.status = s]
<1>1. row \in InvoiceRows
  BY InvoiceRow, StatusMoves DEF TypeInv
<1>2. invoice' = [invoice EXCEPT ![i] = row]
  BY DEF TypeInv, TypeOK
<1> HIDE DEF row
<1> QED BY <1>1, <1>2, InvoiceWritten

LEMMA BooksWritten ==
  ASSUME TypeInv, NEW i \in Invoices, Exists(i), NEW s \in InvoiceStatuses,
         NEW j \in {"none", "live", "reversed"},
         invoice' = [invoice EXCEPT ![i].status = s, ![i].journal = j],
         UNCHANGED alloc
  PROVE  /\ Stay
         /\ invoice' \in [Invoices -> InvoiceRows \cup {NoRow}]
         /\ alloc' \in [Payments -> [Invoices -> AllocRows]]
         /\ \A p \in Payments, k \in Invoices : alloc'[p][k].live => Exists(k)'
<1> DEFINE row == [invoice[i] EXCEPT !.status = s, !.journal = j]
<1>1. row \in InvoiceRows
  BY InvoiceRow, StatusMoves DEF TypeInv
<1>2. invoice' = [invoice EXCEPT ![i] = row]
  BY DEF TypeInv, TypeOK
<1> HIDE DEF row
<1> QED BY <1>1, <1>2, InvoiceWritten

\* The journal of a credited invoice.
Credited(i) == IF invoice[i].journal = "live" THEN "reversed" ELSE invoice[i].journal

LEMMA CreditNoteWrites ==
  ASSUME TypeInv, NEW i \in Invoices, CreditNote(i)
  PROVE  /\ Exists(i) /\ invoice[i].status \in {"approved", "partially_paid"}
         /\ Credited(i) \in {"none", "reversed"}
         /\ invoice' = [invoice EXCEPT ![i].status = "cancelled", ![i].journal = Credited(i)]
<1>1. Exists(i) /\ invoice[i].status \in {"approved", "partially_paid"}
  BY DEF CreditNote, Exists
<1>2. invoice[i] \in InvoiceRows
  BY <1>1, InvoiceRow DEF TypeInv
<1>3. Credited(i) \in {"none", "reversed"}
  BY <1>2 DEF Credited, InvoiceRows
<1> DEFINE first == [invoice EXCEPT ![i].status = "cancelled"]
<1>4. first[i].journal = invoice[i].journal
  BY <1>2 DEF TypeInv, TypeOK, InvoiceRows
<1>5. invoice' = [first EXCEPT ![i].journal = IF first[i].journal = "live" THEN "reversed"
                                              ELSE first[i].journal]
  BY DEF CreditNote
<1>6. invoice' = [first EXCEPT ![i].journal = Credited(i)]
  <2> HIDE DEF first
  <2> QED BY <1>4, <1>5 DEF Credited
<1> QED BY <1>1, <1>3, <1>6

LEMMA InvoiceTypes == TypeInv /\ InvoiceStep => TypeInv'
<1> SUFFICES ASSUME TypeInv, InvoiceStep PROVE TypeInv'
  OBVIOUS
<1> USE DEF receiptVars, invoiceVars, paymentVars
<1>t. TypeOK
  BY DEF TypeInv
<1>1. ASSUME NEW i \in Invoices, NEW d \in Drafts, CreateInvoice(i, d)
      PROVE  TypeInv'
  <2>1. invoice' = [invoice EXCEPT ![i] = Draft(d)] /\ UNCHANGED <<alloc, tx>>
    BY <1>1 DEF CreateInvoice
  <2>2. Stay /\ DocumentTypes
    BY <1>1, <1>t, <2>1, DraftRow, InvoiceWritten DEF DocumentTypes, TypeOK, CreateInvoice
  <2> QED BY <2>1, <2>2, TxStays, TypesTogether
<1>2. ASSUME NEW u \in Users, NEW i \in Invoices, NEW d \in Drafts, BeginCreate(u, i, d)
      PROVE  TypeInv'
  <2> DEFINE t == [op |-> "create", doc |-> i, made |-> d]
  <2>1. t \in Txs /\ t.op # "unpay"
    BY DEF Txs
  <2>2. tx' = [tx EXCEPT ![u] = t] /\ UNCHANGED <<invoice, alloc>>
    BY <1>2 DEF BeginCreate
  <2>3. DocumentTypes
    BY <1>2, <1>t, <2>2, InvoicesStay, AllocationsStay DEF DocumentTypes, TypeOK, BeginCreate
  <2> HIDE DEF t
  <2> QED BY <2>1, <2>2, <2>3, TxOpens, TypesTogether
<1>3. ASSUME NEW i \in Invoices, Match(i) PROVE TypeInv'
  <2>1. Exists(i) /\ UNCHANGED <<invoice, alloc, tx>>
    BY <1>3 DEF Match, Exists
  <2>2. match' \in [Invoices -> [Lines -> Nat]]
    BY <1>3, <1>t, <2>1, InvoiceRow DEF TypeOK, Match
  <2>3. DocumentTypes
    BY <1>3, <1>t, <2>1, <2>2, InvoicesStay, AllocationsStay DEF DocumentTypes, TypeOK, Match
  <2> QED BY <2>1, <2>3, InvoicesStay, TxStays, TypesTogether
<1>4. ASSUME NEW i \in Invoices, Submit(i) PROVE TypeInv'
  <2>1. Exists(i) /\ UNCHANGED <<alloc, tx>>
    BY <1>4 DEF Submit, Exists
  <2>2. invoice' = [invoice EXCEPT ![i].status = "pending_review"]
    BY <1>4 DEF Submit
  <2>3. Stay /\ DocumentTypes
    BY <1>4, <1>t, <2>1, <2>2, StatusWritten
    DEF DocumentTypes, TypeOK, Submit, InvoiceStatuses
  <2> QED BY <2>1, <2>3, TxStays, TypesTogether
<1>5. ASSUME NEW i \in Invoices, Cancel(i) PROVE TypeInv'
  <2>1. Exists(i) /\ UNCHANGED <<alloc, tx>>
    BY <1>5 DEF Cancel, Exists
  <2>2. invoice' = [invoice EXCEPT ![i].status = "cancelled"]
    BY <1>5 DEF Cancel
  <2>3. match' \in [Invoices -> [Lines -> Nat]]
    BY <1>5, <1>t DEF TypeOK, Cancel, Unmatched
  <2>4. Stay /\ DocumentTypes
    BY <1>5, <1>t, <2>1, <2>2, <2>3, StatusWritten
    DEF DocumentTypes, TypeOK, Cancel, InvoiceStatuses
  <2> QED BY <2>1, <2>4, TxStays, TypesTogether
<1>6. ASSUME NEW i \in Invoices, CreditNote(i) PROVE TypeInv'
  <2>1. Exists(i) /\ UNCHANGED <<alloc, tx>>
    BY <1>6, CreditNoteWrites DEF CreditNote
  <2>2. /\ Credited(i) \in {"none", "live", "reversed"}
        /\ invoice' = [invoice EXCEPT ![i].status = "cancelled", ![i].journal = Credited(i)]
    BY <1>6, CreditNoteWrites
  <2>3. match' \in [Invoices -> [Lines -> Nat]]
    BY <1>6, <1>t DEF TypeOK, CreditNote, Unmatched
  <2>4. invoiced' \in [Lines -> Nat]
    BY <1>6, <1>t DEF TypeOK, CreditNote, Releasable, Released
  <2>5. charge' \in [Charges -> ChargeRows \cup {NoRow}]
    <3>1. Accrued \in ChargeRows
      BY DEF Accrued, ChargeRows
    <3> QED BY <1>6, <1>t, <3>1 DEF TypeOK, CreditNote, Reopened
  <2>6. /\ Stay
        /\ invoice' \in [Invoices -> InvoiceRows \cup {NoRow}]
        /\ alloc' \in [Payments -> [Invoices -> AllocRows]]
        /\ \A p \in Payments, k \in Invoices : alloc'[p][k].live => Exists(k)'
    BY <2>1, <2>2, BooksWritten DEF InvoiceStatuses
  <2>7. DocumentTypes
    BY <1>6, <1>t, <2>3, <2>4, <2>5, <2>6 DEF DocumentTypes, TypeOK, CreditNote
  <2> QED BY <2>1, <2>6, <2>7, TxStays, TypesTogether
<1>7. ASSUME NEW u \in Users, NEW i \in Invoices, BeginApprove(u, i) PROVE TypeInv'
  <2> DEFINE t == [op |-> "approve", doc |-> i, refs |-> {l \in Lines : match[i][l] > 0}]
  <2>1. t \in Txs /\ t.op # "unpay"
    BY DEF Txs
  <2>2. tx' = [tx EXCEPT ![u] = t] /\ UNCHANGED <<invoice, alloc>>
    BY <1>7 DEF BeginApprove
  <2>3. DocumentTypes
    BY <1>7, <1>t, <2>2, InvoicesStay, AllocationsStay DEF DocumentTypes, TypeOK, BeginApprove
  <2> HIDE DEF t
  <2> QED BY <2>1, <2>2, <2>3, TxOpens, TypesTogether
<1>8. ASSUME NEW u \in Users, CommitCreate(u) PROVE TypeInv'
  <2>1. tx[u].doc \in Invoices /\ tx[u].made \in Drafts
    BY <1>8, <1>t, OpenTx DEF CommitCreate
  <2>2. /\ invoice' = [invoice EXCEPT ![tx[u].doc] = Draft(tx[u].made)]
        /\ tx' = [tx EXCEPT ![u] = Idle] /\ UNCHANGED alloc
    BY <1>8 DEF CommitCreate
  <2>3. Stay /\ DocumentTypes
    BY <1>8, <1>t, <2>1, <2>2, DraftRow, InvoiceWritten DEF DocumentTypes, TypeOK, CommitCreate
  <2> QED BY <2>2, <2>3, TxCloses, TypesTogether
<1>9. ASSUME NEW u \in Users, CommitApprove(u) PROVE TypeInv'
  <2> DEFINE i == tx[u].doc
             consumed == Consumed(i, tx[u].refs)
  <2>1. i \in Invoices /\ tx[u].refs \in SUBSET Lines
    BY <1>9, <1>t, OpenTx DEF CommitApprove
  <2>2. Exists(i) /\ UNCHANGED alloc /\ tx' = [tx EXCEPT ![u] = Idle]
    BY <1>9 DEF CommitApprove, Exists
  <2>3. invoice' = [invoice EXCEPT ![i].status = "approved", ![i].journal = "live"]
    BY <1>9 DEF CommitApprove
  <2>4. charge' \in [Charges -> ChargeRows \cup {NoRow}]
    <3>1. [status |-> "invoiced", by |-> i] \in ChargeRows
      BY <2>1 DEF ChargeRows
    <3> QED BY <1>9, <1>t, <3>1 DEF TypeOK, CommitApprove
  <2>5. invoiced' \in [Lines -> Nat]
    <3> DEFINE S == consumed
    <3>1. invoiced' = [l \in Lines |-> IF l \in S THEN invoiced[l] + match[i][l] ELSE invoiced[l]]
      BY <1>9 DEF CommitApprove
    <3> HIDE DEF S, consumed, i
    <3> QED BY <1>t, <2>1, <3>1 DEF TypeOK
  <2>6. /\ Stay
        /\ invoice' \in [Invoices -> InvoiceRows \cup {NoRow}]
        /\ alloc' \in [Payments -> [Invoices -> AllocRows]]
        /\ \A p \in Payments, k \in Invoices : alloc'[p][k].live => Exists(k)'
    <3> HIDE DEF i
    <3> QED BY <2>1, <2>2, <2>3, BooksWritten DEF InvoiceStatuses
  <2>7. DocumentTypes
    BY <1>9, <1>t, <2>4, <2>5, <2>6 DEF DocumentTypes, TypeOK, CommitApprove
  <2> QED BY <2>2, <2>6, <2>7, TxCloses, TypesTogether
<1> QED BY <1>1, <1>2, <1>3, <1>4, <1>5, <1>6, <1>7, <1>8, <1>9 DEF InvoiceStep

\* An allocation gives every asked invoice a row that holds its old amount and
\* the new one, and a status.
LEMMA AllocateWrites ==
  ASSUME TypeInv, NEW p \in Payments, NEW A \in Asks, NEW seen, Allocate(p, A, seen)
  PROVE  /\ A \in [Invoices -> Nat]
         /\ alloc' \in [Payments -> [Invoices -> AllocRows]]
         /\ invoice' \in [Invoices -> InvoiceRows \cup {NoRow}]
         /\ Stay
         /\ \A q \in Payments, i \in Invoices :
              alloc'[q][i] = IF q = p /\ A[i] > 0 THEN Grown(alloc[p][i], A[i]) ELSE alloc[q][i]
         /\ \A i \in Invoices : A[i] > 0 =>
              /\ Exists(i) /\ A[i] <= Outstanding(i)
              /\ \E n : invoice'[i] = [invoice[i] EXCEPT !.status = StatusFor(i, n)]
         /\ \A i \in Invoices : ~(A[i] > 0) => invoice'[i] = invoice[i]
<1> DEFINE asked == {i \in Invoices : A[i] > 0}
           row == [i \in Invoices |-> IF i \in asked THEN Grown(alloc[p][i], A[i])
                                      ELSE alloc[p][i]]
           n(i) == Paid(i) - LiveAmount(p, i) + row[i].amount
<1>t. TypeOK
  BY DEF TypeInv
<1>1. A \in [Invoices -> Nat]
  <2>1. A \in [Invoices -> Allocations \cup {0}]
    BY DEF Asks
  <2>2. Allocations \cup {0} \subseteq Nat
    BY PurchaseAssumption
  <2> QED BY <2>1, <2>2
<1>2. \A i \in Invoices : alloc[p][i] \in AllocRows
  BY <1>t DEF TypeOK
<1>3. \A i \in Invoices : row[i] \in AllocRows
  BY <1>1, <1>2 DEF Grown, AllocRows
<1>4. alloc' = [alloc EXCEPT ![p] = row]
  BY DEF Allocate
<1>5. alloc' \in [Payments -> [Invoices -> AllocRows]]
  BY <1>t, <1>3, <1>4 DEF TypeOK
<1>6. \A q \in Payments, i \in Invoices :
        alloc'[q][i] = IF q = p /\ A[i] > 0 THEN Grown(alloc[p][i], A[i]) ELSE alloc[q][i]
  BY <1>t, <1>4 DEF TypeOK
<1>7. \A i \in Invoices : A[i] > 0 => Exists(i) /\ A[i] <= Outstanding(i)
  BY DEF Allocate
<1>8. invoice' = [i \in Invoices |-> IF i \in asked
                    THEN [invoice[i] EXCEPT !.status = StatusFor(i, n(i))] ELSE invoice[i]]
  BY DEF Allocate
<1>9. \A i \in Invoices : A[i] > 0 =>
        \E k : invoice'[i] = [invoice[i] EXCEPT !.status = StatusFor(i, k)]
  <2> HIDE DEF n
  <2> QED BY <1>8
<1>10. \A i \in Invoices : ~(A[i] > 0) => invoice'[i] = invoice[i]
  BY <1>8
<1>11. \A i \in Invoices :
         /\ invoice'[i] \in InvoiceRows \cup {NoRow}
         /\ Exists(i) => invoice'[i] \in InvoiceRows
  <2> TAKE i \in Invoices
  <2>1. CASE A[i] > 0
    <3>1. invoice[i] \in InvoiceRows
      BY <1>t, <1>7, <2>1, InvoiceRow
    <3>2. PICK k : invoice'[i] = [invoice[i] EXCEPT !.status = StatusFor(i, k)]
      BY <1>9, <2>1
    <3>3. StatusFor(i, k) \in InvoiceStatuses
      BY StatusForType
    <3> QED BY <3>1, <3>2, <3>3, StatusMoves
  <2>2. CASE ~(A[i] > 0)
    BY <1>t, <1>10, <2>2, InvoiceRow DEF TypeOK
  <2> QED BY <2>1, <2>2
<1>12. invoice' \in [Invoices -> InvoiceRows \cup {NoRow}]
  <2>1. DOMAIN invoice' = Invoices /\ invoice' = [i \in Invoices |-> invoice'[i]]
    BY <1>8
  <2> QED BY <1>11, <2>1
<1>13. Stay
  <2>1. \A r \in InvoiceRows : r.status # "none"
    BY DEF InvoiceRows, InvoiceStatuses
  <2> QED BY <1>11, <2>1 DEF Stay, Exists
<1> HIDE DEF asked, row, n
<1> QED BY <1>1, <1>5, <1>6, <1>7, <1>9, <1>10, <1>12, <1>13

\* What a reversal of a payment writes.
LEMMA UnpayWrites ==
  ASSUME TypeInv, NEW u \in Users, CommitUnpay(u)
  PROVE  LET p == tx[u].doc IN
         /\ p \in Payments
         /\ alloc' \in [Payments -> [Invoices -> AllocRows]]
         /\ invoice' \in [Invoices -> InvoiceRows \cup {NoRow}]
         /\ Stay
         /\ \A q \in Payments, i \in Invoices :
              alloc'[q][i] = IF q = p THEN [alloc[q][i] EXCEPT !.live = FALSE] ELSE alloc[q][i]
         /\ \A i \in Invoices :
              \/ Exists(i) /\ \E n : invoice'[i] = [invoice[i] EXCEPT !.status = StatusFor(i, n)]
              \/ invoice'[i] = invoice[i]
<1> DEFINE p == tx[u].doc
           n(i) == Paid(i) - LiveAmount(p, i)
<1>t. TypeOK
  BY DEF TypeInv
<1>1. p \in Payments /\ tx[u].seen \in SUBSET Invoices
  BY <1>t, OpenTx DEF CommitUnpay
<1>2. \A i \in tx[u].seen : Exists(i)
  BY DEF TypeInv, AllocatedExists, CommitUnpay
<1>3. \A i \in Invoices : alloc[p][i] \in AllocRows
  BY <1>t, <1>1 DEF TypeOK
<1>4. alloc' = [alloc EXCEPT ![p] = [i \in Invoices |-> [alloc[p][i] EXCEPT !.live = FALSE]]]
  BY DEF CommitUnpay
<1>5. \A i \in Invoices : [alloc[p][i] EXCEPT !.live = FALSE] \in AllocRows
  BY <1>3 DEF AllocRows
<1>6. alloc' \in [Payments -> [Invoices -> AllocRows]]
  <2> HIDE DEF p
  <2> QED BY <1>t, <1>4, <1>5 DEF TypeOK
<1>7. \A q \in Payments, i \in Invoices :
        alloc'[q][i] = IF q = p THEN [alloc[q][i] EXCEPT !.live = FALSE] ELSE alloc[q][i]
  <2> HIDE DEF p
  <2> QED BY <1>t, <1>4 DEF TypeOK
<1>8. invoice' = [i \in Invoices |-> IF i \in tx[u].seen
                    THEN [invoice[i] EXCEPT !.status = StatusFor(i, n(i))] ELSE invoice[i]]
  BY DEF CommitUnpay
<1> HIDE DEF n
<1>9. \A i \in Invoices :
        \/ Exists(i) /\ \E k : invoice'[i] = [invoice[i] EXCEPT !.status = StatusFor(i, k)]
        \/ invoice'[i] = invoice[i]
  BY <1>2, <1>8
<1>10. \A i \in Invoices :
         /\ invoice'[i] \in InvoiceRows \cup {NoRow}
         /\ Exists(i) => invoice'[i] \in InvoiceRows
  <2> TAKE i \in Invoices
  <2>1. CASE Exists(i) /\ \E k : invoice'[i] = [invoice[i] EXCEPT !.status = StatusFor(i, k)]
    <3>1. invoice[i] \in InvoiceRows
      BY <1>t, <2>1, InvoiceRow
    <3>2. PICK k : invoice'[i] = [invoice[i] EXCEPT !.status = StatusFor(i, k)]
      BY <2>1
    <3>3. StatusFor(i, k) \in InvoiceStatuses
      BY StatusForType
    <3> QED BY <3>1, <3>2, <3>3, StatusMoves
  <2>2. CASE invoice'[i] = invoice[i]
    BY <1>t, <2>2, InvoiceRow DEF TypeOK
  <2> QED BY <1>9, <2>1, <2>2
<1>11. invoice' \in [Invoices -> InvoiceRows \cup {NoRow}]
  <2>1. invoice' = [i \in Invoices |-> invoice'[i]]
    BY <1>8
  <2> QED BY <1>10, <2>1
<1>12. Stay
  <2>1. \A r \in InvoiceRows : r.status # "none"
    BY DEF InvoiceRows, InvoiceStatuses
  <2> QED BY <1>10, <2>1 DEF Stay, Exists
<1> QED BY <1>1, <1>6, <1>7, <1>9, <1>11, <1>12

LEMMA PaymentTypes == TypeInv /\ PaymentStep => TypeInv'
<1> SUFFICES ASSUME TypeInv, PaymentStep PROVE TypeInv'
  OBVIOUS
<1> USE DEF receiptVars, invoiceVars, paymentVars
<1>t. TypeOK
  BY DEF TypeInv
\* The rows an allocation leaves belong to invoices that exist.
<1>a. ASSUME NEW p \in Payments, NEW A \in Asks, NEW seen, Allocate(p, A, seen)
      PROVE  /\ alloc' \in [Payments -> [Invoices -> AllocRows]]
             /\ invoice' \in [Invoices -> InvoiceRows \cup {NoRow}]
             /\ Stay
             /\ \A q \in Payments, i \in Invoices : alloc'[q][i].live => Exists(i)'
  <2>1. ASSUME NEW q \in Payments, NEW i \in Invoices, alloc'[q][i].live
        PROVE  Exists(i)
    <3>1. CASE q = p /\ A[i] > 0
      BY <1>a, <3>1, AllocateWrites
    <3>2. CASE ~(q = p /\ A[i] > 0)
      <4>1. alloc'[q][i] = alloc[q][i]
        BY <1>a, <3>2, AllocateWrites
      <4> QED BY <2>1, <4>1 DEF TypeInv, AllocatedExists
    <3> QED BY <3>1, <3>2
  <2> QED BY <1>a, <2>1, AllocateWrites DEF Stay
<1>1. ASSUME NEW p \in Payments, MovePayment(p) PROVE TypeInv'
  <2>1. UNCHANGED <<invoice, alloc, tx>>
    BY <1>1 DEF MovePayment
  <2>2. DocumentTypes
    BY <1>1, <1>t, <2>1, InvoicesStay, AllocationsStay
    DEF DocumentTypes, TypeOK, MovePayment, PaymentStatuses
  <2> QED BY <2>1, <2>2, InvoicesStay, TxStays, TypesTogether
<1>2. ASSUME NEW p \in Payments, NEW A \in Asks, AddAllocation(p, A) PROVE TypeInv'
  <2>1. Allocate(p, A, SeenNow(p)) /\ UNCHANGED tx
    BY <1>2 DEF AddAllocation
  <2>2. Stay /\ DocumentTypes
    BY <1>2, <1>t, <1>a, <2>1 DEF DocumentTypes, TypeOK, AddAllocation
  <2> QED BY <2>1, <2>2, TxStays, TypesTogether
<1>3. ASSUME NEW u \in Users, NEW p \in Payments, BeginPay(u, p) PROVE TypeInv'
  <2> DEFINE t == [op |-> "pay", doc |-> p, seen |-> SeenNow(p)]
  <2>0. SeenNow(p) \in [Invoices -> Nat]
    BY <1>t, LiveAmountNat DEF SeenNow
  <2>1. t \in Txs /\ t.op # "unpay"
    BY <2>0 DEF Txs
  <2>2. tx' = [tx EXCEPT ![u] = t] /\ UNCHANGED <<invoice, alloc>>
    BY <1>3 DEF BeginPay
  <2>3. DocumentTypes
    BY <1>3, <1>t, <2>2, InvoicesStay, AllocationsStay DEF DocumentTypes, TypeOK, BeginPay
  <2> HIDE DEF t
  <2> QED BY <2>1, <2>2, <2>3, TxOpens, TypesTogether
<1>4. ASSUME NEW u \in Users, NEW p \in Payments, BeginUnpay(u, p) PROVE TypeInv'
  <2> DEFINE t == [op |-> "unpay", doc |-> p, seen |-> {i \in Invoices : alloc[p][i].live}]
  <2>1. t \in Txs /\ \A i \in t.seen : Exists(i)
    BY DEF Txs, TypeInv, AllocatedExists
  <2>2. tx' = [tx EXCEPT ![u] = t] /\ UNCHANGED <<invoice, alloc>>
    BY <1>4 DEF BeginUnpay
  <2>3. DocumentTypes
    BY <1>4, <1>t, <2>2, InvoicesStay, AllocationsStay DEF DocumentTypes, TypeOK, BeginUnpay
  <2> HIDE DEF t
  <2> QED BY <2>1, <2>2, <2>3, TxOpens, TypesTogether
<1>5. ASSUME NEW u \in Users, CommitUnpay(u) PROVE TypeInv'
  <2>1. tx' = [tx EXCEPT ![u] = Idle]
    BY <1>5 DEF CommitUnpay
  <2>2. \A q \in Payments, i \in Invoices : alloc'[q][i].live => Exists(i)
    <3> TAKE q \in Payments, i \in Invoices
    <3>1. alloc[q][i] \in AllocRows
      BY <1>t DEF TypeOK
    <3>2. ~[alloc[q][i] EXCEPT !.live = FALSE].live
      BY <3>1 DEF AllocRows
    <3>3. alloc'[q][i] = IF q = tx[u].doc THEN [alloc[q][i] EXCEPT !.live = FALSE]
                         ELSE alloc[q][i]
      BY <1>5, UnpayWrites
    <3>4. alloc[q][i].live => Exists(i)
      BY DEF TypeInv, AllocatedExists
    <3> QED BY <3>2, <3>3, <3>4
  <2>3. Stay /\ DocumentTypes
    BY <1>5, <1>t, <2>2, UnpayWrites
    DEF DocumentTypes, TypeOK, CommitUnpay, PaymentStatuses, Stay
  <2> QED BY <2>1, <2>3, TxCloses, TypesTogether
<1>6. ASSUME NEW u \in Users, NEW A \in Asks, CommitPay(u, A) PROVE TypeInv'
  <2>1. /\ tx[u].doc \in Payments /\ tx' = [tx EXCEPT ![u] = Idle]
        /\ Allocate(tx[u].doc, A, tx[u].seen)
    BY <1>6, <1>t, OpenTx DEF CommitPay
  <2>2. Stay /\ DocumentTypes
    BY <1>6, <1>t, <1>a, <2>1 DEF DocumentTypes, TypeOK, CommitPay, PaymentStatuses
  <2> QED BY <2>1, <2>2, TxCloses, TypesTogether
<1> QED BY <1>1, <1>2, <1>3, <1>4, <1>5, <1>6 DEF PaymentStep

LEMMA TypeStep == TypeInv /\ [Next]_vars => TypeInv'
<1> SUFFICES ASSUME TypeInv, [Next]_vars PROVE TypeInv'
  OBVIOUS
<1> USE DEF receiptVars, invoiceVars, paymentVars
<1>t. TypeOK
  BY DEF TypeInv
<1>1. ASSUME NEW u \in Users, Abandon(u) PROVE TypeInv'
  <2>1. tx' = [tx EXCEPT ![u] = Idle] /\ UNCHANGED <<invoice, alloc>>
    BY <1>1 DEF Abandon
  <2>2. DocumentTypes
    BY <1>1, <1>t, <2>1, InvoicesStay, AllocationsStay DEF DocumentTypes, TypeOK, Abandon
  <2> QED BY <2>1, <2>2, InvoicesStay, TxCloses, TypesTogether
<1>2. CASE UNCHANGED vars
  BY <1>2 DEF vars, TypeInv, TypeOK, AllocatedExists, Exists
<1> QED BY <1>1, <1>2, ReceiptTypes, InvoiceTypes, PaymentTypes DEF Next

LEMMA TypeInit == Init => TypeInv
<1> SUFFICES ASSUME Init PROVE TypeInv
  OBVIOUS
<1>1. NoAlloc \in AllocRows /\ ~NoAlloc.live
  BY DEF NoAlloc, AllocRows
<1>2. Idle.op = "idle"
  BY DEF Idle
<1>3. TypeOK
  BY <1>1 DEF Init, TypeOK, ReceiptStatuses, PaymentStatuses
<1>4. AllocatedExists
  BY <1>1, <1>2 DEF Init, AllocatedExists
<1> QED BY <1>3, <1>4 DEF TypeInv

LEMMA TypesHold == Spec => []TypeInv
BY TypeInit, TypeStep, PTL DEF Spec

\* The documents, their matches, charges, allocations and open transitions
\* keep their types: no quantity and no amount ever falls below zero.
THEOREM PurchaseTypeCorrect == Spec => []TypeOK
<1>1. TypeInv => TypeOK
  BY DEF TypeInv
<1> QED BY <1>1, TypesHold, PTL

-----------------------------------------------------------------------------
(* What an order line counts as received.                                   *)

Share(r, o) == IF receipt[r] = "posted" THEN Brought(r, o) ELSE 0
PostedShares(o) == SumFunction([r \in Receipts |-> Share(r, o)])

LEMMA SharesMove ==
  ASSUME NEW r \in Receipts, NEW o \in OrderLines,
         \A q \in Receipts : q # r => receipt'[q] = receipt[q]
  PROVE  PostedShares(o)' = PostedShares(o) + Share(r, o)' - Share(r, o)
<1> DEFINE f == [q \in Receipts |-> Share(q, o)]
           g == [q \in Receipts |-> Share(q, o)']
<1>1. /\ \A q \in Receipts : Brought(q, o)' = Brought(q, o)
      /\ \A q \in Receipts : Brought(q, o) \in Nat
  BY BroughtNat DEF Brought, LinesOf
<1>2. f \in [Receipts -> Int] /\ g \in [Receipts -> Int]
  BY <1>1 DEF Share
<1>3. \A q \in Receipts : r # q => g[q] = f[q]
  BY <1>1 DEF Share
<1>4. SumFunction(g) = SumFunction(f) + g[r] - f[r]
  <2> HIDE DEF f, g
  <2> QED BY <1>2, <1>3, PurchaseAssumption, SumUpdate
<1>5. PostedShares(o)' = SumFunction(g) /\ PostedShares(o) = SumFunction(f)
  BY DEF PostedShares
<1> QED BY <1>4, <1>5

LEMMA SharesNat ==
  ASSUME NEW o \in OrderLines
  PROVE  /\ PostedShares(o) \in Nat
         /\ \A r \in Receipts : Share(r, o) \in Nat /\ Share(r, o) <= PostedShares(o)
<1> DEFINE f == [q \in Receipts |-> Share(q, o)]
<1>1. f \in [Receipts -> Nat]
  BY BroughtNat DEF Share
<1>2. /\ SumFunction(f) \in Nat
      /\ \A r \in Receipts : f[r] <= SumFunction(f)
  <2> HIDE DEF f
  <2> QED BY <1>1, PurchaseAssumption, SumNat, SumAtLeast
<1> QED BY <1>1, <1>2 DEF PostedShares

ReceivedFits ==
  \A o \in OrderLines : received[o] = PostedShares(o) /\ received[o] <= Ordered[o]

LEMMA ReceivedFitsIs == ReceivedFits <=> NeverOverReceived
BY DEF ReceivedFits, NeverOverReceived, PostedShares, Share

LEMMA ReceivedStep == TypeOK /\ ReceivedFits /\ [Next]_vars => ReceivedFits'
<1> SUFFICES ASSUME TypeOK, ReceivedFits, [Next]_vars, NEW o \in OrderLines
             PROVE  received'[o] = PostedShares(o)' /\ received'[o] <= Ordered[o]
  BY DEF ReceivedFits
<1> USE DEF receiptVars, invoiceVars, paymentVars
<1>0. received[o] = PostedShares(o) /\ received[o] <= Ordered[o]
  BY DEF ReceivedFits
<1>b. \A r \in Receipts : Brought(r, o) \in Nat /\ Brought(r, o)' = Brought(r, o)
  BY BroughtNat DEF Brought, LinesOf
<1>1. CASE UNCHANGED receiptVars
  <2>1. PostedShares(o)' = PostedShares(o)
    BY <1>1 DEF PostedShares, Share, Brought, LinesOf
  <2> QED BY <1>0, <1>1, <2>1
<1>2. ASSUME NEW r \in Receipts, NEW s \in {"draft", "approved", "cancelled"},
             receipt[r] # "posted", receipt' = [receipt EXCEPT ![r] = s],
             UNCHANGED received
      PROVE  received'[o] = PostedShares(o)' /\ received'[o] <= Ordered[o]
  <2>1. \A q \in Receipts : q # r => receipt'[q] = receipt[q]
    BY <1>2 DEF TypeOK
  <2>2. Share(r, o) = 0 /\ Share(r, o)' = 0
    BY <1>2 DEF TypeOK, Share
  <2>3. PostedShares(o)' = PostedShares(o) + 0 - 0
    BY <2>1, <2>2, SharesMove
  <2> QED BY <1>0, <1>2, <2>3, SharesNat
<1>3. ASSUME NEW r \in Receipts, PostReceipt(r)
      PROVE  received'[o] = PostedShares(o)' /\ received'[o] <= Ordered[o]
  <2>1. \A q \in Receipts : q # r => receipt'[q] = receipt[q]
    BY <1>3 DEF TypeOK, PostReceipt
  <2>2. Share(r, o) = 0 /\ Share(r, o)' = Brought(r, o)
    BY <1>3, <1>b DEF TypeOK, Share, PostReceipt
  <2>3. PostedShares(o)' = PostedShares(o) + Brought(r, o) - 0
    BY <2>1, <2>2, SharesMove
  <2>4. received'[o] = received[o] + Brought(r, o) /\ received'[o] <= Ordered[o]
    BY <1>3 DEF PostReceipt, FitsOrder
  <2> QED BY <1>0, <1>b, <2>3, <2>4, SharesNat
<1>4. ASSUME NEW u \in Users, CommitUnreceive(u)
      PROVE  received'[o] = PostedShares(o)' /\ received'[o] <= Ordered[o]
  <2>1. PICK r \in Receipts : r = tx[u].doc
    BY <1>4, OpenTx DEF CommitUnreceive
  <2>2. \A q \in Receipts : q # r => receipt'[q] = receipt[q]
    BY <1>4, <2>1 DEF TypeOK, CommitUnreceive
  <2>3. Share(r, o) = Brought(r, o) /\ Share(r, o)' = 0
    BY <1>4, <2>1 DEF TypeOK, Share, CommitUnreceive
  <2>4. received'[o] = Larger(0, received[o] - Brought(r, o))
    BY <1>4, <2>1 DEF CommitUnreceive
  <2>5. PostedShares(o)' = PostedShares(o) + 0 - Brought(r, o)
    BY <2>1, <2>2, <2>3, SharesMove
  <2>6. Brought(r, o) <= PostedShares(o)
    BY <2>1, <2>3, SharesNat
  <2> QED BY <1>0, <1>b, <2>1, <2>4, <2>5, <2>6, SharesNat, PurchaseAssumption DEF Larger
<1>5. CASE ReceiptStep
  <2>1. ASSUME NEW r \in Receipts, NEW C \in SUBSET ChargesOf(r), CreateReceipt(r, C)
        PROVE  received'[o] = PostedShares(o)' /\ received'[o] <= Ordered[o]
    BY <1>2, <2>1 DEF CreateReceipt
  <2>2. ASSUME NEW r \in Receipts, MoveReceipt(r)
        PROVE  received'[o] = PostedShares(o)' /\ received'[o] <= Ordered[o]
    BY <1>2, <2>2 DEF MoveReceipt
  <2> QED BY <1>1, <1>3, <1>4, <1>5, <2>1, <2>2 DEF ReceiptStep, PutCharges, BeginUnreceive
<1>6. CASE InvoiceStep
  BY <1>1, <1>6 DEF InvoiceStep, CreateInvoice, BeginCreate, Match, Submit, Cancel,
     CreditNote, BeginApprove, CommitCreate, CommitApprove
<1>7. CASE PaymentStep
  BY <1>1, <1>7 DEF PaymentStep, MovePayment, AddAllocation, BeginPay, BeginUnpay,
     CommitPay, CommitUnpay
<1> QED BY <1>1, <1>5, <1>6, <1>7 DEF Next, Abandon, vars

-----------------------------------------------------------------------------
(* What the invoices hold of a receipt line.                                *)

MatchTotal(l) == SumFunction([i \in Invoices |-> match[i][l]])

LEMMA MatchTotalMoves ==
  ASSUME TypeOK, TypeOK', NEW i \in Invoices, NEW l \in Lines,
         \A j \in Invoices : j # i => match'[j][l] = match[j][l]
  PROVE  /\ MatchTotal(l) \in Int
         /\ MatchTotal(l)' = MatchTotal(l) + match'[i][l] - match[i][l]
         /\ MatchTotal(l)' = Reserved(i, l) + match'[i][l]
<1> DEFINE f == [j \in Invoices |-> match[j][l]]
           g == [j \in Invoices |-> match'[j][l]]
           h == [j \in Invoices |-> IF j # i THEN match[j][l] ELSE 0]
<1>1. f \in [Invoices -> Int] /\ g \in [Invoices -> Int] /\ h \in [Invoices -> Int]
  BY DEF TypeOK
<1>2. /\ \A j \in Invoices : i # j => g[j] = f[j]
      /\ \A j \in Invoices : i # j => g[j] = h[j]
  OBVIOUS
<1>3. /\ SumFunction(f) \in Int /\ SumFunction(h) \in Int
      /\ SumFunction(g) = SumFunction(f) + g[i] - f[i]
      /\ SumFunction(g) = SumFunction(h) + g[i] - h[i]
  <2> HIDE DEF f, g, h
  <2> QED BY <1>1, <1>2, PurchaseAssumption, SumInt, SumUpdate
<1>4. /\ MatchTotal(l) = SumFunction(f) /\ MatchTotal(l)' = SumFunction(g)
      /\ Reserved(i, l) = SumFunction(h) /\ h[i] = 0
      /\ g[i] = match'[i][l] /\ f[i] = match[i][l] /\ g[i] \in Int
  BY <1>1 DEF MatchTotal, Reserved
<1> HIDE DEF f, g, h
<1> QED BY <1>3, <1>4

CapacityKept == \A l \in Lines : MatchTotal(l) <= Qty[l]

LEMMA CapacityStep == TypeOK /\ TypeOK' /\ CapacityKept /\ [Next]_vars => CapacityKept'
<1> SUFFICES ASSUME TypeOK, TypeOK', CapacityKept, [Next]_vars, NEW l \in Lines
             PROVE  MatchTotal(l)' <= Qty[l]
  BY DEF CapacityKept
<1> USE DEF receiptVars, invoiceVars, paymentVars
<1>0. MatchTotal(l) <= Qty[l] /\ Qty[l] \in Nat
  BY PurchaseAssumption DEF CapacityKept
<1>1. CASE UNCHANGED match
  <2>1. MatchTotal(l)' = MatchTotal(l)
    BY <1>1 DEF MatchTotal
  <2> QED BY <1>0, <2>1
<1>2. ASSUME NEW i \in Invoices, match' = Unmatched(i) PROVE MatchTotal(l)' <= Qty[l]
  <2>1. \A j \in Invoices : j # i => match'[j][l] = match[j][l]
    BY <1>2 DEF Unmatched, TypeOK
  <2>2. match'[i][l] = 0 /\ match[i][l] \in Nat
    BY <1>2 DEF Unmatched, TypeOK
  <2> QED BY <1>0, <2>1, <2>2, MatchTotalMoves
<1>3. ASSUME NEW i \in Invoices, Match(i) PROVE MatchTotal(l)' <= Qty[l]
  <2> DEFINE want == invoice[i].made.lines
  <2>0. Exists(i)
    BY <1>3 DEF Match, Exists
  <2>1. want \in [Lines -> Nat]
    BY <2>0, InvoiceRow
  <2>2. match' = [match EXCEPT ![i] = want]
    BY <1>3 DEF Match
  <2>3. want[l] > 0 => Reserved(i, l) + want[l] <= Qty[l]
    BY <1>3 DEF Match
  <2> HIDE DEF want
  <2>4. match'[i][l] = want[l] /\ \A j \in Invoices : j # i => match'[j][l] = match[j][l]
    BY <2>2 DEF TypeOK
  <2>5. match[i][l] \in Nat /\ want[l] \in Nat
    BY <2>1 DEF TypeOK
  <2> QED BY <1>0, <2>3, <2>4, <2>5, MatchTotalMoves
<1>4. CASE InvoiceStep
  BY <1>1, <1>2, <1>3, <1>4 DEF InvoiceStep, CreateInvoice, BeginCreate, Submit, Cancel,
     CreditNote, BeginApprove, CommitCreate, CommitApprove
<1>5. CASE ReceiptStep
  BY <1>1, <1>5 DEF ReceiptStep, CreateReceipt, PutCharges, MoveReceipt, PostReceipt,
     BeginUnreceive, CommitUnreceive
<1>6. CASE PaymentStep
  BY <1>1, <1>6 DEF PaymentStep, MovePayment, AddAllocation, BeginPay, BeginUnpay,
     CommitPay, CommitUnpay
<1> QED BY <1>1, <1>4, <1>5, <1>6 DEF Next, Abandon, vars

-----------------------------------------------------------------------------
(* What is paid on an invoice.                                              *)

LEMMA PaidMoves ==
  ASSUME TypeOK, TypeOK', NEW p \in Payments, NEW i \in Invoices,
         \A q \in Payments : q # p => alloc'[q][i] = alloc[q][i]
  PROVE  /\ Paid(i) \in Int
         /\ Paid(i)' = Paid(i) + LiveAmount(p, i)' - LiveAmount(p, i)
<1> DEFINE f == [q \in Payments |-> LiveAmount(q, i)]
           g == [q \in Payments |-> LiveAmount(q, i)']
<1>1. \A q \in Payments : alloc[q][i] \in AllocRows /\ alloc'[q][i] \in AllocRows
  BY DEF TypeOK
<1>2. f \in [Payments -> Int] /\ g \in [Payments -> Int]
  BY <1>1 DEF LiveAmount, AllocRows
<1>3. \A q \in Payments : p # q => g[q] = f[q]
  BY DEF LiveAmount
<1>4. SumFunction(f) \in Int /\ SumFunction(g) = SumFunction(f) + g[p] - f[p]
  <2> HIDE DEF f, g
  <2> QED BY <1>2, <1>3, PurchaseAssumption, SumInt, SumUpdate
<1>5. Paid(i) = SumFunction(f) /\ Paid(i)' = SumFunction(g)
  BY DEF Paid
<1> QED BY <1>4, <1>5

LEMMA PaidStep ==
  ASSUME TypeInv, TypeInv', OnlyRevivalOverpays, [Next]_vars
  PROVE  OnlyRevivalOverpays'
<1> SUFFICES ASSUME NEW i \in Invoices, Paid(i)' > Total[i]
             PROVE  \E p \in Payments : alloc'[p][i].revived
  BY DEF OnlyRevivalOverpays
<1> USE DEF receiptVars, invoiceVars, paymentVars
<1>t. TypeOK /\ TypeOK'
  BY DEF TypeInv
<1>0. /\ Total[i] \in Nat
      /\ Paid(i) > Total[i] => \E p \in Payments : alloc[p][i].revived
  BY PurchaseAssumption DEF OnlyRevivalOverpays
<1>1. CASE \A p \in Payments : alloc'[p][i] = alloc[p][i]
  <2>1. Paid(i)' = Paid(i)
    BY <1>1 DEF Paid, LiveAmount
  <2> QED BY <1>0, <1>1, <2>1
<1>2. ASSUME NEW p \in Payments, NEW A \in Asks, NEW seen, Allocate(p, A, seen)
      PROVE  \E q \in Payments : alloc'[q][i].revived
  <2>1. A[i] \in Nat
    BY <1>2, AllocateWrites
  <2>2. CASE ~(A[i] > 0)
    BY <1>1, <1>2, <2>2, AllocateWrites
  <2>3. CASE A[i] > 0
    <3>1. /\ A[i] <= Outstanding(i)
          /\ alloc'[p][i] = Grown(alloc[p][i], A[i])
          /\ \A q \in Payments : q # p => alloc'[q][i] = alloc[q][i]
      BY <1>2, <2>3, AllocateWrites
    <3>2. alloc[p][i] \in AllocRows
      BY <1>t DEF TypeOK
    <3> DEFINE row == alloc[p][i]
               new == alloc'[p][i]
    <3>3. /\ new.amount = row.amount + A[i] /\ new.live
          /\ new.revived = (row.revived \/ (row.amount > 0 /\ ~row.live))
          /\ row.amount \in Nat
      <4>1. new = [amount |-> row.amount + A[i], live |-> TRUE,
                   revived |-> row.revived \/ (row.amount > 0 /\ ~row.live)]
        BY <3>1 DEF Grown
      <4>2. row.amount \in Nat
        BY <3>2 DEF AllocRows
      <4> HIDE DEF new, row
      <4> QED BY <4>1, <4>2
    <3>4. /\ Paid(i) \in Int
          /\ Paid(i)' = Paid(i) + LiveAmount(p, i)' - LiveAmount(p, i)
      BY <1>t, <3>1, PaidMoves
    <3>5. /\ LiveAmount(p, i)' = row.amount + A[i]
          /\ LiveAmount(p, i) = IF row.live THEN row.amount ELSE 0
      BY <3>3 DEF LiveAmount
    <3>6. A[i] <= Total[i] - Paid(i)
      BY <3>1 DEF Outstanding
    <3> HIDE DEF row, new
    <3>7. ~row.live /\ row.amount > 0
      BY <1>0, <2>1, <3>3, <3>4, <3>5, <3>6
    <3> QED BY <3>3, <3>7 DEF new
  <2> QED BY <2>2, <2>3
<1>3. ASSUME NEW u \in Users, CommitUnpay(u)
      PROVE  \E q \in Payments : alloc'[q][i].revived
  <2>1. PICK p \in Payments : p = tx[u].doc
    BY <1>3, UnpayWrites
  <2>2. \A q \in Payments :
          alloc'[q][i] = IF q = p THEN [alloc[q][i] EXCEPT !.live = FALSE] ELSE alloc[q][i]
    BY <1>3, <2>1, UnpayWrites
  <2>3. \A q \in Payments : alloc[q][i] \in AllocRows
    BY <1>t DEF TypeOK
  <2>4. /\ Paid(i) \in Int
        /\ Paid(i)' = Paid(i) + LiveAmount(p, i)' - LiveAmount(p, i)
    BY <1>t, <2>2, PaidMoves
  <2>5. ~alloc'[p][i].live /\ alloc'[p][i].revived = alloc[p][i].revived
    BY <2>2, <2>3 DEF AllocRows
  <2>6. LiveAmount(p, i)' = 0 /\ LiveAmount(p, i) \in Nat
    BY <1>t, <2>5, LiveAmountNat DEF LiveAmount
  <2>7. Paid(i) > Total[i]
    BY <1>0, <2>4, <2>6
  <2> QED BY <1>0, <2>2, <2>5, <2>7
<1>4. CASE PaymentStep
  <2>1. ASSUME NEW p \in Payments, NEW A \in Asks, AddAllocation(p, A)
        PROVE  \E q \in Payments : alloc'[q][i].revived
    BY <1>2, <2>1 DEF AddAllocation
  <2>2. ASSUME NEW u \in Users, NEW A \in Asks, CommitPay(u, A)
        PROVE  \E q \in Payments : alloc'[q][i].revived
    BY <1>2, <1>t, <2>2, OpenTx DEF CommitPay
  <2> QED BY <1>1, <1>3, <1>4, <2>1, <2>2 DEF PaymentStep, MovePayment, BeginPay, BeginUnpay
<1>5. CASE InvoiceStep
  BY <1>1, <1>5 DEF InvoiceStep, CreateInvoice, BeginCreate, Match, Submit, Cancel,
     CreditNote, BeginApprove, CommitCreate, CommitApprove
<1>6. CASE ReceiptStep
  BY <1>1, <1>6 DEF ReceiptStep, CreateReceipt, PutCharges, MoveReceipt, PostReceipt,
     BeginUnreceive, CommitUnreceive
<1> QED BY <1>1, <1>4, <1>5, <1>6 DEF Next, Abandon, vars

-----------------------------------------------------------------------------
(* Invoices on the books.                                                   *)

Booked == {"approved", "partially_paid", "paid"}

BookedOnly ==
  \A i \in Invoices : OnTheBooks(i) => invoice[i].status \in Booked

CancelledHoldNothing ==
  \A i \in Invoices : invoice[i].status = "cancelled" => \A l \in Lines : match[i][l] = 0

InvoicedWasReceived ==
  \A c \in Charges :
    charge[c].status = "invoiced" => receipt[ChargedOn[c]] \in {"posted", "reversed"}

BooksInv == /\ BookedOnly /\ CancelledHoldNothing /\ InvoicedWasReceived
            /\ InvoicedIsMatched /\ ClearedOnce

LEMMA CleanWhenCancelled == TypeOK /\ BooksInv => CancelledIsClean
<1> SUFFICES ASSUME TypeOK, BooksInv, NEW i \in Invoices, invoice[i].status = "cancelled"
             PROVE  /\ \A l \in Lines : match[i][l] = 0
                    /\ ~OnTheBooks(i)
                    /\ \A c \in Charges : charge[c].status = "invoiced" => charge[c].by # i
  BY DEF CancelledIsClean
<1>1. ~OnTheBooks(i)
  BY DEF BooksInv, BookedOnly, Booked
<1>2. \A c \in Charges : charge[c].status = "invoiced" => charge[c].by # i
  <2> SUFFICES ASSUME NEW c \in Charges, charge[c].status = "invoiced", charge[c].by = i
               PROVE  FALSE
    OBVIOUS
  <2>1. i \in {j \in Invoices : OnTheBooks(j) /\ c \in Claims(j)}
    BY DEF BooksInv, ClearedOnce
  <2> QED BY <1>1, <2>1
<1> QED BY <1>1, <1>2 DEF BooksInv, CancelledHoldNothing

\* What an invoice backs of the quantity a receipt line counts as invoiced.
Backing(i, l) == IF OnTheBooks(i) /\ invoice[i].made.stock THEN match[i][l] ELSE 0
Backed(l) == SumFunction([i \in Invoices |-> Backing(i, l)])

LEMMA BackedIs ==
  InvoicedIsMatched <=> \A l \in Lines : invoiced[l] <= Backed(l)
BY DEF InvoicedIsMatched, Backed, Backing

LEMMA BackedMoves ==
  ASSUME TypeOK, TypeOK', NEW i \in Invoices, NEW l \in Lines,
         \A j \in Invoices : j # i => Backing(j, l)' = Backing(j, l)
  PROVE  /\ Backed(l) \in Int
         /\ Backed(l)' = Backed(l) + Backing(i, l)' - Backing(i, l)
<1> DEFINE f == [j \in Invoices |-> Backing(j, l)]
           g == [j \in Invoices |-> Backing(j, l)']
<1>1. \A j \in Invoices : match[j][l] \in Nat /\ match'[j][l] \in Nat
  BY DEF TypeOK
<1>2. f \in [Invoices -> Int] /\ g \in [Invoices -> Int]
  BY <1>1 DEF Backing
<1>3. \A j \in Invoices : i # j => g[j] = f[j]
  OBVIOUS
<1>4. SumFunction(f) \in Int /\ SumFunction(g) = SumFunction(f) + g[i] - f[i]
  <2> HIDE DEF f, g
  <2> QED BY <1>2, <1>3, PurchaseAssumption, SumInt, SumUpdate
<1>5. Backed(l) = SumFunction(f) /\ Backed(l)' = SumFunction(g)
  BY DEF Backed
<1> QED BY <1>4, <1>5

\* Steps that leave the books alone.
LEMMA BooksFrame ==
  ASSUME BooksInv, UNCHANGED invoiced,
         \A i \in Invoices :
           /\ OnTheBooks(i)' <=> OnTheBooks(i)
           /\ OnTheBooks(i) => /\ invoice'[i].made = invoice[i].made
                               /\ invoice'[i].status \in Booked
                               /\ match'[i] = match[i]
           /\ invoice'[i].status = "cancelled" => \A l \in Lines : match'[i][l] = 0,
         \A c \in Charges :
           /\ \/ charge'[c] = charge[c]
              \/ charge[c].status # "invoiced" /\ charge'[c].status # "invoiced"
           /\ charge[c].status = "invoiced" => receipt'[ChargedOn[c]] \in {"posted", "reversed"}
  PROVE  BooksInv'
<1>1. BookedOnly' /\ CancelledHoldNothing' /\ InvoicedWasReceived'
  BY DEF BookedOnly, CancelledHoldNothing, InvoicedWasReceived
<1>2. InvoicedIsMatched'
  <2>1. \A l \in Lines, i \in Invoices : Backing(i, l)' = Backing(i, l)
    BY DEF Backing
  <2>2. \A l \in Lines : Backed(l)' = Backed(l)
    BY <2>1 DEF Backed
  <2>3. \A l \in Lines : invoiced'[l] <= Backed(l)'
    BY <2>2, BackedIs DEF BooksInv
  <2>4. InvoicedIsMatched' <=> \A l \in Lines : invoiced'[l] <= Backed(l)'
    BY DEF InvoicedIsMatched, Backed, Backing
  <2> QED BY <2>3, <2>4
<1>3. ClearedOnce'
  <2> SUFFICES ASSUME NEW c \in Charges
               PROVE  {i \in Invoices : OnTheBooks(i)' /\ c \in Claims(i)'}
                        = IF charge'[c].status = "invoiced" THEN {charge'[c].by} ELSE {}
    BY DEF ClearedOnce
  <2>1. {i \in Invoices : OnTheBooks(i)' /\ c \in Claims(i)'}
          = {i \in Invoices : OnTheBooks(i) /\ c \in Claims(i)}
    BY DEF Claims
  <2> QED BY <2>1 DEF BooksInv, ClearedOnce
<1> QED BY <1>1, <1>2, <1>3 DEF BooksInv

LEMMA InvoicesUntouched ==
  ASSUME BooksInv, UNCHANGED <<invoice, match, invoiced>>,
         \A c \in Charges :
           /\ \/ charge'[c] = charge[c]
              \/ charge[c].status # "invoiced" /\ charge'[c].status # "invoiced"
           /\ charge[c].status = "invoiced" => receipt'[ChargedOn[c]] \in {"posted", "reversed"}
  PROVE  BooksInv'
<1>1. \A i \in Invoices :
        /\ OnTheBooks(i)' <=> OnTheBooks(i)
        /\ OnTheBooks(i) => /\ invoice'[i].made = invoice[i].made
                            /\ invoice'[i].status \in Booked
                            /\ match'[i] = match[i]
        /\ invoice'[i].status = "cancelled" => \A l \in Lines : match'[i][l] = 0
  BY DEF OnTheBooks, Exists, BooksInv, BookedOnly, CancelledHoldNothing
<1> QED BY <1>1, BooksFrame

LEMMA ReceiptBooks == TypeOK /\ BooksInv /\ ReceiptStep => BooksInv'
<1> SUFFICES ASSUME TypeOK, BooksInv, ReceiptStep PROVE BooksInv'
  OBVIOUS
<1> USE DEF receiptVars, invoiceVars, paymentVars
<1>0. /\ \A c \in Charges : ChargedOn[c] \in Receipts
      /\ \A c \in Charges : charge[c].status = "invoiced" =>
           receipt[ChargedOn[c]] \in {"posted", "reversed"}
  BY PurchaseAssumption DEF BooksInv, InvoicedWasReceived
<1>1. CASE UNCHANGED <<receipt, invoiceVars, invoice>>
  BY <1>0, <1>1, InvoicesUntouched
<1>2. ASSUME NEW r \in Receipts, NEW C \in SUBSET ChargesOf(r),
             CreateReceipt(r, C) \/ PutCharges(r, C)
      PROVE  BooksInv'
  <2>1. /\ receipt[r] \in {"none", "draft", "approved"}
        /\ charge' = Charged(r, C) /\ UNCHANGED <<invoice, match, invoiced>>
        /\ receipt' = receipt \/ receipt' = [receipt EXCEPT ![r] = "draft"]
    BY <1>2 DEF CreateReceipt, PutCharges
  <2>2. ASSUME NEW c \in Charges
        PROVE  /\ \/ charge'[c] = charge[c]
                  \/ charge[c].status # "invoiced" /\ charge'[c].status # "invoiced"
               /\ charge[c].status = "invoiced" => receipt'[ChargedOn[c]] \in {"posted", "reversed"}
    <3>1. CASE ChargedOn[c] = r
      <4>1. charge[c].status # "invoiced"
        BY <1>0, <2>1, <3>1
      <4>2. charge'[c] = Accrued \/ charge'[c] = NoRow
        BY <2>1, <3>1 DEF Charged, ChargesOf
      <4> QED BY <4>1, <4>2 DEF Accrued, NoRow
    <3>2. CASE ChargedOn[c] # r
      <4>1. charge'[c] = charge[c] /\ receipt'[ChargedOn[c]] = receipt[ChargedOn[c]]
        BY <1>0, <2>1, <3>2 DEF Charged, ChargesOf, TypeOK
      <4> QED BY <1>0, <4>1
    <3> QED BY <3>1, <3>2
  <2> QED BY <2>1, <2>2, InvoicesUntouched
<1>3. ASSUME NEW r \in Receipts, NEW s, receipt' = [receipt EXCEPT ![r] = s],
             receipt[r] \in {"draft", "approved"} \/ s \in {"posted", "reversed"},
             UNCHANGED <<charge, invoice, match, invoiced>>
      PROVE  BooksInv'
  <2>1. ASSUME NEW c \in Charges, charge[c].status = "invoiced"
        PROVE  receipt'[ChargedOn[c]] \in {"posted", "reversed"}
    <3>1. receipt'[ChargedOn[c]] = IF ChargedOn[c] = r THEN s ELSE receipt[ChargedOn[c]]
      BY <1>0, <1>3 DEF TypeOK
    <3> QED BY <1>0, <1>3, <2>1, <3>1
  <2> QED BY <1>3, <2>1, InvoicesUntouched
<1>4. ASSUME NEW r \in Receipts, MoveReceipt(r) PROVE BooksInv'
  <2>1. PICK s : receipt' = [receipt EXCEPT ![r] = s]
    BY <1>4 DEF MoveReceipt
  <2>2. receipt[r] \in {"draft", "approved"} /\ UNCHANGED <<charge, invoice, match, invoiced>>
    BY <1>4 DEF MoveReceipt
  <2> QED BY <1>3, <2>1, <2>2
<1>5. ASSUME NEW r \in Receipts, PostReceipt(r) PROVE BooksInv'
  BY <1>3, <1>5 DEF PostReceipt
<1>6. ASSUME NEW u \in Users, CommitUnreceive(u) PROVE BooksInv'
  <2>1. PICK r \in Receipts : r = tx[u].doc
    BY <1>6, OpenTx DEF CommitUnreceive
  <2>2. receipt' = [receipt EXCEPT ![r] = "reversed"] /\ UNCHANGED <<charge, invoice, match, invoiced>>
    BY <1>6, <2>1 DEF CommitUnreceive
  <2> QED BY <1>3, <2>2
<1> QED BY <1>1, <1>2, <1>4, <1>5, <1>6 DEF ReceiptStep, BeginUnreceive

\* A status that follows the money neither enters nor leaves the books.
LEMMA StatusFollowsMoney ==
  ASSUME TypeOK, BooksInv, NEW i \in Invoices, UNCHANGED match,
         \/ invoice'[i] = invoice[i]
         \/ Exists(i) /\ \E n : invoice'[i] = [invoice[i] EXCEPT !.status = StatusFor(i, n)]
  PROVE  /\ OnTheBooks(i)' <=> OnTheBooks(i)
         /\ OnTheBooks(i) => /\ invoice'[i].made = invoice[i].made
                             /\ invoice'[i].status \in Booked
                             /\ match'[i] = match[i]
         /\ invoice'[i].status = "cancelled" => \A l \in Lines : match'[i][l] = 0
<1>1. CASE invoice'[i] = invoice[i]
  BY <1>1 DEF OnTheBooks, Exists, BooksInv, BookedOnly, CancelledHoldNothing
<1>2. CASE Exists(i) /\ \E n : invoice'[i] = [invoice[i] EXCEPT !.status = StatusFor(i, n)]
  <2>1. PICK n : invoice'[i] = [invoice[i] EXCEPT !.status = StatusFor(i, n)]
    BY <1>2
  <2>2. invoice[i] \in InvoiceRows
    BY <1>2, InvoiceRow
  <2>3. /\ invoice'[i].status = StatusFor(i, n)
        /\ invoice'[i].made = invoice[i].made /\ invoice'[i].journal = invoice[i].journal
    BY <2>1, <2>2 DEF InvoiceRows
  <2>4. IF invoice[i].status = "cancelled" THEN StatusFor(i, n) = "cancelled"
        ELSE StatusFor(i, n) \in Booked
    BY DEF StatusFor, Booked
  <2>5. OnTheBooks(i) => invoice[i].status # "cancelled"
    BY DEF BooksInv, BookedOnly, Booked
  <2>6. OnTheBooks(i)' <=> OnTheBooks(i)
    BY <1>2, <2>3, <2>4 DEF OnTheBooks, Exists, Booked
  <2>7. invoice'[i].status = "cancelled" => \A l \in Lines : match'[i][l] = 0
    BY <2>3, <2>4 DEF Booked, BooksInv, CancelledHoldNothing
  <2> QED BY <2>3, <2>4, <2>5, <2>6, <2>7
<1> QED BY <1>1, <1>2

LEMMA PaymentBooks == TypeInv /\ BooksInv /\ PaymentStep => BooksInv'
<1> SUFFICES ASSUME TypeInv, BooksInv, PaymentStep PROVE BooksInv'
  OBVIOUS
<1> USE DEF receiptVars, invoiceVars, paymentVars
<1>t. TypeOK
  BY DEF TypeInv
<1>1. UNCHANGED <<receipt, charge, invoiced, match>>
  BY DEF PaymentStep, MovePayment, AddAllocation, BeginPay, BeginUnpay, CommitPay, CommitUnpay
<1>2. ASSUME NEW i \in Invoices
      PROVE  \/ invoice'[i] = invoice[i]
             \/ Exists(i) /\ \E n : invoice'[i] = [invoice[i] EXCEPT !.status = StatusFor(i, n)]
  <2>1. ASSUME NEW p \in Payments, NEW A \in Asks, NEW seen, Allocate(p, A, seen)
        PROVE  \/ invoice'[i] = invoice[i]
               \/ Exists(i) /\ \E n : invoice'[i] = [invoice[i] EXCEPT !.status = StatusFor(i, n)]
    BY <2>1, AllocateWrites
  <2>2. ASSUME NEW p \in Payments, NEW A \in Asks, AddAllocation(p, A)
        PROVE  \/ invoice'[i] = invoice[i]
               \/ Exists(i) /\ \E n : invoice'[i] = [invoice[i] EXCEPT !.status = StatusFor(i, n)]
    BY <2>1, <2>2 DEF AddAllocation
  <2>3. ASSUME NEW u \in Users, NEW A \in Asks, CommitPay(u, A)
        PROVE  \/ invoice'[i] = invoice[i]
               \/ Exists(i) /\ \E n : invoice'[i] = [invoice[i] EXCEPT !.status = StatusFor(i, n)]
    BY <1>t, <2>1, <2>3, OpenTx DEF CommitPay
  <2>4. ASSUME NEW u \in Users, CommitUnpay(u)
        PROVE  \/ invoice'[i] = invoice[i]
               \/ Exists(i) /\ \E n : invoice'[i] = [invoice[i] EXCEPT !.status = StatusFor(i, n)]
    BY <2>4, UnpayWrites
  <2> QED BY <2>2, <2>3, <2>4 DEF PaymentStep, MovePayment, BeginPay, BeginUnpay
<1>3. \A c \in Charges : charge[c].status = "invoiced" =>
        receipt'[ChargedOn[c]] \in {"posted", "reversed"}
  BY <1>1 DEF BooksInv, InvoicedWasReceived
<1>4. \A i \in Invoices :
        /\ OnTheBooks(i)' <=> OnTheBooks(i)
        /\ OnTheBooks(i) => /\ invoice'[i].made = invoice[i].made
                            /\ invoice'[i].status \in Booked
                            /\ match'[i] = match[i]
        /\ invoice'[i].status = "cancelled" => \A l \in Lines : match'[i][l] = 0
  BY <1>t, <1>1, <1>2, StatusFollowsMoney
<1> QED BY <1>1, <1>3, <1>4, BooksFrame

LEMMA OffTheBooks ==
  ASSUME BooksInv, NEW i \in Invoices, UNCHANGED <<receipt, charge, invoiced>>,
         \A j \in Invoices : j # i => invoice'[j] = invoice[j] /\ match'[j] = match[j],
         ~OnTheBooks(i), ~OnTheBooks(i)',
         invoice'[i].status = "cancelled" => \A l \in Lines : match'[i][l] = 0
  PROVE  BooksInv'
<1>1. ASSUME NEW j \in Invoices
      PROVE  /\ OnTheBooks(j)' <=> OnTheBooks(j)
             /\ OnTheBooks(j) => /\ invoice'[j].made = invoice[j].made
                                 /\ invoice'[j].status \in Booked
                                 /\ match'[j] = match[j]
             /\ invoice'[j].status = "cancelled" => \A l \in Lines : match'[j][l] = 0
  <2>1. CASE j = i
    BY <2>1
  <2>2. CASE j # i
    BY <2>2 DEF OnTheBooks, Exists, BooksInv, BookedOnly, CancelledHoldNothing
  <2> QED BY <2>1, <2>2
<1>2. \A c \in Charges : charge[c].status = "invoiced" =>
        receipt'[ChargedOn[c]] \in {"posted", "reversed"}
  BY DEF BooksInv, InvoicedWasReceived
<1> QED BY <1>1, <1>2, BooksFrame

\* The fields of the invoice an approval or a credit note writes.
LEMMA BookedRow ==
  ASSUME TypeOK, NEW i \in Invoices, Exists(i), NEW s, NEW j,
         invoice' = [invoice EXCEPT ![i].status = s, ![i].journal = j]
  PROVE  /\ invoice'[i].status = s /\ invoice'[i].journal = j
         /\ invoice'[i].made = invoice[i].made
         /\ \A k \in Invoices : k # i => invoice'[k] = invoice[k]
<1>1. invoice[i] \in InvoiceRows
  BY InvoiceRow
<1>2. invoice'[i] = [invoice[i] EXCEPT !.status = s, !.journal = j]
  BY DEF TypeOK
<1> QED BY <1>1, <1>2 DEF InvoiceRows, TypeOK

LEMMA ApproveBooks ==
  ASSUME TypeOK, TypeOK', BooksInv, NEW u \in Users, CommitApprove(u)
  PROVE  BooksInv'
<1> USE DEF receiptVars, invoiceVars, paymentVars
<1>1. PICK i \in Invoices : i = tx[u].doc
  BY OpenTx DEF CommitApprove
<1> DEFINE consumed == Consumed(i, tx[u].refs)
<1>2. /\ Exists(i) /\ invoice[i].status = "pending_review"
      /\ Invoiceable(Claims(i)) /\ UNCHANGED <<receipt, match>>
      /\ invoiced' = [l \in Lines |-> IF l \in consumed THEN invoiced[l] + match[i][l]
                                      ELSE invoiced[l]]
      /\ charge' = [c \in Charges |-> IF c \in Claims(i)
                      THEN [status |-> "invoiced", by |-> i] ELSE charge[c]]
      /\ invoice' = [invoice EXCEPT ![i].status = "approved", ![i].journal = "live"]
  BY <1>1 DEF CommitApprove, Exists
<1>3. /\ invoice'[i].status = "approved" /\ invoice'[i].journal = "live"
      /\ invoice'[i].made = invoice[i].made
      /\ \A j \in Invoices : j # i => invoice'[j] = invoice[j]
  BY <1>2, BookedRow
<1>4. /\ ~OnTheBooks(i) /\ OnTheBooks(i)'
      /\ \A j \in Invoices : j # i => (OnTheBooks(j)' <=> OnTheBooks(j))
  BY <1>2, <1>3 DEF OnTheBooks, Exists, BooksInv, BookedOnly, Booked
<1>5. BookedOnly' /\ CancelledHoldNothing'
  BY <1>2, <1>3, <1>4 DEF BooksInv, BookedOnly, Booked, CancelledHoldNothing
<1>6. InvoicedWasReceived'
  BY <1>2 DEF BooksInv, InvoicedWasReceived, Invoiceable
<1>7. \A l \in Lines : invoiced'[l] <= Backed(l)'
  <2> TAKE l \in Lines
  <2>1. \A j \in Invoices : j # i => Backing(j, l)' = Backing(j, l)
    BY <1>2, <1>3, <1>4 DEF Backing
  <2>2. /\ Backing(i, l) = 0
        /\ Backing(i, l)' = IF invoice[i].made.stock THEN match[i][l] ELSE 0
    BY <1>2, <1>3, <1>4 DEF Backing
  <2>3. Backed(l) \in Int /\ Backed(l)' = Backed(l) + Backing(i, l)' - Backing(i, l)
    BY <2>1, BackedMoves
  <2>4. invoiced[l] <= Backed(l) /\ invoiced[l] \in Nat /\ match[i][l] \in Nat
    BY BackedIs DEF BooksInv, TypeOK
  <2>5. l \in consumed => invoice[i].made.stock
    BY DEF Consumed
  <2>6. invoiced'[l] = IF l \in consumed THEN invoiced[l] + match[i][l] ELSE invoiced[l]
    BY <1>2
  <2> HIDE DEF consumed
  <2>7. CASE l \in consumed
    BY <2>2, <2>3, <2>4, <2>5, <2>6, <2>7
  <2>8. CASE l \notin consumed
    BY <2>2, <2>3, <2>4, <2>6, <2>8
  <2> QED BY <2>7, <2>8
<1>8. ClearedOnce'
  <2> SUFFICES ASSUME NEW c \in Charges
               PROVE  {j \in Invoices : OnTheBooks(j)' /\ c \in Claims(j)'}
                        = IF charge'[c].status = "invoiced" THEN {charge'[c].by} ELSE {}
    BY DEF ClearedOnce
  <2>1. {j \in Invoices : OnTheBooks(j) /\ c \in Claims(j)}
          = IF charge[c].status = "invoiced" THEN {charge[c].by} ELSE {}
    BY DEF BooksInv, ClearedOnce
  <2>2. \A j \in Invoices : Claims(j)' = Claims(j)
    BY <1>3 DEF Claims
  <2>3. CASE c \in Claims(i)
    <3>1. charge[c].status = "accrued"
      BY <1>2, <2>3 DEF Invoiceable
    <3>2. \A j \in Invoices : ~(OnTheBooks(j) /\ c \in Claims(j))
      BY <2>1, <3>1
    <3>3. {j \in Invoices : OnTheBooks(j)' /\ c \in Claims(j)'} = {i}
      BY <1>4, <2>2, <2>3, <3>2
    <3>4. charge'[c] = [status |-> "invoiced", by |-> i]
      BY <1>2, <2>3
    <3> QED BY <3>3, <3>4
  <2>4. CASE c \notin Claims(i)
    <3>1. {j \in Invoices : OnTheBooks(j)' /\ c \in Claims(j)'}
            = {j \in Invoices : OnTheBooks(j) /\ c \in Claims(j)}
      BY <1>4, <2>2, <2>4
    <3>2. charge'[c] = charge[c]
      BY <1>2, <2>4
    <3> QED BY <2>1, <3>1, <3>2
  <2> QED BY <2>3, <2>4
<1>9. InvoicedIsMatched'
  BY <1>7 DEF InvoicedIsMatched, Backed, Backing
<1> QED BY <1>5, <1>6, <1>8, <1>9 DEF BooksInv

LEMMA CreditBooks ==
  ASSUME TypeInv, TypeOK', BooksInv, NEW i \in Invoices, CreditNote(i)
  PROVE  BooksInv'
<1> USE DEF receiptVars, invoiceVars, paymentVars
<1>t. TypeOK
  BY DEF TypeInv
<1>1. /\ Exists(i) /\ Credited(i) \in {"none", "reversed"}
      /\ invoice' = [invoice EXCEPT ![i].status = "cancelled", ![i].journal = Credited(i)]
  BY CreditNoteWrites
<1>2. /\ invoiced' = Released(i) /\ charge' = Reopened(i) /\ match' = Unmatched(i)
      /\ Releasable(i) /\ UNCHANGED receipt
  BY DEF CreditNote
<1>3. /\ invoice'[i].status = "cancelled" /\ invoice'[i].journal = Credited(i)
      /\ invoice'[i].made = invoice[i].made
      /\ \A j \in Invoices : j # i => invoice'[j] = invoice[j]
  BY <1>t, <1>1, BookedRow
<1>4. /\ ~OnTheBooks(i)'
      /\ \A j \in Invoices : j # i => (OnTheBooks(j)' <=> OnTheBooks(j))
  BY <1>1, <1>3 DEF OnTheBooks, Exists
<1>5. /\ \A j \in Invoices : j # i => match'[j] = match[j]
      /\ \A l \in Lines : match'[i][l] = 0
  BY <1>t, <1>2 DEF Unmatched, TypeOK
<1>6. BookedOnly' /\ CancelledHoldNothing'
  BY <1>3, <1>4, <1>5 DEF BooksInv, BookedOnly, Booked, CancelledHoldNothing
<1>7. InvoicedWasReceived'
  BY <1>2 DEF BooksInv, InvoicedWasReceived, Reopened, Accrued
<1>8. \A l \in Lines : invoiced'[l] <= Backed(l)'
  <2> TAKE l \in Lines
  <2>1. \A j \in Invoices : j # i => Backing(j, l)' = Backing(j, l)
    BY <1>3, <1>4, <1>5 DEF Backing
  <2>2. /\ Backing(i, l)' = 0
        /\ Backing(i, l) = match[i][l] \/ Backing(i, l) = 0
    BY <1>4 DEF Backing
  <2>3. Backed(l) \in Int /\ Backed(l)' = Backed(l) + Backing(i, l)' - Backing(i, l)
    BY <1>t, <2>1, BackedMoves
  <2>4. invoiced[l] <= Backed(l) /\ invoiced[l] \in Nat /\ match[i][l] \in Nat
    BY <1>t, BackedIs DEF BooksInv, TypeOK
  <2>5. invoiced'[l] = invoiced[l] - match[i][l]
    BY <1>2 DEF Released
  <2> QED BY <2>2, <2>3, <2>4, <2>5
<1>9. ClearedOnce'
  <2> SUFFICES ASSUME NEW c \in Charges
               PROVE  {j \in Invoices : OnTheBooks(j)' /\ c \in Claims(j)'}
                        = IF charge'[c].status = "invoiced" THEN {charge'[c].by} ELSE {}
    BY DEF ClearedOnce
  <2>1. {j \in Invoices : OnTheBooks(j) /\ c \in Claims(j)}
          = IF charge[c].status = "invoiced" THEN {charge[c].by} ELSE {}
    BY DEF BooksInv, ClearedOnce
  <2>2. \A j \in Invoices : Claims(j)' = Claims(j)
    BY <1>3 DEF Claims
  <2>3. {j \in Invoices : OnTheBooks(j)' /\ c \in Claims(j)'}
          = {j \in Invoices : OnTheBooks(j) /\ c \in Claims(j)} \ {i}
    BY <1>4, <2>2
  <2>4. CASE charge[c].status = "invoiced" /\ charge[c].by = i
    <3>1. charge'[c] = Accrued
      BY <1>2, <2>4 DEF Reopened
    <3> QED BY <2>1, <2>3, <2>4, <3>1 DEF Accrued
  <2>5. CASE ~(charge[c].status = "invoiced" /\ charge[c].by = i)
    <3>1. charge'[c] = charge[c]
      BY <1>2, <2>5 DEF Reopened
    <3> QED BY <2>1, <2>3, <2>5, <3>1
  <2> QED BY <2>4, <2>5
<1>10. InvoicedIsMatched'
  BY <1>8 DEF InvoicedIsMatched, Backed, Backing
<1> QED BY <1>6, <1>7, <1>9, <1>10 DEF BooksInv

LEMMA InvoiceBooks ==
  ASSUME TypeInv, TypeOK', BooksInv, InvoiceStep
  PROVE  BooksInv'
<1> USE DEF receiptVars, invoiceVars, paymentVars
<1>t. TypeOK
  BY DEF TypeInv
<1>0. \A i \in Invoices : invoice[i].status \notin Booked => ~OnTheBooks(i)
  BY DEF BooksInv, BookedOnly
<1>1. ASSUME NEW i \in Invoices, NEW d \in Drafts, ~Exists(i),
             invoice' = [invoice EXCEPT ![i] = Draft(d)],
             UNCHANGED <<receipt, charge, invoiced, match>>
      PROVE  BooksInv'
  <2>1. invoice'[i] = Draft(d) /\ \A j \in Invoices : j # i => invoice'[j] = invoice[j]
    BY <1>t, <1>1 DEF TypeOK
  <2>2. ~OnTheBooks(i) /\ ~OnTheBooks(i)' /\ invoice'[i].status # "cancelled"
    BY <1>1, <2>1 DEF OnTheBooks, Draft
  <2> QED BY <1>1, <2>1, <2>2, OffTheBooks
<1>2. ASSUME NEW i \in Invoices, Match(i) PROVE BooksInv'
  <2>1. /\ invoice[i].status \in {"draft", "pending_review"}
        /\ UNCHANGED <<receipt, charge, invoiced, invoice>>
        /\ \E want : match' = [match EXCEPT ![i] = want]
    BY <1>2 DEF Match
  <2>2. \A j \in Invoices : j # i => invoice'[j] = invoice[j] /\ match'[j] = match[j]
    BY <1>t, <2>1 DEF TypeOK
  <2>3. ~OnTheBooks(i) /\ ~OnTheBooks(i)' /\ invoice'[i].status # "cancelled"
    BY <1>0, <2>1 DEF Booked, OnTheBooks, Exists
  <2> QED BY <2>1, <2>2, <2>3, OffTheBooks
<1>3. ASSUME NEW i \in Invoices, NEW s \in {"pending_review", "cancelled"},
             IF s = "cancelled" THEN Cancel(i) ELSE Submit(i)
      PROVE  BooksInv'
  <2>1. /\ invoice[i].status \in {"draft", "pending_review"} /\ Exists(i)
        /\ UNCHANGED <<receipt, charge, invoiced>>
        /\ invoice' = [invoice EXCEPT ![i].status = s]
        /\ match' = match \/ match' = Unmatched(i)
    BY <1>3 DEF Submit, Cancel, Exists
  <2>2. \A j \in Invoices : j # i => invoice'[j] = invoice[j] /\ match'[j] = match[j]
    BY <1>t, <2>1 DEF TypeOK, Unmatched
  <2>3. invoice[i] \in InvoiceRows
    BY <1>t, <2>1, InvoiceRow
  <2>4. invoice'[i].journal = invoice[i].journal /\ invoice'[i].status = s
    BY <1>t, <2>1, <2>3 DEF TypeOK, InvoiceRows
  <2>5. ~OnTheBooks(i) /\ ~OnTheBooks(i)'
    BY <1>0, <2>1, <2>4 DEF Booked, OnTheBooks, Exists
  <2>6. s = "cancelled" => \A l \in Lines : match'[i][l] = 0
    BY <1>3, <1>t DEF Cancel, Unmatched, TypeOK
  <2> QED BY <2>1, <2>2, <2>4, <2>5, <2>6, OffTheBooks
<1>4. ASSUME NEW i \in Invoices, NEW d \in Drafts, CreateInvoice(i, d) PROVE BooksInv'
  BY <1>1, <1>4 DEF CreateInvoice
<1>5. ASSUME NEW u \in Users, CommitCreate(u) PROVE BooksInv'
  <2>1. tx[u].doc \in Invoices /\ tx[u].made \in Drafts
    BY <1>t, <1>5, OpenTx DEF CommitCreate
  <2> QED BY <1>1, <1>5, <2>1 DEF CommitCreate
<1>6. ASSUME UNCHANGED <<receipt, invoiceVars, invoice>> PROVE BooksInv'
  BY <1>6, InvoicesUntouched DEF BooksInv, InvoicedWasReceived
<1>7. ASSUME NEW u \in Users, CommitApprove(u) PROVE BooksInv'
  BY <1>t, <1>7, ApproveBooks
<1>8. ASSUME NEW i \in Invoices, CreditNote(i) PROVE BooksInv'
  BY <1>8, CreditBooks
<1>9. ASSUME NEW i \in Invoices, Submit(i) \/ Cancel(i) PROVE BooksInv'
  <2>1. CASE Submit(i)
    <3>1. PICK s \in {"pending_review", "cancelled"} : s = "pending_review"
      OBVIOUS
    <3> QED BY <1>3, <2>1, <3>1
  <2>2. CASE Cancel(i)
    <3>1. PICK s \in {"pending_review", "cancelled"} : s = "cancelled"
      OBVIOUS
    <3> QED BY <1>3, <2>2, <3>1
  <2> QED BY <1>9, <2>1, <2>2
<1>10. ASSUME NEW u \in Users, NEW i \in Invoices,
              BeginApprove(u, i) \/ \E d \in Drafts : BeginCreate(u, i, d)
       PROVE  BooksInv'
  BY <1>6, <1>10 DEF BeginApprove, BeginCreate
<1> QED BY <1>2, <1>4, <1>5, <1>7, <1>8, <1>9, <1>10 DEF InvoiceStep

LEMMA BooksStep == TypeInv /\ TypeOK' /\ BooksInv /\ [Next]_vars => BooksInv'
<1> SUFFICES ASSUME TypeInv, TypeOK', BooksInv, [Next]_vars PROVE BooksInv'
  OBVIOUS
<1>1. CASE UNCHANGED <<receiptVars, invoiceVars, invoice>>
  BY <1>1, InvoicesUntouched DEF BooksInv, InvoicedWasReceived, receiptVars, invoiceVars
<1> QED BY <1>1, ReceiptBooks, InvoiceBooks, PaymentBooks DEF Next, Abandon, vars, TypeInv

-----------------------------------------------------------------------------
(* The inductive invariant and what follows from it.                        *)

PurchaseInv == /\ TypeInv /\ ReceivedFits /\ CapacityKept
               /\ OnlyRevivalOverpays /\ BooksInv

LEMMA PurchaseInit == Init => PurchaseInv
<1> SUFFICES ASSUME Init PROVE PurchaseInv
  OBVIOUS
<1>1. TypeInv
  BY TypeInit
<1>2. ReceivedFits
  <2> SUFFICES ASSUME NEW o \in OrderLines
               PROVE  received[o] = PostedShares(o) /\ received[o] <= Ordered[o]
    BY DEF ReceivedFits
  <2> DEFINE f == [r \in Receipts |-> Share(r, o)]
  <2>1. f \in [Receipts -> Int] /\ \A r \in Receipts : f[r] = 0
    BY DEF Init, Share
  <2>2. SumFunction(f) = 0
    <3> HIDE DEF f
    <3> QED BY <2>1, PurchaseAssumption, SumZero
  <2> QED BY <2>2, PurchaseAssumption DEF Init, PostedShares
<1>3. CapacityKept
  <2> SUFFICES ASSUME NEW l \in Lines PROVE MatchTotal(l) <= Qty[l]
    BY DEF CapacityKept
  <2> DEFINE f == [i \in Invoices |-> match[i][l]]
  <2>1. f \in [Invoices -> Int] /\ \A i \in Invoices : f[i] = 0
    BY DEF Init
  <2>2. SumFunction(f) = 0
    <3> HIDE DEF f
    <3> QED BY <2>1, PurchaseAssumption, SumZero
  <2> QED BY <2>2, PurchaseAssumption DEF MatchTotal
<1>4. OnlyRevivalOverpays
  <2> SUFFICES ASSUME NEW i \in Invoices PROVE ~(Paid(i) > Total[i])
    BY DEF OnlyRevivalOverpays
  <2> DEFINE f == [p \in Payments |-> LiveAmount(p, i)]
  <2>1. f \in [Payments -> Int] /\ \A p \in Payments : f[p] = 0
    BY DEF Init, LiveAmount, NoAlloc
  <2>2. SumFunction(f) = 0
    <3> HIDE DEF f
    <3> QED BY <2>1, PurchaseAssumption, SumZero
  <2>3. Paid(i) = 0 /\ Total[i] \in Nat
    BY <2>2, PurchaseAssumption DEF Paid
  <2> QED BY <2>3
<1>5. BooksInv
  <2>1. \A i \in Invoices : ~Exists(i) /\ invoice[i].status # "cancelled"
    BY DEF Init, Exists, NoRow
  <2>2. \A c \in Charges : charge[c].status # "invoiced"
    BY DEF Init, NoRow
  <2>3. BookedOnly /\ CancelledHoldNothing /\ InvoicedWasReceived /\ ClearedOnce
    BY <2>1, <2>2 DEF BookedOnly, CancelledHoldNothing, InvoicedWasReceived, ClearedOnce, OnTheBooks
  <2>4. ASSUME NEW l \in Lines PROVE invoiced[l] <= Backed(l)
    <3> DEFINE f == [i \in Invoices |-> Backing(i, l)]
    <3>1. f \in [Invoices -> Int] /\ \A i \in Invoices : f[i] = 0
      BY <2>1 DEF Backing, OnTheBooks
    <3>2. SumFunction(f) = 0
      <4> HIDE DEF f
      <4> QED BY <3>1, PurchaseAssumption, SumZero
    <3>3. Backed(l) = 0 /\ invoiced[l] = 0
      BY <3>2 DEF Backed, Init
    <3> QED BY <3>3
  <2> QED BY <2>3, <2>4, BackedIs DEF BooksInv
<1> QED BY <1>1, <1>2, <1>3, <1>4, <1>5 DEF PurchaseInv

LEMMA PurchaseStep == PurchaseInv /\ [Next]_vars => PurchaseInv'
<1> SUFFICES ASSUME PurchaseInv, [Next]_vars PROVE PurchaseInv'
  OBVIOUS
<1>1. TypeInv /\ TypeInv' /\ TypeOK /\ TypeOK'
  BY TypeStep DEF PurchaseInv, TypeInv
<1>2. ReceivedFits' /\ CapacityKept'
  BY <1>1, ReceivedStep, CapacityStep DEF PurchaseInv
<1>3. OnlyRevivalOverpays'
  BY <1>1, PaidStep DEF PurchaseInv
<1>4. BooksInv'
  BY <1>1, BooksStep DEF PurchaseInv
<1> QED BY <1>1, <1>2, <1>3, <1>4 DEF PurchaseInv

LEMMA PurchaseHolds == Spec => []PurchaseInv
BY PurchaseInit, PurchaseStep, PTL DEF Spec

\* Any number of invoices, drafted, matched, cancelled and credited in any
\* order, never hold more of a receipt line than was received on it
\* (lockReceiptMatchPlan).
THEOREM LinesNeverOverMatched == Spec => []CapacityHolds
<1>1. PurchaseInv => CapacityHolds
  BY DEF PurchaseInv, CapacityKept, CapacityHolds, MatchTotal
<1> QED BY <1>1, PurchaseHolds, PTL

\* An order line counts as received what its posted receipts brought, and
\* never more than was ordered (applyReceiptStock and its reversal).
THEOREM OrdersNeverOverReceived == Spec => []NeverOverReceived
<1>1. PurchaseInv => NeverOverReceived
  BY ReceivedFitsIs DEF PurchaseInv
<1> QED BY <1>1, PurchaseHolds, PTL

\* What a receipt line counts as invoiced is backed by matches of invoices on
\* the books (applyApprovedReceiptQuantities, releaseApprovedReceiptQuantities).
THEOREM InvoicedIsBacked == Spec => []InvoicedIsMatched
<1>1. PurchaseInv => InvoicedIsMatched
  BY DEF PurchaseInv, BooksInv
<1> QED BY <1>1, PurchaseHolds, PTL

\* An import charge that says invoiced is cleared by the journal of the one
\* invoice it names, and any other charge by none (_lockInvoiceableCharges).
THEOREM ChargesClearedOnce == Spec => []ClearedOnce
<1>1. PurchaseInv => ClearedOnce
  BY DEF PurchaseInv, BooksInv
<1> QED BY <1>1, PurchaseHolds, PTL

\* A cancelled invoice holds no capacity, no charge and no standing journal
\* (cancel and credit-note of the supplier invoices).
THEOREM CancelledLeavesNothing == Spec => []CancelledIsClean
<1>1. PurchaseInv => CancelledIsClean
  BY CleanWhenCancelled DEF PurchaseInv, TypeInv
<1> QED BY <1>1, PurchaseHolds, PTL

\* No invoice is paid beyond its total but by a reversed allocation brought
\* back with its old amount (_applyAllocations).
THEOREM OnlyRevivedOverpay == Spec => []OnlyRevivalOverpays
<1>1. PurchaseInv => OnlyRevivalOverpays
  BY DEF PurchaseInv
<1> QED BY <1>1, PurchaseHolds, PTL

LEMMA EvidenceStep ==
  ASSUME PurchaseInv, [Next]_vars, NEW i \in Invoices, OnTheBooks(i)
  PROVE  match'[i] = match[i] \/ invoice'[i].journal = "reversed"
<1> USE DEF receiptVars, invoiceVars, paymentVars
<1>t. TypeInv /\ TypeOK
  BY DEF PurchaseInv, TypeInv
<1>0. invoice[i].status \in Booked /\ invoice[i].journal = "live"
  BY DEF PurchaseInv, BooksInv, BookedOnly, OnTheBooks
<1>1. ASSUME NEW k \in Invoices, Match(k) \/ Cancel(k) PROVE match'[i] = match[i]
  <2>1. k # i /\ \E w : match' = [match EXCEPT ![k] = w]
    BY <1>0, <1>1 DEF Match, Cancel, Unmatched, Booked
  <2> QED BY <1>t, <2>1 DEF TypeOK
<1>2. ASSUME NEW k \in Invoices, CreditNote(k)
      PROVE  match'[i] = match[i] \/ invoice'[i].journal = "reversed"
  <2>1. CASE k # i
    BY <1>t, <1>2, <2>1 DEF CreditNote, Unmatched, TypeOK
  <2>2. CASE k = i
    <3>1. CreditNote(i) /\ Exists(i)
      BY <1>t, <1>2, <2>2, CreditNoteWrites
    <3>2. invoice' = [invoice EXCEPT ![i].status = "cancelled", ![i].journal = "reversed"]
      BY <1>0, <1>t, <3>1, CreditNoteWrites DEF Credited
    <3>3. invoice[i] \in InvoiceRows
      BY <1>t, <3>1, InvoiceRow
    <3> QED BY <1>t, <3>2, <3>3 DEF TypeOK, InvoiceRows
  <2> QED BY <2>1, <2>2
<1>3. CASE UNCHANGED match
  BY <1>3
<1>4. CASE InvoiceStep
  BY <1>1, <1>2, <1>3, <1>4 DEF InvoiceStep, CreateInvoice, BeginCreate, Submit,
     BeginApprove, CommitCreate, CommitApprove
<1>5. CASE ReceiptStep
  BY <1>3, <1>5 DEF ReceiptStep, CreateReceipt, PutCharges, MoveReceipt, PostReceipt,
     BeginUnreceive, CommitUnreceive
<1>6. CASE PaymentStep
  BY <1>3, <1>6 DEF PaymentStep, MovePayment, AddAllocation, BeginPay, BeginUnpay,
     CommitPay, CommitUnpay
<1> QED BY <1>3, <1>4, <1>5, <1>6 DEF Next, Abandon, vars

\* The matches an invoice was approved on stand until its journal is reversed
\* (match is refused once an invoice is approved).
THEOREM EvidenceIsKept == Spec => EvidenceStands
<1>1. PurchaseInv /\ [Next]_vars =>
        [\A i \in Invoices :
           OnTheBooks(i) => match'[i] = match[i] \/ invoice'[i].journal = "reversed"]_vars
  BY EvidenceStep
<1> QED BY <1>1, PurchaseHolds, PTL DEF Spec, EvidenceStands

=============================================================================

---------------------------- MODULE SalesPosting ----------------------------
(***************************************************************************)
(* The sales posting queue: a sale is captured with its checkout, posted   *)
(* to the ledger with the other sales of its day or month, sent back to    *)
(* the queue when its batch is reversed, cancelled when the sale is        *)
(* undone, and left stranded when its month is closed by force             *)
(* (lib/salesPosting, routes/erp/sales-posting.js, routes/sales.js).       *)
(*                                                                         *)
(* Composes the life of a sale (LegacySales) with journals and periods     *)
(* (GeneralLedger).  postBatch plans from the snapshot of its transaction  *)
(* and claims the rows as they are when it writes; reverseBatch locks the  *)
(* batch and its journal, reads the period from its snapshot and writes.   *)
(* Both have two steps, with everything else free to happen in between.    *)
(* Closing entries are GeneralLedger's matter: the queue never looks at    *)
(* them, and here none is written (each is lost).                          *)
(***************************************************************************)
EXTENDS LegacySales, GeneralLedger

CONSTANTS Batches, NoBatch,
          Days, MonthOf,     \* a calendar day belongs to a month
          Price              \* what a sale brings

ASSUME PostingAssumption ==
  /\ IsFiniteSet(Sales) /\ NoBatch \notin Batches
  /\ MonthOf \in [Days -> Months] /\ Price \in [Sales -> Nat \ {0}]

VARIABLES queue,    \* sales_posting_queue
          batch,    \* sales_posting_batches with their items
          plan,     \* the rows, or the batch, of a user's transaction
          bypassed  \* history: months set by an endpoint that ignores the queue

queueVars == <<queue, batch, plan, bypassed>>
vars == <<saleVars, ledgerVars, queueVars>>

-----------------------------------------------------------------------------
QueueStatuses == {"pending", "posted", "cancelled", "stranded"}
NoRow     == [status |-> "none"]
QueueRows == [status : QueueStatuses, day : Days, batch : Batches \cup {NoBatch}]

BatchRows == [status : {"posted", "reversed"}, journal : Journals,
              month : Months, rows : SUBSET Sales]
NoPlan == [rows |-> {}, batch |-> NoBatch]
Plans  == [rows : SUBSET Sales, batch : Batches \cup {NoBatch}]

TypeOK ==
  /\ TypeOKSales /\ TypeOKLedger
  /\ queue \in [Sales -> QueueRows \cup {NoRow}]
  /\ batch \in [Batches -> BatchRows \cup {NoRow}]
  /\ plan \in [Users -> Plans]
  /\ bypassed \subseteq Months

Init ==
  /\ InitSales /\ InitLedger
  /\ queue = [s \in Sales |-> NoRow]
  /\ batch = [b \in Batches |-> NoRow]
  /\ plan = [u \in Users |-> NoPlan]
  /\ bypassed = {}

-----------------------------------------------------------------------------
(* Capture and cancellation, each inside the sale's own transaction.        *)

\* Slip: the period is read without its lock, earlier in the checkout.
Bug_Checkout(s, d) ==
  /\ Sell(s)
  /\ queue' = [queue EXCEPT ![s] = [status |-> "pending", day |-> d, batch |-> NoBatch]]
  /\ UNCHANGED <<ledgerVars, batch, plan, bypassed>>

\* assertPeriodOpen holds the period row FOR SHARE until the commit.
Checkout(s, d) ==
  /\ period[MonthOf[d]] = "open"
  /\ Sell(s)
  /\ queue' = [queue EXCEPT ![s] = [status |-> "pending", day |-> d, batch |-> NoBatch]]
  /\ UNCHANGED <<ledgerVars, batch, plan, bypassed>>

\* _reverseSaleEffects, the queue: a row that is posted, in flight or
\* stranded wants a credit note; a pending one is cancelled.
ReverseSale(s) ==
  /\ queue[s].status \in {"pending", "cancelled"}
  /\ Reversal(s)
  /\ queue' = [queue EXCEPT ![s].status = "cancelled"]
  /\ UNCHANGED <<ledgerVars, batch, plan, bypassed>>

-----------------------------------------------------------------------------
(* Posting a bucket: the pending rows of a day, or of a month.              *)

RowsIn(status, D) == {s \in Sales : queue[s].status = status /\ queue[s].day \in D}
PendingOn(D)      == RowsIn("pending", D)
DaysOf(m)         == {d \in Days : MonthOf[d] = m}
Buckets           == {{d} : d \in Days} \cup {DaysOf(m) : m \in Months}

Total(S) == SumFunction([s \in S |-> Price[s]])

PlanBatch(u, D) ==
  /\ tx[u] = Idle
  /\ PendingOn(D) # {}
  /\ \E m \in {MonthOf[d] : d \in D} :
       /\ Postable(u, m, FALSE)
       /\ tx' = [tx EXCEPT ![u] = Tx("batch", NoJournal, Total(PendingOn(D)), m)]
  /\ plan' = [plan EXCEPT ![u].rows = PendingOn(D)]
  /\ UNCHANGED <<saleVars, journal, balance, period, closing, repair, queue, batch, bypassed>>

Release(u) ==
  /\ tx' = [tx EXCEPT ![u] = Idle]
  /\ plan' = [plan EXCEPT ![u] = NoPlan]

\* Slip: the claim is content with some of the rows.
Bug_Claimed(u) == \E s \in plan[u].rows : queue[s].status = "pending"

\* The claim wins every planned row or none.
Claimed(u) == \A s \in plan[u].rows : queue[s].status = "pending"

CommitBatch(u, b) ==
  /\ tx[u].op = "batch" /\ Claimed(u)
  /\ batch[b].status = "none"
  /\ LET row == Row("posted", "document", tx[u].amount, tx[u].month, u, NoJournal)
     IN Post(row) /\ journal' = [journal EXCEPT ![Fresh] = row]
  /\ batch' = [batch EXCEPT ![b] = [status |-> "posted", journal |-> Fresh,
                 month |-> tx[u].month, rows |-> plan[u].rows]]
  /\ queue' = [s \in Sales |-> IF s \in plan[u].rows
                 THEN [queue[s] EXCEPT !.status = "posted", !.batch = b]
                 ELSE queue[s]]
  /\ Release(u)
  /\ UNCHANGED <<saleVars, period, closing, repair, bypassed>>

\* claim_conflict, a failed statement, a crash: all of it rolls back.
AbandonTx(u) ==
  /\ tx[u].op \in {"batch", "unbatch"}
  /\ Release(u)
  /\ UNCHANGED <<saleVars, journal, balance, period, closing, repair, queue, batch, bypassed>>

BeginUnbatch(u, b) ==
  /\ tx[u] = Idle
  /\ batch[b].status = "posted"
  /\ LET j == batch[b].journal
     IN /\ ~Held(j) /\ journal[j].reversedBy = NoJournal
        /\ Postable(u, batch[b].month, FALSE)
        /\ tx' = [tx EXCEPT ![u] =
                    Tx("unbatch", j, -journal[j].amount, batch[b].month)]
  /\ plan' = [plan EXCEPT ![u].batch = b]
  /\ UNCHANGED <<saleVars, journal, balance, period, closing, repair, queue, batch, bypassed>>

CommitUnbatch(u) ==
  /\ tx[u].op = "unbatch"
  /\ LET j == tx[u].journal
         row == Row("posted", "undo", tx[u].amount, tx[u].month, u, j)
     IN /\ Post(row)
        /\ journal' = [journal EXCEPT ![Fresh] = row, ![j].reversedBy = Fresh]
  /\ batch' = [batch EXCEPT ![plan[u].batch].status = "reversed"]
  /\ queue' = [s \in Sales |-> IF queue[s] # NoRow /\ queue[s].batch = plan[u].batch
                 THEN [queue[s] EXCEPT !.status = "pending", !.batch = NoBatch]
                 ELSE queue[s]]
  /\ Release(u)
  /\ UNCHANGED <<saleVars, period, closing, repair, bypassed>>

-----------------------------------------------------------------------------
(* Closing a month looks at the queue, opening it brings back what a forced *)
(* close left behind: the same guard in two of the sets of endpoints.       *)

Unposted(m) == PendingOn(DaysOf(m))
Stranded(m) == RowsIn("stranded", DaysOf(m))

\* Slip: opening the month leaves them stranded.
Bug_Swept(m, to, forced) ==
  /\ to = "closed" => forced \/ Unposted(m) = {}
  /\ queue' = [s \in Sales |->
       IF s \in Unposted(m) /\ to = "closed"
       THEN [queue[s] EXCEPT !.status = "stranded"] ELSE queue[s]]

Swept(m, to, forced) ==
  /\ to = "closed" => forced \/ Unposted(m) = {}
  /\ queue' = [s \in Sales |->
       IF s \in Unposted(m) /\ to = "closed"
         THEN [queue[s] EXCEPT !.status = "stranded"]
       ELSE IF s \in Stranded(m) /\ to = "open"
         THEN [queue[s] EXCEPT !.status = "pending"]
       ELSE queue[s]]

ClosePeriod(u, m, to, forced) ==
  /\ Transition(m, to)
  /\ Swept(m, to, forced /\ u \in Admins \cup Overriders)
  /\ UNCHANGED <<saleVars, batch, plan, bypassed>>

\* The older endpoint asks the queue on the way into "closed" only.
LegacyClosePeriod(u, m, to, forced) ==
  /\ LegacySet(m, to, forced)
  /\ IF to = period[m] /\ to = "closed" THEN UNCHANGED queue
     ELSE Swept(m, to, forced /\ u \in Admins \cup Overriders)
  /\ UNCHANGED <<saleVars, batch, plan, bypassed>>

\* The other two sets never ask the queue.
Bypass(m) ==
  /\ CloseYear \/ \E to \in PeriodStatuses : CoreSet(m, to)
  /\ bypassed' = {n \in Months : n \in bypassed \/ period'[n] # period[n]}
  /\ UNCHANGED <<saleVars, queue, batch, plan>>

-----------------------------------------------------------------------------
PostingStep(u) ==
  \/ \E D \in Buckets : PlanBatch(u, D)
  \/ \E b \in Batches : CommitBatch(u, b) \/ BeginUnbatch(u, b)
  \/ CommitUnbatch(u)
  \/ AbandonTx(u)

PeriodEndStep(u) ==
  \E m \in Months :
    \/ \E to \in PeriodStatuses, forced \in BOOLEAN :
         ClosePeriod(u, m, to, forced) \/ LegacyClosePeriod(u, m, to, forced)
    \/ Bypass(m)
    \/ ClosingLost(m) /\ UNCHANGED <<saleVars, queueVars>>

\* The ledger screen, where a batch's journal is one like any other.
ScreenStep(u) ==
  /\ \/ \E j \in Journals, today \in Months : BeginReverse(u, j, today)
     \/ CommitReverse(u)
     \/ tx[u].op = "reverse" /\ Abort(u)
  /\ UNCHANGED <<saleVars, queueVars>>

Next ==
  \/ \E s \in Sales : ReverseSale(s) \/ \E d \in Days : Checkout(s, d)
  \/ \E u \in Users : PostingStep(u) \/ PeriodEndStep(u) \/ ScreenStep(u)

Spec == Init /\ [][Next]_vars

-----------------------------------------------------------------------------
(* What makes the queue correct.                                            *)

\* The batches whose journal stands and counts a sale.
InBooks(s) == {b \in Batches : /\ batch[b].status # "none"
                               /\ s \in batch[b].rows
                               /\ journal[batch[b].journal].reversedBy = NoJournal}

\* A sale stands in the ledger at most once, in the batch its queue row names:
\* never twice when daily and monthly batches, reversals and re-postings
\* overlap, and never after it was voided, returned or deleted (the claim of
\* postBatch).
InBooksOnce ==
  \A s \in Sales : \A b \in InBooks(s) :
    queue[s].status = "posted" /\ queue[s].batch = b

\* As long as nobody reverses from the ledger screen, the revenue in the
\* ledger is the sum of the posted rows (the journal and the queue state are
\* one unit, lib/salesPosting/post.js).
LedgerTiesToQueue ==
  (\A j \in Journals : ~IsOf(j, {"reversal"})) =>
    PostedTotal({"document", "undo"}, Months)
      = Total({s \in Sales : queue[s].status = "posted"})

\* What a forced close leaves behind comes back with the month, by whichever
\* of the endpoints that know the queue closed it and opens it
\* (strandUnposted, recoverStranded).
StrandedOnlyWhileClosed ==
  \A s \in Sales : queue[s].status = "stranded" =>
    LET m == MonthOf[queue[s].day] IN period[m] # "open" \/ m \in bypassed

\* No sale that never reached the ledger is left pending in a closed month:
\* checkout and close cannot pass each other (FOR SHARE and FOR UPDATE on the
\* period row).  A reversed batch can leave its sales there.
ClosedMonthIsPosted ==
  \A s \in Sales :
    queue[s].status = "pending" /\ period[MonthOf[queue[s].day]] = "closed" =>
      \/ MonthOf[queue[s].day] \in bypassed
      \/ \E b \in Batches : batch[b].status = "reversed" /\ s \in batch[b].rows

=============================================================================

# Moroccan Taste POS: specifications

Moroccan Taste is a point of sale and an ERP for a group of restaurants: a
Node/Express server over MySQL (InnoDB) with React front ends for the tills,
the back office and a portal. This directory holds TLA+ specifications of the
parts where money and legal documents depend on concurrency, retries, lost
answers and long sequences of operations, the TLC configurations that check
them on small instances, and TLAPS proofs of what matters most for instances
of any size.

Every definition is read off the source; `PROJECT.json` maps each to the lines
it stands for, lists the runs and the mutants that show that each property can
fail, the findings, the hazards of the code and the theorems.

## 1. The system

### Components

| Component | State | Operations | Hard because |
| --- | --- | --- | --- |
| Order-to-cash documents (`services/order-to-cash`, `lib/order-to-cash`) | `ar_documents`, `customer_payments`, `ar_payment_allocations`, `sales_returns`, their journals | create, issue, approve, post, allocate, reverse, cancel | columns copied from other rows; reversals after reversals; overlapping transactions |
| Transition executor, `ar_events` | one row per document with a version; keyed events | `runTransition`, `findPrior`, creation by INSERT, `withTransaction` | duplicates and retries in flight, deadlock retries, crash between commit and answer |
| ZATCA chain, `doc_counters` | head row of the chain; one counter per series and day | number, stamp, advance the head | one row every issue contends for; lock upgrades |
| POS offline engine (`frontend/pos/src/lib/offline.ts`) | React state, IndexedDB orders and queue, per tab a drain | save, debounce, checkout, hold, resume, void, flush | several tabs, awaits between read and write, lost answers, reloads |
| POS v2 server (`routes/pos-v2.js`), `idempotencyStore`, `POST /api/sales` | `pos_v2_orders` with a version, reservations, sales | upsert, hold, resume, void, submit, reopen, complete | retries under the same key, stops inside a call |
| General ledger (`lib/glPosting.js`, `lib/glTransitions.js`, `routes/erp.js`) | journals with their entries, account balances | draft, edit, approve, post, reverse, delete, post of a document and its undoing, repair | balances are running sums; two reversal paths; a period read without a lock |
| Accounting periods (`routes/erp/periods.js`, `routes/erp.js`, `erp-core.js`, `vat.js`) | a status per month, closing entries | soft close, close, reopen, close of a year, closing entry and its reversal | four sets of endpoints for one column |
| Sales posting (`lib/salesPosting`, `routes/erp/sales-posting.js`) | queue of sales, batches | capture, cancel, post and reverse a batch, strand, recover | plan and claim at different moments; reversal behind its back |
| ZATCA worker (`lib/zatca-worker.js`) | submission queue | enqueue, claim, load, submit, write, settle, retry | fire-and-forget, several workers, a death after a claim |
| Legacy sales and chain (`routes/sales.js`, `lib/zatca.js`) | sales, stock, hashes | sell, void, return, delete | undone twice; head found by time of creation |
| Shifts (`routes/shifts.js`) | shifts, movements | open, move cash, close | totals added up while sales land |
| Procurement (`routes/procurement`, `lib/procurement`) | order lines, receipts, charges, invoices, matches, payments, allocations | receive, reverse, match, approve, credit, pay, unpay | capacity shared by invoices; plain reads answered from a snapshot |
| Inventory (`lib/lotLedger.js`, `lib/inventoryTxEngine.js`, transfers, stocktakes) | stock, lots, deficits, transfers | move, allocate, issue, receive, reverse | lots must add up to stock |
| Approval workflow (`services/TransactionService.js`, `routes/workflow.js`) | transactions, steps | create, act | serial outside the transaction |
| Production, analytics, HR, authentication, migrations, chart of accounts, cash, master data, reports, front ends | | | listed in `PROJECT.json` with the reason they are left out |

### Interaction

A till writes every change to IndexedDB first and queues an op; the drain of
any tab of that browser sends ops to `/sync` and runs a checkout as three calls: `/submit`
(which freezes the order and returns the payload of the sale), `POST
/api/sales` (the financial write, deduplicated by `client_order_id`) and
`/complete`. A sale is captured into the sales posting queue in its own
transaction, and enqueued for ZATCA after its commit; batches of sales are
posted to the ledger later, by day or by month. The back office issues
invoices, collections and returns through the transition executor: one
transaction that replays or locks the row, checks version and state, performs
the domain work (allocations, stock, journal, stamp), updates the row and
records a keyed event. Procurement has an executor of its own with the same
protocol. Journals go through `glPosting`, which reads the period's status;
the endpoints that set it ask the sales queue, or do not. Stamps serialise on
one row, the head of the chain.

What the components share is MySQL rows and their locks, the keys that make
retries safe, and the assumption that a queue is sent in order.

### What is hard here

`PROJECT.json` lists the hazards at their lines with the properties that watch
them, or with the reason why none does.

* Copies that must agree: an invoice's paid amount and balance against its
  allocations, receivables in the ledger against open invoices, an account's
  balance against its entries, what a receipt line counts as invoiced against
  the matches, a till's document against the server's order.
* The same request twice, or a different request under the same key, while
  the first is in flight, has committed, or was rolled back.
* Row locks: who waits for whom, who is rolled back, and what falls back with
  it.
* Reads before an await, or from the snapshot of a transaction, whose result is
  used after another commit.
* Long legal sequences: post, apply, reverse, credit, reverse again; close,
  strand, reopen, recover.

## 2. Modules

| Module | Models | Composed with |
| --- | --- | --- |
| `OrderToCash` | documents, allocations, journals and stock of the cycle | `SumTheorems` for its sums (in the proofs) |
| `ExactlyOnce` | what an idempotency key promises (abstract) | implemented by `TransitionExecutor` |
| `TransitionExecutor` | the executor's protocol on one collection | `INSTANCE ExactlyOnce` with a refinement mapping |
| `ZatcaChain` | chain, counters and locks of issuing and posting | |
| `PosServer` | the server side of the till | extended by `OfflineTill` |
| `OfflineTill` | the engine of a till with several tabs | `PosServer` |
| `GeneralLedger` | journals, balances, periods, closing entries, repair | extended by `SalesPosting` |
| `LegacySales` | a sale sold, voided, returned, deleted | extended by `SalesPosting` and `ZatcaSubmission` |
| `SalesPosting` | the queue of sales and its batches | `LegacySales`, `GeneralLedger` |
| `ZatcaSubmission` | the submission queue and its workers | `LegacySales` |
| `PurchaseToPay` | receipts, charges, invoices, matches, payments | |
| `MC*` | instances for TLC | |
| `SumTheorems`, `*Proofs` | lemmas and theorems | |

### OrderToCash

One action is one committed transaction of a service; a handler that throws
rolls back and is no step. `CreateDraft`, `IssueInvoice`, `CancelInvoice`;
`CreatePayment`, `ApprovePayment`, `PostPayment`, `AllocateAdvance`,
`ReversePayment`, `CancelPayment`; `CreateReturn`, `ApproveReturn`,
`PostReturn`, `ReverseReturn`, `CancelReturn` are the public operations of
`InvoiceService`, `CustomerPaymentService` and `SalesReturnService`, with
`PaymentAllocationService` and `posting.js` inside them. `live` is the
allocations with `reversed = 0`; a journal is its amount and the number of
reversal journals cloned from it; `stock` is the quantity of the one item,
relative to the start.

Money is counted in halalas and the comparisons that forgive 0.01 have a
constant `Tol` of one halala (or none, to see exact equalities). An invoice has one line of unit price 1, so a
returned quantity is its value.

Left out: who may act (segregation of duties), the credit gate, the period
guard, VAT and lines, the POS link, and transactions that overlap.

### ExactlyOnce and TransitionExecutor

`ExactlyOnce` states the contract alone: a key takes effect at most once per
action, the same request again is answered with the first result, another
request under the key is refused. `TransitionExecutor` has one action per
statement that touches shared state: the replay look-up, the row lock or the
unique key of an INSERT, the checks under the lock, the writes and the event,
commit, deadlock and retry, the look-up after a duplicate key, the answer, and
a crash at any point. Keys may be absent, equal for two actions or reused with
another payload; versions may be named or not; events may predate the scope
column.

### ZatcaChain

Transactions that issue invoices or post returns take the document's row, the counter, the
original's row (returns) and the head of the chain, in the code's order. The head is taken
twice, as InnoDB sees it: a shared lock by `INSERT IGNORE` on the row that is
already there, then the exclusive one by `FOR UPDATE`. Lock waits, deadlock detection
and the retries of `withTransaction` follow; a stamp is the document's
predecessor and its counter value.

Locks are assumed to be as InnoDB grants them: first come, first served,
shared by duplicate-key inserts, released at commit or rollback. Lock-wait timeouts
are not modelled, so neither is the timestamp number that `docNumber.js` falls
back to when a statement fails.

### PosServer and OfflineTill

`PosServer` holds one order, its reservations, sales and the calls in flight
(a call may outlive the connection that carried it). `OfflineTill` adds the
screen, the stored document, the queue, the debounce, a save in progress, and
for every tab a drain that reads the queue once and then sends, receives and
writes back. The queue is a set of ops with ids in the order of their appending,
which a drain reads by seq (`BySeq`). A step ends where the engine awaits something another activity
can change. One order id is followed; a cart parked as a draft is not followed.

Timing assumption: a save takes milliseconds from its read to its write, so
the cashier does not tap and no call is sent or served in between. The drain's
own write of an acknowledged version can still fall in between (hazard at
`offline.ts:595`).

Bounds: opIds, calls at once (`Slots`), refused sales, stops of the server,
lost connections and reloads. They appear in guards and are named in each cfg.

Left out: held orders listed by the server and resumed or voided there, the
dialog's own timeout, boot repair of sequence numbers, the quarantine of
another cashier's ops, refusals of a whole batch, other orders in the queue.

### GeneralLedger

One revenue account is followed. A journal's lines are balanced when they are
inserted, so a journal is the amount it adds to that account, its kind
(drafted on the screen, posted by a document, a reversal of either kind, a
closing entry or its reversal), status, month, and who created, approved and
posted it. The handlers of the ledger screen in `routes/erp.js` run
`glTransitions` one by one or in bulk; documents post and undo through
`_postJournalTx` and `postReversal`.

The period of a posting is read by a plain `SELECT` of the transaction, so a
posting has two steps: `BeginPost`, `BeginDocument`, `BeginReverse` and
`BeginUndo` lock what the code locks, check, and read the period;
`CommitPost`, `CommitDocument`, `CommitReverse` and `CommitUndo` write. `Abort`
is a rollback in between. Drafting, editing, approving and deleting hold the row they
check until they commit and are one step.

The status of a month is set by four sets of endpoints (`Transition`,
`SetPeriod`, `CoreSet`, `CloseYear`), each with its own guards. The endpoint
`/periods/:id/lock` closes the month first and writes the closing entry after,
in a transaction of its own that may fail (`ClosingLost`) and finds nothing to
do when the month has a closing entry already. A repair zeroes the balances,
adds up the entries and writes, in three steps with no transaction
(`RepairZero`, `RepairSum`, `RepairWrite`), and may die between them.

### LegacySales, SalesPosting and ZatcaSubmission

`LegacySales` is the life of a sale in `routes/sales.js`: sold, voided (or
deleted by the same call), returned, deleted one by one or in bulk, each giving
back the stock the sale moved. `SalesPosting` and `ZatcaSubmission` extend it
and join their own rows to these transactions.

`SalesPosting` extends `GeneralLedger` too. `PlanBatch` is the snapshot read of
`postBatch` (the rows pending for a day or a month, their total and the
period), `CommitBatch` its claim, journal and batch; `BeginUnbatch` and
`CommitUnbatch` are `reverseBatch`. `Checkout` captures the sale under a share lock on
the period, which `ClosePeriod` and `LegacyClosePeriod` take exclusively when
they count the unposted sales, strand them (forced) or recover them (open).
`Bypass` is the endpoints that never ask the queue; `bypassed` remembers which
months they set. The ledger screen can reverse a batch's journal (`ScreenStep`).

In `ZatcaSubmission` a committed sale or credit note is announced and enqueued
by a call that nobody waits for. A worker claims a batch in one transaction
(or, where `SKIP LOCKED` fails, reads and marks in two statements), then for
each row loads the document, submits it, writes the answer on the document and
settles the row, one step each. `faults` counts what goes wrong without the
protocol being answerable: a lost answer or enqueue, a failed statement, a
dead worker, a claim without its lock, credentials withdrawn.

### PurchaseToPay

One action per transition of `routes/procurement/receipts.js`, `invoices.js`
and `payments.js`, with the functions of `matching.js` and
`InventoryPostingService.js` inside. A transition that carries a key starts
with a plain `SELECT` of the events, which fixes the snapshot its later plain
reads are answered from, while `FOR UPDATE` reads the latest rows. Where that
matters a transition has two steps: Begin keeps what the snapshot shows (the
charges and who claims them, the matches of an invoice, the allocations of a
payment, whether a receipt has been invoiced), Commit locks, checks and writes.

`match` is what an invoice reserves of a receipt line, `invoiced` what the line
counts as consumed, `received` what an order line counts as received; an
allocation has an amount, whether it is live, and whether it was ever brought
back by the upsert of `_applyAllocations` after a reversal.

## 3. Runs

State spaces are finite and explored completely; deadlock is not reported
where a model ends when its bounded work is done.

| Run | Instance | Shows |
| --- | --- | --- |
| `payments` | 2 invoices, 2 collections, 2 customers, amounts 1..3, `Tol` = 1 | `NoOverAllocation`, `PaymentWithinAmount`, `InvoiceConsistency`, `LedgerTiesToPayment` |
| `returns` | 1 invoice, 2 collections, 2 returns, amounts 1, 2, all three refund methods, exact comparisons | `NoOverReturn`, `RestockTiesToLedger`, `DriftIsStrandedApplications` |
| `executor` | 2 attempts over 4 actions, 1 key, 2 payloads, named or free versions, a legacy event, 2 tries, fair | `RowIsItsHistory`, `NoErrorAfterEffect`, `ImplementsExactlyOnce`, `EveryAttemptEnds` |
| `chain` | 4 requests: the same invoice twice, another, a memo on the first; fair | `ChainIsLinear`, `NumbersHaveNoGaps`, `OnlyUpgradesCollide`, `EveryRequestEnds` |
| `till` | 2 carts of one price, 5 ops, hold, resume, void, a refused sale, a stop of the server | `TypeOK`, `QueueIsOrdered`, `UnsoldUnlessAmiss`, `SaleIsTheCartPaid` |
| `till_lossy` | 1 cart, 4 ops, hold, resume, void, a refused sale, a stop, a lost connection, a reload | `SoldOnce` |
| `till_tabs` | 2 tabs, 1 cart, 4 ops, a refused sale, fair | `SoldOnce`, `CheckoutsAreSettled` |
| `books` | 3 journals, 2 users, 1 month, a manual and a document amount, 1 repair | `BalanceTies`, `FourEyes`, `ReversedOnce`, `MirrorsOriginal`, `ClosedBooksAreFinal` |
| `posting` | 2 sales of different prices, 2 days of 1 month, 2 batches, 3 journals, 2 users | `InBooksOnce`, `LedgerTiesToQueue`, `StrandedOnlyWhileClosed`, `ClosedMonthIsPosted` |
| `submissions` | 1 sale with its credit note, 2 workers, `MaxAttempts` = 2, `BatchSize` = 2, `MaxFaults` = 1, fair | `AcceptedOnce`, `SettledRight`, `EveryRowSettles` |
| `purchasing` | 2 users, 2 receipts of 1 order line, 1 charge, 2 invoices of stock or expenses, 1 payment | `CapacityHolds`, `NeverOverReceived`, `InvoicedIsMatched`, `ClearedOnce`, `OnlyRevivalOverpays`, `CancelledIsClean` |
| `told_failed` | as `till`, 1 cart, 4 ops, no failures but a refused sale | violated: `FailedMeansUnsold` |

Every property of a passing run has a mutant in the modules (definitions named
`Bug_...`, each commented with the slip it stands for) under which TLC finds it violated.

### Order to cash

Two invoices and two collections are enough for every pair of operations to
share an invoice, a collection, both or neither; no operation touches more
than one collection. Amounts up to 3 with a tolerance of 1 give partial, exact
and excessive allocations, and the halala that the tolerance lets through.

`DriftIsStrandedApplications` is what is left of the documents' promise that
receivables in the ledger equal the open invoices: as long as no credit memo
was posted, they differ by exactly the advances that were applied and whose
collection was reversed. Credit memos break it in two more ways (hazard at
`PaymentAllocationService.js:34`).

### Executor and chain

Two attempts are a first request and its duplicate or retry, early or late, or
two different actions that race; the theorems of section 5 cover any number.
Two counters and one shared original give every order of locks the code can
take.

`OnlyUpgradesCollide` also says where deadlocks do occur: two requests that
hold different counters share the head row by `INSERT IGNORE` and then both
ask for it exclusively. The comments hold such deadlocks for excluded
(`ZatcaDocumentService.js:49-52`, `InvoiceService.js:145-148`); the retries
mask them, and `EveryRequestEnds` says they do so in the end.

### Till

A checkout takes two ops, so four are two payments, or a hold, a resume or a
void and edits around one; with five, a checkout can follow a hold and its
resume. The carts have one price, so `till` takes them as symmetric. One
failure of each kind meets every step of a checkout; a second one is the retry
of a retry and is left out.

`UnsoldUnlessAmiss` and `SaleIsTheCartPaid` speak of an undisturbed till: one
tab, no answer lost, no screen reloaded, and nothing `amiss`. The history
variable `amiss` is set by the three steps that break them, and by no other:

* A version conflict (`AckOp`) drops the later ops of the order
  (`dropOpsFor`), among them the final upsert of a checkout made in the
  meantime, which a later drain then sends alone: what is sold is the cart the
  server had. A hold can meet one because it sends the version React holds
  (hazard at `offline.ts:595`), a resume because a stop of the server left the
  hold before it in progress.
* The write of an acknowledged version (`PutVersion`, line 1150) puts the
  document it read before back over a change of its status. With eight ops (a
  hold and a resume around a checkout) it puts "held" back over "submitted":
  the order can be resumed and paid again after its sale, and what was sold is
  not the cart of the last payment.
* When the server stops amid the drain of a checkout, `checkout()` reads the
  report of an older drain (line 947): if an op had failed there, it reports a
  failure for a checkout still queued (`TellCashier`), and the checkout sells
  with the next drain.

With a second tab both fail as well: it finds the key of the first one's upsert
in use, takes that for a refusal of the order and fails the checkout, which the
first tab goes on to sell. The hazards at `offline.ts:595`, `1159`, `1252` and
`1303` say where the code is exposed. Undisturbed is no strong condition on the
server: it may stop, refuse sales and replay answers at any step.

### Ledger, posting, submissions, purchasing

Three journals are a journal, its reversal, and a third that competes for
either or is the closing entry; two users are enough for a race and for
four eyes (of three, two suffice to see one person do two jobs). One month is
enough because no step relates two, apart from the close of a year, which
treats each alike. `BalanceTies` speaks of histories with no repair, because a
repair among postings does break the balance (hazard at `routes/erp.js:3338`);
`books` runs one, so that nothing else depends on its absence.

Two sales in two days of one month are what daily and monthly batches can
share. Three journals are a batch, its reversal and a re-posting. Closing
entries are lost in `posting` (`ClosingLost`), as the queue never looks at
them. `MaxBack`, how much stock may come back beyond what a sale moved, is 0
there, so that a sale is undone once; the second undoing that the code lets
through (hazard at `routes/sales.js:2610`) is within the bound of
`submissions`.

Two documents, two workers and a batch of two give every way of sharing a
batch; two attempts are a first and a last. One fault meets every step;
`AcceptedOnce` counts them, and its theorem holds for any number.

In `purchasing` each order line, receipt line and invoice has one unit, so that any
second claim on it is one too many, and the payment can pay both invoices or
one twice. The theorems cover other quantities, totals, drafts and users.

### Findings

Runs that TLC finds violated, each against a sentence of a comment or a
document of the repository. The quotes are in `PROJECT.json`.

| Run | What happens |
| --- | --- |
| `told_failed` | a sale refused once and paid again is sold while the cashier is told it failed |

Several promises of comments that the code does not keep are recorded as
hazards with no property, because the model reaches the state they exclude:
journals reversed twice, a balance after a repair, stock given back twice, a
collection after a credit memo, revived allocations, a receipt reversed under an
approved invoice.

## 4. Fairness

`FairSpec` of `TransitionExecutor` and `ZatcaChain`: weak fairness of each request's
own progress and of deadlock detection. A statement sent to MySQL returns or
fails, lock queues are first come first served, and `withTransaction` bounds
its retries. Crashes and deadlocks are not fair: they may or may not happen.

`FairSpec` of `OfflineTill`: weak fairness of starting and continuing a drain
(the `online` event and the interval of 30 s in `start`), of the server working on a call, and of what is due anyway
(a write begun, a timer). The cashier is not fair: nothing has to be tapped.
Losses, stops and refusals are bounded by constants, never fair.

`FairSpec` of `ZatcaSubmission`: weak fairness of each worker's next step (the
timer is set again in a `finally` block, `lib/zatca-worker.js`) and of an
enqueue that was announced. Faults are not fair, and a worker that died stays
idle with its rows orphaned.

`GeneralLedger`, `SalesPosting` and `PurchaseToPay` state safety only: nothing
in them has to happen.

## 5. Proofs

All theorems are checked by TLAPS to the last leaf, for every value of the constants that satisfies the
named assumptions (finite sets of documents, positive amounts, and so on; TLC
evaluates them in the runs).

* `SumTheorems`: sums over a finite table. Adding or changing an entry changes
  the sum by the difference, sums of naturals are monotone. These are proved
  from the definition of the fold by way of finite enumerations, since the
  induction rules over operators cannot be instantiated here.
* `OrderToCashProofs`
  * `TypeCorrect`: `Spec => []TypeOK`.
  * `NeverOverAllocated` and `InvoicesConsistent`. Neither is inductive: the
    cap of a post is checked against the allocations, but a reversal and a
    recomputation copy sums into the invoice, and a memo changes the columns
    without an allocation. `InvoicesInv` joins them: allocations at most total
    plus tolerance, none on drafts and cancelled invoices, balance what is left of the total,
    and the original of a return exists.
  * `PaymentsWithinAmount`, `LedgerTiesToPayments`: `CollectionsInv` says for
    each status of a collection what its row, its allocations and its three
    journals hold of each other; one journal is cloned when it is reversed, the
    application of an advance is not.
  * `RestockTies`, `NeverOverReturned`: `ReturnsInv` says the same of a return.
  * `DriftIsStranded`. `OpenInv` adds what is open of an invoice that no memo
    touched; the difference between ledger and subledger is then a sum over
    invoices less a sum over collections of the same allocations
    (`SumExchange`). The theorem holds with and without the tolerance, which
    forgives at most one halala for each paid invoice.
* `TransitionExecutorProofs`
  * `TypeCorrect`, `AppliedAtMostOnce`, `VersionsConsumedOnce`. The invariant
    says what each attempt knows at its program point: who holds the row or
    the unique key, that an effect has its event, that the row's version is
    above every version consumed.
  * `RowTellsItsHistory` counts: the version is one more than the transitions
    that took effect. `NeverRefusedAfterEffect` is about a step, and holds since
    a handler that is about to refuse has looked for its key after its last
    rollback.
  * `KeysKeepTheirContract`: `Spec => Contract!Spec`, every step maps to a
    step of `ExactlyOnce` or stutters.
* `ZatcaChainProofs`: `ChainTypeCorrect`, `ChainStaysLinear`,
  `NumbersStayGapless`. The invariant: whoever is past the lock of the head holds it alone
  and sees the committed head; whoever has a number holds the counter; the
  stamped documents are a bijection with `1..head.icv`.
  `OnlyUpgradesDeadlock`: who stands where holds what (`OwnedInv`), so a
  request that waits for a row waits for one at a later place, and a circle
  has to stay where places do not increase: at the upgrade of the head. The
  argument needs that a memo waits for the row of an invoice and that an
  invoice waits for no other, hence that no memo shares a counter with the
  invoice of one (`ChainAssumption`).
* `LedgerProofs`, of `GeneralLedger`: `LedgerTypeCorrect`, `BalancesTie`,
  `NobodyChecksHimself`, `ScreenReversesOnce`, `LinksMirror`,
  `CorrectionsAreNewJournals`, `ClosedBooksStay`. The invariant `LedgerInv`
  joins to the types what each open transaction may rely on when it commits:
  that the journal it holds is still in the status it was checked in and not
  reversed, that nobody else holds it, that its creator is not the one who
  posts it; and for the journals that a reversal has the opposite amount of
  its original, and that each original names at most one. None of the
  properties is inductive without this, because check and write are different
  steps. `BalanceTies` needs a lemma for every way a step can change the sum
  of the posted journals (`SumTheorems`).
* `LedgerProofs`, of `SalesPosting`: `PostingTypeCorrect`, `StandsInBooksOnce`,
  `RevenueTiesToQueue`, `StrandedComesBack`, `ClosedMonthsArePosted`. The
  properties compare queue and ledger and say nothing of batches, through
  which alone the two are connected. `PostingInv` adds them: a posted row names
  a posted batch and a posted batch keeps all its rows; each batch has a
  posted journal of its own, of the price of its rows; and a transaction finds
  at its commit the batch posted and the journal not yet reversed, and is
  the only one that reverses it. Plans may be stale: the claim of `postBatch`
  is checked at the commit, which is what the proof uses. Its sums are sums
  over all sales in which those outside a batch count zero (`SumWithin`).
* `PurchaseToPayProofs`: `PurchaseTypeCorrect`, `LinesNeverOverMatched`,
  `OrdersNeverOverReceived`, `InvoicedIsBacked`, `ChargesClearedOnce`,
  `CancelledLeavesNothing`, `OnlyRevivedOverpay`, `EvidenceIsKept`. The
  invariant `PurchaseInv`: what a line has received fits the order; what the
  invoices hold of a line fits the line; only what is booked is on the books,
  and the receipt of an invoiced charge was posted; a cancelled invoice
  holds nothing; a charge and its invoice name each other. The stale reads of
  Begin are not part of it: every property follows from what Commit checks
  under its locks, which is the reason the interleavings do no harm.
* `ZatcaSubmissionProofs`: `SubmissionTypeCorrect`, `DocumentsAreAcceptedOnce`,
  `RowsAreSettledRight`. What was accepted says nothing about what may yet be
  submitted, so the invariant `SubmissionInv` counts a document's chances: one
  while it waits to be enqueued, one while its row is pending, one for every
  worker that holds it and has not had it accepted. A step that is no fault
  moves a chance on, turns it into an acceptance or gives it up; a fault adds
  at most one (`TurnKept`, `RetryKept`). The counting needs that only one
  worker moves at a time (`ChancesMove`).

* `OfflineTillProofs`: `TillTypeCorrect`, `BarrierHolds`, `SoldAtMostOnce`, for
  any number of tabs, ops, calls, losses, reloads and stops. That the barrier
  holds needs little more than that a new op has a greater id than all before
  it. That what is called completed was sold takes both sides: `TillInv` says
  of a call how many of its ops are answered and that a completion is asked
  for once the sale exists, of an accepted answer to a submit (a replayed one
  too) that it carries the lines of the sale, of a drain that it waits for exactly one call about the ops it
  holds, and of the copy a drain writes back that it is completed only if
  there was a sale. A response then has an answer for each op of the batch,
  through every lost connection and stop, which `TypeOK` needs as well.
  `FailedStaysUnsold` and `PaidCartIsSold` are the two promises about an
  undisturbed till (section 3), for any carts, ops, holds, refused sales and
  stops of the server. `UndisturbedBefore` reduces `Next` to the steps that
  disturb nothing; each of three layers on top of `TillInv` is kept by them:
  1. `LaneInv`: the one drain and its one call go through the ids of the queue
     in order (batch before ops, ops before what is appended later), and no
     key of an id not yet given out is known to the server.
  2. `SettledInv`: a queued checkout whose submit reached the server is the next
     op, with nothing of the order before it; once it sold, its key holds the
     accepted submit and the order stays submitted or completed, so a retry
     replays the answer and cannot fail it; the cashier waits meanwhile. This
     gives `FailedStaysUnsold`.
  3. `PaidInv`: the final upsert of a checkout is still queued (`Landing`), or
     its cart is the order's with the checkout next (`Landed`), or it fails the
     checkout (`Fails`). What makes it hard are stops of the server between the
     upsert's transaction and its key: the retry executes earlier upserts of the
     batch again where their keys were never stored. Every try sends the same
     batch with the same `expectedVersion`s, as queue and document stay as they
     are; so once the final upsert was executed, an earlier one without a key
     carries a version below the order's (`Outdated`) and is refused or conflicts
     instead of putting an old cart back. With the cart of the order that of the payment
     when the submit is accepted, the sale built from it is, too.

Assumptions beyond the finiteness of sets: amounts and prices are positive, and
the documents that memos reduce are numbered by counters of their own
(`ChainAssumption`). The numbering has one series per type of document
(`lib/order-to-cash/numbering.js`), `SI` for invoices and `CN` for credit
notes. What remains is that a memo reduces an invoice and not another memo,
which the front ends ensure and `SalesReturnService` does not check: a credit
note drafted by hand could be the original of a return. The instance of
`chain` satisfies the assumption.

Only model-checked: liveness (`EveryAttemptEnds`, `EveryRequestEnds`,
`CheckoutsAreSettled`, `EveryRowSettles`) and everything about `ENABLED`, which
are out of the prover's reach. Types of the proved modules, and `AtMostOnce`,
`OneWinnerPerVersion`, `PostedIsImmutable` and `EvidenceStands`, are proved and
not run: TLC confirmed them while the modules were written.

## 6. Plan

What comes next, most important first.

1. `O2CInterleaving`: the transactions of `OrderToCash` split into snapshot
   reads, locking reads and writes; returns created at once, a reversal
   against an application, the credit gate; `OrderToCash` as the abstract
   specification where they do refine it.
2. `SalesChain`: the legacy chain, whose head is the latest `created_at`,
   which is set before the lock (`lib/zatca.js:232`).
3. `LotLedger`, `WarehouseTransfer`: lots against stock (two receipts of a new
   lot both miss it, `lib/lotLedger.js:112`), goods in transit.
4. `Shifts` (totals added up while sales land, `routes/shifts.js:979`),
   `Approvals`.
5. Purchase orders over `PurchaseToPay`: their roll-up, returns to suppliers,
   variances and journals.

A new component gets one run for its safety and, where it has any, its
liveness properties. Runs keep to two or three actors and two or three
values per set, with every bound a named constant, so that each ends within minutes.

## 7. Not modelled

Formatting, layout and wording; signing, QR codes and UBL; reports and
analytics, which read only; authentication and permissions (an action is possible for
whoever calls it); migrations and boot; master data. Inventory, production,
shifts, approvals, HR and cash vouchers are not modelled yet. `PROJECT.json` lists
each part with its reason, and for the modelled parts what is left out.

## 8. Running

    tlc -config MCOrderToCash_payments.cfg MCOrderToCash
    tlapm OrderToCashProofs.tla

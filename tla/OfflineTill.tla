----------------------------- MODULE OfflineTill -----------------------------
(***************************************************************************)
(* The offline engine of a till (frontend/pos/src/lib/offline.ts) at work  *)
(* against PosServer: the stored order, the queue of ops, the debounced    *)
(* upsert, checkout, and the drains that every tab runs over the shared    *)
(* queue.  One order id is followed; a draft parked by a conflict is a new *)
(* order with another id and is not followed.                              *)
(*                                                                         *)
(* A step ends where the engine awaits something another activity can      *)
(* change: a network call, or a read of the store whose result is written  *)
(* back later.  Deletions and writes that nothing can come between share a *)
(* step with what precedes them.                                           *)
(***************************************************************************)
EXTENDS PosServer, FiniteSets

CONSTANTS MainTab,      \* the tab the cashier works in; the others only drain
          UiActions,    \* subset of {"hold", "resume", "void"}
          MaxLosses,    \* calls whose connection breaks
          MaxReloads    \* reloads of the main tab

ASSUME TillAssumption ==
  /\ MainTab \in Tabs
  /\ UiActions \subseteq {"hold", "resume", "void"}
  /\ MaxLosses \in Nat /\ MaxReloads \in Nat

VARIABLES screen,    \* the cart in React state
          doc,       \* the order in IndexedDB
          queue,     \* its ops; one appended later has a greater id
          nextId,    \* next opId
          save,      \* a saveCart that has read and not yet written
          timer,     \* the debounce timer is armed
          fired,     \* the cart a fired debounce is about to append
          ui,        \* what the cashier waits for
          told,      \* what the last checkout reported
          paidFor,   \* the cart of the last checkout
          amiss,     \* what Undisturbed excludes has happened
          drain,     \* the drain of each tab
          report,    \* lastReport of each tab, for this order
          losses, reloads

tillVars == <<screen, doc, queue, nextId, save, timer, fired, ui, told,
              paidFor, amiss, drain, report, losses, reloads>>
vars == <<serverVars, tillVars>>

-----------------------------------------------------------------------------
\* What React and the store hold of an order besides its status: the lines,
\* the serverVersion (0: null) and whether it has a saleId.
Snapshots == [cart : Carts \cup {NoCart}, version : Nat, sold : BOOLEAN]
NewOrder == [cart |-> NoCart, version |-> 0, sold |-> FALSE]
NoScreen == [cart |-> "another order"]
NoDoc    == [status |-> "none"]
NoSave   == [cart |-> "no save"]

Docs == [status : OrderStatuses, cart : Carts, version : Nat, sold : BOOLEAN]
Ops  == [id : OpIds, type : SyncTypes \cup {"checkout"}, cart : Carts \cup {NoCart}]

\* A drain: the ops it read when it started, its expectedVersion cursor,
\* whether an op of the order failed for good, and what it has reported.
\* `batch` and `answers` are what is left of a sync response, `copy` a doc
\* it has read and will write back.
Idle   == [at |-> "idle"]
Drains == [at : {"walk", "wait", "ack", "put", "fail", "reopen"},
           ops : Seq(Ops), cursor : Nat, failed : BOOLEAN,
           report : {"none", "ok", "failed"},
           batch : Seq(Ops), answers : Seq(Answers), copy : Docs \cup {NoDoc}]

TypeOK ==
  /\ TypeOKServer
  /\ screen \in Snapshots \cup {NoScreen}
  /\ doc \in Docs \cup {NoDoc}
  /\ queue \subseteq Ops /\ nextId \in Nat
  /\ save \in Snapshots \cup {NoSave}
  /\ timer \in BOOLEAN /\ fired \in Carts \cup {NoCart}
  /\ ui \in {"idle", "paying", "flushing", "answer"}
  /\ told \in {"nothing", "queued", "completed", "failed"}
  /\ paidFor \in Carts \cup {NoCart} /\ amiss \in BOOLEAN
  /\ drain \in [Tabs -> Drains \cup {Idle}]
  /\ report \in [Tabs -> {"none", "ok", "failed"}]
  /\ losses \in 0..MaxLosses /\ reloads \in 0..MaxReloads

Init ==
  /\ InitServer
  /\ screen = NewOrder /\ doc = NoDoc /\ queue = {} /\ nextId = 1
  /\ save = NoSave /\ timer = FALSE /\ fired = NoCart
  /\ ui = "idle" /\ told = "nothing" /\ paidFor = NoCart /\ amiss = FALSE
  /\ drain = [t \in Tabs |-> Idle]
  /\ report = [t \in Tabs |-> "none"]
  /\ losses = 0 /\ reloads = 0

-----------------------------------------------------------------------------
(* The queue.                                                               *)

CheckoutQueued == \E o \in queue : o.type = "checkout"

\* The ops by seq, which grows as the ids do.
BySeq(q) ==
  [n \in 1..Cardinality(q) |->
     CHOOSE o \in q : Cardinality({p \in q : p.id < o.id}) = n - 1]

\* replaceTrailingUpsert: a trailing upsert makes room for the next one.
WithoutTrailingUpsert(q) ==
  {o \in q : o.type = "upsert" => \E p \in q : o.id < p.id}

Op(id, type, cart) == [id |-> id, type |-> type, cart |-> cart]

\* Ops appended with fresh opIds, while OpIds lasts.
CanAppend(n) == nextId..(nextId + n - 1) \subseteq OpIds
Without(id)  == {o \in queue : o.id # id}

\* mergeServerVersion: the stored version wins.
Merged(snapshot) ==
  IF doc # NoDoc /\ doc.version # 0
  THEN [snapshot EXCEPT !.version = doc.version] ELSE snapshot

\* Slip: the document is built anew without its saleId.
Bug_Stored(snapshot, status) ==
  [status |-> status, cart |-> snapshot.cart, version |-> snapshot.version]

Stored(snapshot, status) ==
  [status |-> status, cart |-> snapshot.cart, version |-> snapshot.version,
   sold |-> snapshot.sold]
Loaded(d) == [cart |-> d.cart, version |-> d.version, sold |-> d.sold]

-----------------------------------------------------------------------------
(* The cashier.                                                             *)

\* A save takes milliseconds from its read to its write: the cashier does
\* not tap again, and no call is sent or served, in between.
Saving == save # NoSave
CashierFree == ui = "idle" /\ ~Saving
HasLines == screen # NoScreen /\ screen.cart # NoCart

\* A change of the cart: saveCart reads the stored version and status; a
\* save for an order that already left "open" is dropped.
EditCart(cart) ==
  /\ CashierFree /\ screen # NoScreen
  /\ screen.cart # cart
  /\ screen' = [screen EXCEPT !.cart = cart]
  /\ save' = IF doc # NoDoc /\ doc.status # "open" THEN NoSave
             ELSE Merged(screen')
  /\ UNCHANGED <<serverVars, doc, queue, nextId, timer, fired, ui, told,
                 paidFor, amiss, drain, report, losses, reloads>>

\* The rest of saveCart: write, and arm the debounce anew.
SaveCart ==
  /\ Saving
  /\ doc' = Stored(save, "open")
  /\ timer' = TRUE
  /\ save' = NoSave
  /\ UNCHANGED <<serverVars, screen, queue, nextId, fired, ui, told, paidFor,
                 amiss, drain, report, losses, reloads>>

\* enqueueUpsertFor up to its second generation check.
FireDebounce ==
  /\ timer /\ fired = NoCart
  /\ timer' = FALSE
  /\ fired' = IF doc # NoDoc /\ doc.status = "open" THEN doc.cart ELSE NoCart
  /\ UNCHANGED <<serverVars, screen, doc, queue, nextId, save, ui, told,
                 paidFor, amiss, drain, report, losses, reloads>>

\* Slip: appended without looking at the order again.
Bug_MayAppendUpsert == TRUE

\* requireOpenOrder, evaluated inside the transaction that appends.
MayAppendUpsert == doc # NoDoc /\ doc.status = "open" /\ ~CheckoutQueued

AppendUpsert ==
  /\ fired # NoCart
  /\ CanAppend(1)
  /\ fired' = NoCart
  /\ IF MayAppendUpsert
     THEN /\ queue' = WithoutTrailingUpsert(queue) \cup {Op(nextId, "upsert", fired)}
          /\ nextId' = nextId + 1
     ELSE UNCHANGED <<queue, nextId>>
  /\ UNCHANGED <<serverVars, screen, doc, save, timer, ui, told, paidFor,
                 amiss, drain, report, losses, reloads>>

\* rejectIfCheckedOut: a second tap on Pay starts nothing.
CheckedOut ==
  CheckoutQueued \/ (doc # NoDoc /\ doc.status \notin {"open", "held"})

\* checkout: in one transaction the order is marked submitted and its final
\* upsert and its checkout are queued, in this order.
Checkout(online) ==
  LET final == Merged(screen)
  IN  /\ CashierFree /\ HasLines
      /\ CanAppend(2)
      /\ timer' = FALSE
      /\ IF CheckedOut
         THEN UNCHANGED <<doc, queue, nextId, paidFor>>
         ELSE /\ doc' = Stored(final, "submitted")
              /\ queue' = WithoutTrailingUpsert(queue)
                   \cup {Op(nextId, "upsert", final.cart),
                         Op(nextId + 1, "checkout", final.cart)}
              /\ nextId' = nextId + 2
              /\ paidFor' = final.cart
      /\ IF online
         THEN /\ ui' = "paying"
              /\ told' = IF CheckedOut THEN "queued" ELSE "nothing"
              /\ UNCHANGED screen
         ELSE ui' = "idle" /\ told' = "queued" /\ screen' = NoScreen
      /\ UNCHANGED <<serverVars, save, fired, amiss, drain, report, losses,
                     reloads>>

\* What checkout reports after its flush; a second tap on Pay never
\* reports a failure.
Outcome ==
  IF doc # NoDoc /\ doc.status = "completed" THEN "completed"
  ELSE IF told = "nothing" /\ report[MainTab] = "failed" THEN "failed"
  ELSE "queued"

\* The dialog: a failed order is loaded again, a finished one leaves the
\* screen.  The failure of a checkout still queued is one of an older drain.
TellCashier ==
  /\ ui = "answer"
  /\ ui' = "idle"
  /\ told' = Outcome
  /\ amiss' = (amiss \/ (Outcome = "failed" /\ CheckoutQueued))
  /\ screen' = IF Outcome # "failed" THEN NoScreen
               ELSE IF doc # NoDoc
               THEN Loaded(doc) ELSE screen
  /\ UNCHANGED <<serverVars, doc, queue, nextId, save, timer, fired, paidFor,
                 drain, report, losses, reloads>>

\* holdOrder: the final upsert, then the hold.  The document written is the
\* one of the screen, its version included; its writes are one step.
HoldOrder ==
  /\ "hold" \in UiActions /\ CashierFree /\ HasLines
  /\ CanAppend(2)
  /\ timer' = FALSE
  /\ doc' = Stored(screen, "held")
  /\ IF CheckoutQueued
     THEN /\ queue' = queue \cup {Op(nextId, "hold", NoCart)}
          /\ nextId' = nextId + 1
     ELSE /\ queue' = WithoutTrailingUpsert(queue)
               \cup {Op(nextId, "upsert", screen.cart), Op(nextId + 1, "hold", NoCart)}
          /\ nextId' = nextId + 2
  /\ screen' = NoScreen
  /\ UNCHANGED <<serverVars, save, fired, ui, told, paidFor, amiss, drain,
                 report, losses, reloads>>

\* resumeLocalOrder of a held order of the list.
ResumeOrder ==
  /\ "resume" \in UiActions /\ CashierFree /\ screen = NoScreen
  /\ CanAppend(1)
  /\ doc # NoDoc /\ doc.status = "held"
  /\ doc' = [doc EXCEPT !.status = "open"]
  /\ screen' = Loaded(doc)
  /\ IF doc.version # 0 \/ queue # {}
     THEN /\ queue' = queue \cup {Op(nextId, "resume", NoCart)}
          /\ nextId' = nextId + 1
     ELSE UNCHANGED <<queue, nextId>>
  /\ UNCHANGED <<serverVars, save, timer, fired, ui, told, paidFor, amiss,
                 drain, report, losses, reloads>>

\* voidOrder: a draft the server never saw evaporates.
VoidOrder ==
  LET final == Merged(screen)
  IN  /\ "void" \in UiActions /\ CashierFree /\ HasLines
      /\ CanAppend(1)
      /\ timer' = FALSE
      /\ IF (doc # NoDoc /\ doc.version # 0) \/ queue # {}
         THEN /\ doc' = Stored(final, "voided")
              /\ queue' = queue \cup {Op(nextId, "void", NoCart)}
              /\ nextId' = nextId + 1
         ELSE doc' = NoDoc /\ UNCHANGED <<queue, nextId>>
      /\ screen' = NoScreen
      /\ UNCHANGED <<serverVars, save, fired, ui, told, paidFor, amiss, drain,
                     report, losses, reloads>>

-----------------------------------------------------------------------------
(* The drain.                                                               *)

\* The slot a new call takes; which one does not matter.
MayCall == ~Saving /\ \E s \in Slots : calls[s] = NoCall
FreeSlot(s) == s = CHOOSE f \in Slots : calls[f] = NoCall

\* A drain ends: its report replaces the last one if it has any, and the
\* checkout that waits for it goes on.
EndDrain(t, rep) ==
  /\ drain' = [drain EXCEPT ![t] = Idle]
  /\ report' = IF rep = "none" THEN report ELSE [report EXCEPT ![t] = rep]
  /\ ui' = IF t = MainTab /\ ui = "flushing" THEN "answer" ELSE ui

\* A failed op outweighs the others of the same order in a report.
Reported(d, rep) == IF d.report = "failed" THEN "failed" ELSE rep

\* drainQueue: the ops of now, and the version stored now.
StartDrain(t) ==
  /\ drain[t] = Idle
  /\ queue # {} \/ (t = MainTab /\ ui = "paying")
  /\ drain' = [drain EXCEPT ![t] =
       [at |-> "walk", ops |-> BySeq(queue),
        cursor |-> IF doc = NoDoc THEN 0 ELSE doc.version,
        failed |-> FALSE, report |-> "none", batch |-> <<>>,
        answers |-> <<>>, copy |-> NoDoc]]
  /\ ui' = IF t = MainTab /\ ui = "paying" THEN "flushing" ELSE ui
  /\ UNCHANGED <<serverVars, screen, doc, queue, nextId, save, timer, fired,
                 told, paidFor, amiss, report, losses, reloads>>

Walking(t) == drain[t] # Idle /\ drain[t].at = "walk"

FinishDrain(t) ==
  /\ Walking(t) /\ drain[t].ops = <<>>
  /\ EndDrain(t, drain[t].report)
  /\ UNCHANGED <<serverVars, screen, doc, queue, nextId, save, timer, fired,
                 told, paidFor, amiss, losses, reloads>>

\* The ops before the next checkout go in one batch.
NextBatch(ops) ==
  LET checkouts == {n \in DOMAIN ops : ops[n].type = "checkout"}
      size == IF checkouts = {} THEN Len(ops)
              ELSE (CHOOSE n \in checkouts : \A m \in checkouts : n <= m) - 1
  IN  SubSeq(ops, 1, size)

Sent(op, expected) ==
  [id |-> op.id, type |-> op.type, cart |-> op.cart, expected |-> expected]

\* The cursor after n ops of a batch: an upsert moves it even from nothing, a
\* transition only if there is a version.
VersionCursor(batch, start, n) ==
  start + Cardinality({k \in 1..n :
            start # 0 \/ \E j \in 1..k : batch[j].type = "upsert"})

\* runSyncBatch up to the call.
SendBatch(t) ==
  LET d      == drain[t]
      batch  == NextBatch(d.ops)
      cursor(n) == VersionCursor(batch, d.cursor, n)
  IN  /\ Walking(t) /\ d.ops # <<>> /\ Head(d.ops).type # "checkout"
      /\ MayCall
      /\ \E s \in Slots : FreeSlot(s) /\ calls' = [calls EXCEPT ![s] = NewCall(t, "sync",
             [n \in DOMAIN batch |-> Sent(batch[n], cursor(n - 1))])]
      /\ drain' = [drain EXCEPT
           ![t].at = "wait", ![t].batch = batch,
           ![t].ops = SubSeq(d.ops, Len(batch) + 1, Len(d.ops)),
           ![t].cursor = cursor(Len(batch))]
      /\ UNCHANGED <<order, sales, keys, refusals, crashes, screen, doc, queue,
                     nextId, save, timer, fired, ui, told, paidFor, amiss,
                     report, losses, reloads>>

\* Slip: the checkout goes ahead whatever became of its upsert.
Bug_Doomed(t) == FALSE

\* failedOrders: an op of this order failed for good in this drain.
Doomed(t) == drain[t].failed

\* runCheckoutOp up to /submit; a checkout whose upsert failed for good in
\* this drain is failed instead.
StartCheckoutOp(t) ==
  LET d  == drain[t]
      op == Head(d.ops)
  IN  /\ Walking(t) /\ d.ops # <<>> /\ op.type = "checkout"
      /\ IF Doomed(t)
         THEN drain' = [drain EXCEPT ![t].at = "fail"] /\ UNCHANGED calls
         ELSE /\ MayCall
              /\ \E s \in Slots : FreeSlot(s) /\ calls' = [calls EXCEPT ![s] =
                     NewCall(t, "submit", <<Sent(op, 0)>>)]
              /\ drain' = [drain EXCEPT ![t].at = "wait"]
      /\ UNCHANGED <<order, sales, keys, refusals, crashes, screen, doc, queue,
                     nextId, save, timer, fired, ui, told, paidFor, amiss,
                     report, losses, reloads>>

\* The answer to a call of this tab has arrived.
Arrived(t, s, kind) ==
  /\ calls[s] # NoCall /\ calls[s].stage = "done"
  /\ calls[s].caller = t /\ calls[s].kind = kind

Freed(s) == [calls EXCEPT ![s] = NoCall]

ReceiveBatch(t, s) ==
  /\ Arrived(t, s, "sync")
  /\ drain' = [drain EXCEPT ![t].at = "ack", ![t].answers = calls[s].answers]
  /\ calls' = Freed(s)
  /\ UNCHANGED <<order, sales, keys, refusals, crashes, screen, doc, queue,
                 nextId, save, timer, fired, ui, told, paidFor, amiss, report,
                 losses, reloads>>

\* A drain whose first answer has been dealt with.
NextAnswer(d) ==
  [d EXCEPT !.batch = Tail(@), !.answers = Tail(@),
            !.at = IF Len(d.batch) = 1 THEN "walk" ELSE "ack"]

\* dropOpsFor: after a conflict the later ops go, except a checkout.
Undoomed(q, batch) ==
  {o \in q : o.type = "checkout" \/ \E n \in DOMAIN batch : batch[n].id = o.id}

\* One result of a sync response: an accepted op leaves the queue and its
\* version is to be stored; a conflict drops the later ops and parks the
\* cart; any other failure drops the op and fails the order's checkout.
AckOp(t) ==
  LET d      == drain[t]
      op     == Head(d.batch)
      answer == Head(d.answers)
      rest   == NextAnswer(d)
  IN  /\ drain[t] # Idle /\ d.at = "ack"
      /\ CASE answer.code = "ok" ->
                /\ queue' = Without(op.id)
                /\ drain' = [drain EXCEPT ![t] =
                     [rest EXCEPT
                        !.cursor = answer.version, !.report = Reported(d, "ok"),
                        !.at = IF doc = NoDoc THEN @ ELSE "put",
                        !.copy = IF doc = NoDoc THEN @
                                 ELSE [doc EXCEPT !.version = answer.version]]]
                /\ UNCHANGED <<doc, amiss, screen>>
           [] answer.code = "VERSION_CONFLICT" ->
                /\ queue' = Undoomed(Without(op.id), d.batch)
                /\ drain' = [drain EXCEPT ![t] = [rest EXCEPT !.report = "failed"]]
                /\ amiss' = TRUE
                /\ IF op.type = "upsert" /\ doc # NoDoc
                   THEN doc' = NoDoc /\ screen' = NoScreen
                   ELSE UNCHANGED <<doc, screen>>
           [] OTHER ->
                /\ queue' = Without(op.id)
                /\ drain' = [drain EXCEPT ![t] =
                     [rest EXCEPT !.report = "failed", !.failed = TRUE]]
                /\ UNCHANGED <<doc, amiss, screen>>
      /\ UNCHANGED <<serverVars, nextId, save, timer, fired, ui, told, paidFor,
                     report, losses, reloads>>

\* The version goes into the doc read before, which may take back a change
\* of its status.
PutVersion(t) ==
  LET d == drain[t]
  IN  /\ d # Idle /\ d.at = "put"
      /\ doc' = d.copy
      /\ amiss' = (amiss \/ (doc # NoDoc /\ doc.status # d.copy.status))
      /\ drain' = [drain EXCEPT ![t].copy = NoDoc,
                               ![t].at = IF d.batch = <<>> THEN "walk" ELSE "ack"]
      /\ UNCHANGED <<serverVars, screen, queue, nextId, save, timer, fired, ui,
                     told, paidFor, report, losses, reloads>>

\* The checkout goes on with its next call.
CallNext(t, s, kind, cart) ==
  calls' = [calls EXCEPT ![s] = NewCall(t, kind,
    <<[id |-> Head(drain[t].ops).id, type |-> "checkout", cart |-> cart,
       expected |-> 0]>>)]

\* Slip: any refusal is tried again by a later drain.
Bug_StillInFlight(answer) == answer.code # "ok"

\* Another call holds this op's key: it is tried again by a later drain.
StillInFlight(answer) ==
  /\ answer.code = "IDEMPOTENCY_CONFLICT"
  /\ doc = NoDoc \/ ~doc.sold

\* /submit has answered.
AfterSubmit(t, s) ==
  LET answer == calls[s].answers[1]
  IN  /\ Arrived(t, s, "submit")
      /\ CASE answer.code = "ok" ->
                /\ CallNext(t, s, "sale", answer.cart)
                /\ drain' = [drain EXCEPT ![t].cursor = answer.version]
                /\ UNCHANGED <<report, ui>>
           [] StillInFlight(answer) ->
                /\ calls' = Freed(s)
                /\ EndDrain(t, drain[t].report)
           [] OTHER ->
                /\ calls' = Freed(s)
                /\ drain' = [drain EXCEPT ![t].at = "fail"]
                /\ UNCHANGED <<report, ui>>
      /\ UNCHANGED <<order, sales, keys, refusals, crashes, screen, doc, queue,
                     nextId, save, timer, fired, told, paidFor, amiss, losses,
                     reloads>>

\* /api/sales has answered: complete the order, or open it again.
AfterSale(t, s) ==
  /\ Arrived(t, s, "sale")
  /\ CallNext(t, s, IF calls[s].answers[1].code = "ok" THEN "complete" ELSE "reopen",
              NoCart)
  /\ UNCHANGED <<order, sales, keys, refusals, crashes, tillVars>>

\* The best-effort reopen has answered, one way or the other.
AfterReopen(t, s) ==
  /\ Arrived(t, s, "reopen")
  /\ calls' = Freed(s)
  /\ drain' = [drain EXCEPT ![t].at = "fail"]
  /\ UNCHANGED <<order, sales, keys, refusals, crashes, screen, doc, queue,
                 nextId, save, timer, fired, ui, told, paidFor, amiss, report,
                 losses, reloads>>

\* The order is complete, or stays as it is although the sale exists; the
\* checkout is over either way.
AfterComplete(t, s) ==
  LET d  == drain[t]
      ok == calls[s].answers[1].code = "ok"
  IN  /\ Arrived(t, s, "complete")
      /\ calls' = Freed(s)
      /\ doc' = IF ok /\ doc # NoDoc THEN [doc EXCEPT !.status = "completed", !.sold = TRUE] ELSE doc
      /\ queue' = Without(Head(d.ops).id)
      /\ drain' = [drain EXCEPT
           ![t].at = "walk", ![t].ops = Tail(@),
           ![t].report = IF ok THEN Reported(d, "ok") ELSE "failed"]
      /\ UNCHANGED <<order, sales, keys, refusals, crashes, screen, nextId,
                     save, timer, fired, ui, told, paidFor, amiss, report,
                     losses, reloads>>

\* fail(): the checkout leaves the queue,
FailCheckout(t) ==
  LET d == drain[t]
  IN  /\ d # Idle /\ d.at = "fail"
      /\ queue' = Without(Head(d.ops).id)
      /\ drain' = [drain EXCEPT ![t].at = "reopen", ![t].report = "failed"]
      /\ UNCHANGED <<serverVars, screen, doc, nextId, save, timer, fired, ui,
                     told, paidFor, amiss, report, losses, reloads>>

\* and then the order is open again.
ReopenDoc(t) ==
  LET d == drain[t]
  IN  /\ d # Idle /\ d.at = "reopen"
      /\ doc' = IF doc = NoDoc THEN NoDoc ELSE [doc EXCEPT !.status = "open"]
      /\ drain' = [drain EXCEPT ![t].at = "walk", ![t].ops = Tail(@)]
      /\ UNCHANGED <<serverVars, screen, queue, nextId, save, timer, fired, ui,
                     told, paidFor, amiss, report, losses, reloads>>

-----------------------------------------------------------------------------
(* Failures.                                                                *)

Waits(t) == drain[t] # Idle /\ drain[t].at = "wait"

\* The best-effort reopen is the one call whose loss does not stop a drain.
Reopening(t) ==
  \E s \in Slots : calls[s] # NoCall /\ calls[s].caller = t /\ calls[s].kind = "reopen"

Stops(t) == Waits(t) /\ ~Reopening(t)

\* The connection of a call breaks.  The drain stops; the server never got
\* the call, or goes on with it for nobody.
LoseConnection(t, s) ==
  /\ losses < MaxLosses
  /\ calls[s] # NoCall /\ calls[s].caller = t
  /\ losses' = losses + 1
  /\ \/ /\ calls[s] = NewCall(t, calls[s].kind, calls[s].ops)
        /\ calls' = Freed(s)
     \/ calls' = [calls EXCEPT ![s].caller = Nobody]
  /\ IF Reopening(t)
     THEN drain' = [drain EXCEPT ![t].at = "fail"] /\ UNCHANGED <<report, ui>>
     ELSE EndDrain(t, drain[t].report)
  /\ UNCHANGED <<order, sales, keys, refusals, crashes, screen, doc, queue,
                 nextId, save, timer, fired, told, paidFor, amiss, reloads>>

\* Nobody waits for this answer any more.
Forget(s) ==
  /\ calls[s] # NoCall /\ calls[s].stage = "done" /\ calls[s].caller = Nobody
  /\ calls' = Freed(s)
  /\ UNCHANGED <<order, sales, keys, refusals, crashes, tillVars>>

\* The server stops: calls at work are gone, committed rows stay, and who
\* waits sees a network error.
CrashServer ==
  /\ crashes < MaxCrashes
  /\ \E s \in Slots : calls[s] # NoCall
  /\ crashes' = crashes + 1
  /\ calls' = [s \in Slots |-> NoCall]
  /\ drain' = [t \in Tabs |-> CASE Reopening(t) -> [drain[t] EXCEPT !.at = "fail"]
                                [] Stops(t) -> Idle
                                [] OTHER -> drain[t]]
  /\ report' = [t \in Tabs |-> IF Stops(t) /\ drain[t].report # "none"
                               THEN drain[t].report ELSE report[t]]
  /\ ui' = IF Stops(MainTab) /\ ui = "flushing" THEN "answer" ELSE ui
  /\ UNCHANGED <<order, sales, keys, refusals, screen, doc, queue, nextId,
                 save, timer, fired, told, paidFor, amiss, losses, reloads>>

\* The cashier's tab is reloaded: what was only in memory is gone, and the
\* open order is restored with the version it was stored with.
Reload ==
  /\ reloads < MaxReloads
  /\ reloads' = reloads + 1
  /\ calls' = [s \in Slots |->
       IF calls[s] # NoCall /\ calls[s].caller = MainTab
       THEN [calls[s] EXCEPT !.caller = Nobody] ELSE calls[s]]
  /\ screen' = IF doc # NoDoc /\ doc.status = "open"
               THEN Loaded(doc) ELSE NoScreen
  /\ save' = NoSave /\ timer' = FALSE /\ fired' = NoCart /\ ui' = "idle"
  /\ drain' = [drain EXCEPT ![MainTab] = Idle]
  /\ report' = [report EXCEPT ![MainTab] = "none"]
  /\ UNCHANGED <<order, sales, keys, refusals, crashes, doc, queue, nextId,
                 told, paidFor, amiss, losses>>

-----------------------------------------------------------------------------
Cashier ==
  \/ \E c \in Carts : EditCart(c)
  \/ \E online \in BOOLEAN : Checkout(online)
  \/ HoldOrder \/ ResumeOrder \/ VoidOrder

Engine == SaveCart \/ FireDebounce \/ AppendUpsert \/ TellCashier

DrainStep(t) ==
  \/ StartDrain(t) \/ FinishDrain(t) \/ SendBatch(t) \/ StartCheckoutOp(t)
  \/ AckOp(t) \/ PutVersion(t) \/ FailCheckout(t) \/ ReopenDoc(t)
  \/ \E s \in Slots :
       \/ ReceiveBatch(t, s) \/ AfterSubmit(t, s) \/ AfterSale(t, s)
       \/ AfterReopen(t, s) \/ AfterComplete(t, s)

Serve(s) == ~Saving /\ ((ServerStep(s) /\ UNCHANGED tillVars) \/ Forget(s))

Failure ==
  \/ \E t \in Tabs, s \in Slots : LoseConnection(t, s)
  \/ CrashServer \/ Reload

Next ==
  \/ Cashier \/ Engine \/ Failure
  \/ \E t \in Tabs : DrainStep(t)
  \/ \E s \in Slots : Serve(s)

Spec == Init /\ [][Next]_vars

\* Every tab drains again and again (30 s interval, `online` events), and
\* the server finishes what it works on.
FairSpec ==
  /\ Spec
  /\ WF_vars(Engine)
  /\ \A t \in Tabs : WF_vars(DrainStep(t))
  /\ \A s \in Slots : WF_vars(Serve(s))

-----------------------------------------------------------------------------
(* What the till promises.                                                  *)

\* Invariants 2 and 3 of the ordering barrier: an order never has an upsert
\* queued behind its checkout, nor two checkouts, whatever the debounce,
\* the taps on Pay and the drains do to each other (offline.ts:705-726).
QueueIsOrdered ==
  \A o, p \in queue :
    o.id < p.id /\ o.type = "checkout" => p.type \notin {"upsert", "checkout"}

\* Through retries, lost answers and stops of the server an order is sold
\* once, and what the till and the server call completed was sold
\* (offline.ts:5-14).
SoldOnce ==
  /\ Len(sales) <= 1
  /\ (doc # NoDoc /\ doc.status = "completed") \/ order.status = "completed"
       \/ told = "completed" => sales # <<>>

\* A checkout the cashier is told has failed left no sale behind
\* (offline.ts:1295-1297: a failed checkout shown for a payment that went
\* through is a lie).
FailedMeansUnsold == told = "failed" => sales = <<>>

\* One tab drains, no answer was lost and no screen reloaded, and nothing
\* was amiss: no op met a version conflict, no write of a drain took back a
\* change of the order's status, and no failure of an older drain was
\* reported for a checkout still queued.
Undisturbed == Tabs = {MainTab} /\ losses = 0 /\ reloads = 0 /\ ~amiss

\* It takes one of these to break that: an undisturbed till never reports as
\* failed a checkout that sold, then or at a later try, through stops of the
\* server, refused sales, holds and voids (offline.ts:1060-1067).
UnsoldUnlessAmiss == Undisturbed => FailedMeansUnsold

\* And what an undisturbed till sells is the cart the cashier took the money
\* for: the final upsert reached the server, or failed the checkout behind
\* it, and no cart is paid for after the sale (offline.ts:1060-1067,
\* 1277-1278).
SaleIsTheCartPaid == Undisturbed /\ sales # <<>> => sales[1] = paidFor

\* A queued checkout is settled in the end: sold, or refused and reported.
CheckoutsAreSettled == CheckoutQueued ~> ~CheckoutQueued
=============================================================================

------------------------------ MODULE PosServer ------------------------------
(***************************************************************************)
(* The server side of the tills: the v2 order endpoints with their         *)
(* idempotency reservations (routes/pos-v2.js, lib/posOrderMachine.js,     *)
(* lib/idempotencyStore.js), and what the tills rely on of POST /api/sales *)
(* (routes/sales.js).  One order id is followed; orders share nothing      *)
(* here.                                                                   *)
(*                                                                         *)
(* A handler's transaction holds the order row (FOR UPDATE) from its first *)
(* statement, so it is one step.  The reservation is written before it and *)
(* completed after it by statements of their own: the server can stop in   *)
(* between, and another call can see the reservation in progress.          *)
(***************************************************************************)
EXTENDS Naturals, Sequences

CONSTANTS Carts, NoCart,    \* the lines of an order
          Total,            \* what a cart costs
          OpIds,            \* opIds, used as idempotency keys
          Tabs, Nobody,     \* who waits for a call
          Slots,            \* calls the server works on at a time
          MaxRefusals,      \* sales refused (closed shift, stock, ...)
          MaxCrashes        \* stops of the server

ASSUME ServerAssumption ==
  /\ NoCart \notin Carts /\ Total \in [Carts -> Nat]
  /\ OpIds \subseteq Nat /\ Nobody \notin Tabs
  /\ MaxRefusals \in Nat /\ MaxCrashes \in Nat

VARIABLES order,      \* the row of pos_orders with its lines
          sales,      \* the rows of `sales` with this client_order_id
          keys,       \* idempotency_keys
          calls,      \* requests the server is working on or has answered
          refusals,   \* sales refused so far
          crashes     \* stops so far

serverVars == <<order, sales, keys, calls, refusals, crashes>>

-----------------------------------------------------------------------------
OrderStatuses == {"none", "open", "held", "submitted", "completed", "voided"}
SyncTypes     == {"upsert", "hold", "resume", "void"}
Kinds         == {"sync", "submit", "sale", "complete", "reopen"}
Keyed         == {"sync", "submit"}   \* kinds that reserve a key
Codes         == {"ok", "VERSION_CONFLICT", "IDEMPOTENCY_CONFLICT", "REFUSED"}

\* An op as it is sent; expected 0 is an absent expectedVersion.
WireOps == [id : OpIds, type : SyncTypes \cup {"checkout"},
            cart : Carts \cup {NoCart}, expected : Nat]
Answers == [code : Codes, version : Nat, cart : Carts \cup {NoCart}]

NoCall == [kind |-> "none"]
Calls  == [caller : Tabs \cup {Nobody}, kind : Kinds, ops : Seq(WireOps),
           answers : Seq(Answers), stage : {"begin", "work", "store", "done"},
           pending : Answers]

Ok(version)  == [code |-> "ok", version |-> version, cart |-> NoCart]
Error(code)  == [code |-> code, version |-> 0, cart |-> NoCart]
Refused      == Error("REFUSED")

Unknown == [state |-> "free"]   \* no row for this key
KeyRows == [state : {"running"}, op : WireOps]
             \cup [state : {"done"}, op : WireOps, answer : Answers]

TypeOKServer ==
  /\ order \in [status : OrderStatuses, cart : Carts \cup {NoCart}, version : Nat]
  /\ sales \in Seq(Carts)
  /\ keys \in [OpIds -> KeyRows \cup {Unknown}]
  /\ calls \in [Slots -> Calls \cup {NoCall}]
  /\ refusals \in 0..MaxRefusals /\ crashes \in 0..MaxCrashes

InitServer ==
  /\ order = [status |-> "none", cart |-> NoCart, version |-> 0]
  /\ sales = <<>>
  /\ keys = [k \in OpIds |-> Unknown]
  /\ calls = [s \in Slots |-> NoCall]
  /\ refusals = 0 /\ crashes = 0

-----------------------------------------------------------------------------
(* The handlers.  Each returns the order row it leaves and its answer; an   *)
(* answer other than "ok" is a transaction rolled back.                     *)

Kept(answer) == [row |-> order, answer |-> answer]
Moved(row)   == [row |-> [row EXCEPT !.version = @ + 1],
                 answer |-> Ok(row.version + 1)]

DoUpsert(op) ==
  IF order.status = "none"
  THEN Moved([status |-> "open", cart |-> op.cart, version |-> 0])
  ELSE IF order.status # "open" \/ op.expected = 0 THEN Kept(Refused)
  ELSE IF order.version # op.expected THEN Kept(Error("VERSION_CONFLICT"))
  ELSE Moved([order EXCEPT !.cart = op.cart])

\* The statuses an action may leave, and the one it reaches.
From == [hold |-> {"open"}, resume |-> {"held"}, reopen |-> {"submitted"},
         void |-> {"open", "held"}]
To   == [hold |-> "held", resume |-> "open", reopen |-> "open",
         void |-> "voided"]

DoTransition(action, op) ==
  IF op.expected # 0 /\ order.version # op.expected
  THEN Kept(IF order.status = "none" THEN Refused
            ELSE Error("VERSION_CONFLICT"))
  ELSE IF order.status \notin From[action] THEN Kept(Refused)
  ELSE Moved([order EXCEPT !.status = To[action]])

\* The payments must add up to the total of the stored lines; the answer
\* carries the sale built from those lines.
DoSubmit(op) ==
  IF order.status # "open" \/ Total[order.cart] # Total[op.cart]
  THEN Kept(Refused)
  ELSE LET moved == Moved([order EXCEPT !.status = "submitted"])
       IN  [moved EXCEPT !.answer.cart = order.cart]

\* Slip: the machine knows no step from submitted to completed.
Bug_DoComplete ==
  IF order.status = "completed" THEN Kept(Ok(order.version)) ELSE Kept(Refused)

\* The saleId a till names is the only sale of the order.
DoComplete ==
  CASE order.status = "completed" -> Kept(Ok(order.version))
    [] order.status = "submitted" -> Moved([order EXCEPT !.status = "completed"])
    [] OTHER -> Kept(Refused)

Handler(kind, op) ==
  CASE kind = "submit"   -> DoSubmit(op)
    [] kind = "complete" -> DoComplete
    [] kind = "reopen"   -> DoTransition("reopen", op)
    [] OTHER -> IF op.type = "upsert" THEN DoUpsert(op)
                ELSE DoTransition(op.type, op)

-----------------------------------------------------------------------------
(* A call at work.                                                          *)

NewCall(t, kind, ops) ==
  [caller |-> t, kind |-> kind, ops |-> ops, answers |-> <<>>,
   stage |-> IF kind \in Keyed THEN "begin" ELSE "work",
   pending |-> Refused]

CurrentOp(c) == c.ops[Len(c.answers) + 1]

\* The answer to the current op is known; the batch goes on with the next.
Answered(c, answer) ==
  [c EXCEPT !.answers = Append(@, answer),
            !.pending = Refused,
            !.stage = IF Len(c.answers) + 1 < Len(c.ops) THEN "begin" ELSE "done"]

AtStage(s, stage) == calls[s] # NoCall /\ calls[s].stage = stage

\* begin() of idempotencyStore: take the key, replay a stored answer, or
\* refuse a key in progress or with another body.
Reserve(s) ==
  LET c   == calls[s]
      op  == CurrentOp(c)
      key == keys[op.id]
  IN  /\ AtStage(s, "begin")
      /\ IF key = Unknown
         THEN /\ keys' = [keys EXCEPT ![op.id] = [state |-> "running", op |-> op]]
              /\ calls' = [calls EXCEPT ![s].stage = "work"]
         ELSE /\ calls' = [calls EXCEPT ![s] = Answered(c,
                   IF key.state = "done" /\ key.op = op THEN key.answer
                   ELSE Error("IDEMPOTENCY_CONFLICT"))]
              /\ UNCHANGED keys
      /\ UNCHANGED <<order, sales, refusals, crashes>>

\* abort() of idempotencyStore.
Aborted(op) == [keys EXCEPT ![op.id] = Unknown]

\* The handler's transaction, and abort() when it throws.
Handle(s) ==
  LET c       == calls[s]
      op      == CurrentOp(c)
      outcome == Handler(c.kind, op)
  IN  /\ AtStage(s, "work")
      /\ c.kind # "sale"
      /\ order' = outcome.row
      /\ IF c.kind \in Keyed /\ outcome.answer.code = "ok"
         THEN /\ calls' = [calls EXCEPT ![s].stage = "store",
                                        ![s].pending = outcome.answer]
              /\ UNCHANGED keys
         ELSE /\ calls' = [calls EXCEPT ![s] = Answered(c, outcome.answer)]
              /\ keys' = IF c.kind \in Keyed THEN Aborted(op) ELSE keys
      /\ UNCHANGED <<sales, refusals, crashes>>

\* Slip: the update of the key fails and nobody notices.
Bug_Store(s) ==
  /\ AtStage(s, "store")
  /\ calls' = [calls EXCEPT ![s] = Answered(calls[s], calls[s].pending)]
  /\ UNCHANGED <<order, sales, keys, refusals, crashes>>

\* complete() of idempotencyStore.
Store(s) ==
  LET c  == calls[s]
      op == CurrentOp(c)
  IN  /\ AtStage(s, "store")
      /\ keys' = [keys EXCEPT ![op.id] =
           [state |-> "done", op |-> op, answer |-> c.pending]]
      /\ calls' = [calls EXCEPT ![s] = Answered(c, c.pending)]
      /\ UNCHANGED <<order, sales, refusals, crashes>>

\* Slip: the sale is looked up by nothing.
Bug_AlreadySold == FALSE

\* The sale with this client_order_id, looked up first and kept unique by
\* the index.
AlreadySold == sales # <<>>

\* POST /api/sales echoes the sale of this client_order_id, or makes it, or
\* refuses it.
Sell(s) ==
  LET c == calls[s]
  IN  /\ AtStage(s, "work")
      /\ c.kind = "sale"
      /\ \/ /\ sales' = IF AlreadySold THEN sales
                        ELSE Append(sales, CurrentOp(c).cart)
            /\ calls' = [calls EXCEPT ![s] = Answered(c, Ok(0))]
            /\ UNCHANGED refusals
         \/ /\ ~AlreadySold
            /\ refusals < MaxRefusals
            /\ refusals' = refusals + 1
            /\ calls' = [calls EXCEPT ![s] = Answered(c, Refused)]
            /\ UNCHANGED sales
      /\ UNCHANGED <<order, keys, crashes>>

ServerStep(s) == Reserve(s) \/ Handle(s) \/ Store(s) \/ Sell(s)
=============================================================================

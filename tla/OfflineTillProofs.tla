-------------------------- MODULE OfflineTillProofs --------------------------
(***************************************************************************)
(* The till of OfflineTill at work against PosServer, for any carts, tabs, *)
(* ops, slots, refusals, losses, reloads and stops of the server.          *)
(*                                                                         *)
(* That an order is sold once is what /api/sales ensures; that whatever is *)
(* called completed was sold takes what the calls and the drains know of   *)
(* each other.  ServerInv says of a call how far its ops are answered, and *)
(* that a completion is asked for only once the sale exists.  Waiting ties *)
(* the calls to the drains: a drain waits for one call, about the ops it   *)
(* still holds.  DrainInv says of a drain that it has an op wherever it    *)
(* deals with one, an answer for each op of a batch, and no completed      *)
(* document unless there was a sale; a stale copy it writes back is one    *)
(* more way for a document to become completed.                            *)
(*                                                                         *)
(* The queue is a set of ops with ids below the next (GoodQueue), which is *)
(* why what is appended comes after all the rest.                          *)
(*                                                                         *)
(* The last two theorems are about an undisturbed till, in three layers on *)
(* top of TillInv, each kept by every step that disturbs nothing.          *)
(* LaneInv: the one drain, its one call and the queue go through the ids   *)
(* in order, and no key beyond nextId is known to the server.              *)
(* SettledInv: a queued checkout whose submit reached the server is the    *)
(* next op of the order; once it sold, its key remembers the accepted      *)
(* submit and the order stays taken, so that no try can fail it; the       *)
(* cashier is elsewhere or waits meanwhile.                                *)
(* PaidInv: the final upsert of the queued checkout is still queued, or    *)
(* has put the cart paid for into the order, or fails the checkout; while  *)
(* it is queued, all tries send the same batch, and once it was executed   *)
(* no earlier upsert of that batch can be executed again (Outdated).       *)
(***************************************************************************)
EXTENDS OfflineTill, FiniteSetTheorems, SequenceTheorems, WellFoundedInduction,
        TLAPS

\* An op that brings a cart.
WithCart(o) == o.type \in {"upsert", "checkout"} => o.cart \in Carts

\* An accepted answer to a submit carries the lines of the sale.
Payable(a) == a.code = "ok" => a.cart \in Carts

\* A call is done once each of its ops is answered; only a sync has more
\* than one op, and no checkout.
GoodCall(c) ==
  /\ c.ops # <<>> /\ Len(c.answers) <= Len(c.ops)
  /\ c.stage = "done" <=> Len(c.answers) = Len(c.ops)
  /\ c.kind # "sync" => Len(c.ops) = 1
  /\ c.stage \in {"begin", "store"} => c.kind \in Keyed
  /\ \A n \in 1..Len(c.ops) :
       /\ c.ops[n].type = "checkout" <=> c.kind # "sync"
       /\ c.kind \in {"sync", "submit", "sale"} => WithCart(c.ops[n])
  /\ c.kind = "submit" =>
       /\ c.stage = "store" => Payable(c.pending)
       /\ \A n \in 1..Len(c.answers) : Payable(c.answers[n])

\* A stored answer to a checkout's submit.
GoodKey(row) == row # Unknown /\ row.state = "done" /\ row.op.type = "checkout"
                  => Payable(row.answer)

\* What a call knows of the sale: it exists once /api/sales has accepted it,
\* and only then is the order completed.
Sold == sales # <<>>
CallSold(c) ==
  /\ c.kind = "complete" => Sold
  /\ c.kind = "sale" /\ c.stage = "done" /\ c.answers[1].code = "ok" => Sold

ServerInv ==
  /\ TypeOKServer
  /\ \A s \in Slots : calls[s] # NoCall => GoodCall(calls[s]) /\ CallSold(calls[s])
  /\ \A k \in OpIds : GoodKey(keys[k])
  /\ order.status # "none" => order.cart \in Carts
  /\ Len(sales) <= 1 /\ (order.status = "completed" => Sold)

-----------------------------------------------------------------------------
(* Rows of the server.                                                      *)

LEMMA AnswerTypes ==
  /\ Refused \in Answers
  /\ \A code \in Codes : Error(code) \in Answers
  /\ \A v \in Nat : Ok(v) \in Answers /\ Ok(v).code = "ok" /\ Ok(v).cart = NoCart
  /\ \A code \in Codes : Error(code).code = code
  /\ Refused.code = "REFUSED"
BY DEF Refused, Error, Ok, Answers, Codes

\* The op a call works on.
LEMMA CurrentOpKnown ==
  ASSUME NEW c \in Calls, GoodCall(c), c.stage # "done"
  PROVE  /\ CurrentOp(c) \in WireOps /\ CurrentOp(c).id \in OpIds
         /\ CurrentOp(c).type = "checkout" <=> c.kind # "sync"
         /\ c.kind \in {"sync", "submit", "sale"} => WithCart(CurrentOp(c))
<1>1. c.ops \in Seq(WireOps) /\ c.answers \in Seq(Answers)
  BY DEF Calls
<1>2. Len(c.answers) \in Nat /\ Len(c.ops) \in Nat
  BY <1>1
<1>3. Len(c.answers) + 1 \in 1..Len(c.ops)
  BY <1>2 DEF GoodCall
<1>4. CurrentOp(c) \in WireOps
  BY <1>1, <1>3, ElementOfSeq DEF CurrentOp
<1> QED BY <1>3, <1>4 DEF CurrentOp, GoodCall, WireOps

\* An answer to the current op keeps a call as it should be.
LEMMA AnsweredGood ==
  ASSUME NEW c \in Calls, GoodCall(c), c.stage # "done",
         NEW a \in Answers, c.kind = "submit" => Payable(a)
  PROVE  /\ Answered(c, a) \in Calls /\ GoodCall(Answered(c, a))
         /\ Answered(c, a).kind = c.kind /\ Answered(c, a).ops = c.ops
         /\ Answered(c, a).caller = c.caller
         /\ c.kind # "sync" => Answered(c, a).answers[1] = a
<1> DEFINE stage == IF Len(c.answers) + 1 < Len(c.ops) THEN "begin" ELSE "done"
           more  == Append(c.answers, a)
           r     == [c EXCEPT !.answers = more, !.pending = Refused, !.stage = stage]
<1>1. /\ c.ops \in Seq(WireOps) /\ c.answers \in Seq(Answers)
      /\ Len(c.answers) \in Nat /\ Len(c.ops) \in Nat
  BY DEF Calls
<1>2. /\ more \in Seq(Answers) /\ Len(more) = Len(c.answers) + 1
      /\ \A n \in 1..Len(c.answers) : more[n] = c.answers[n]
      /\ more[Len(c.answers) + 1] = a
  BY <1>1, AppendProperties
<1>3. stage \in {"begin", "done"}
  OBVIOUS
<1>4. Answered(c, a) = r
  BY DEF Answered, Calls
<1> HIDE DEF stage, more
<1>5. /\ r \in Calls /\ r.kind = c.kind /\ r.ops = c.ops /\ r.caller = c.caller
      /\ r.answers = more /\ r.stage = stage
  BY <1>2, <1>3, AnswerTypes DEF Calls
<1> HIDE DEF r
<1>6. Len(c.answers) < Len(c.ops)
  BY <1>1 DEF GoodCall
<1>7. stage = "begin" => c.kind \in Keyed
  BY <1>1, <1>6 DEF GoodCall, stage, Keyed, Calls, Kinds
<1>8. stage = "done" <=> Len(more) = Len(c.ops)
  BY <1>1, <1>2, <1>6 DEF stage
<1>9. ASSUME c.kind = "submit", NEW n \in 1..Len(more) PROVE Payable(more[n])
  BY <1>1, <1>2, <1>9 DEF GoodCall
<1>10. c.kind # "sync" => Len(c.answers) = 0
  BY <1>1, <1>6 DEF GoodCall
<1> QED BY <1>1, <1>2, <1>3, <1>4, <1>5, <1>6, <1>7, <1>8, <1>9, <1>10 DEF GoodCall

LEMMA CallRow ==
  ASSUME ServerInv, NEW s \in Slots, calls[s] # NoCall
  PROVE  calls[s] \in Calls /\ GoodCall(calls[s]) /\ CallSold(calls[s])
BY DEF ServerInv, TypeOKServer

-----------------------------------------------------------------------------
(* Handlers.                                                                *)

OrderRows == [status : OrderStatuses, cart : Carts \cup {NoCart}, version : Nat]

\* What a handler may leave and answer, given the call.
GoodOutcome(c, outcome) ==
  /\ outcome.row \in OrderRows /\ outcome.answer \in Answers
  /\ outcome.row.status # "none" => outcome.row.cart \in Carts
  /\ c.kind = "submit" => Payable(outcome.answer)
  /\ outcome.row.status = "completed" =>
       order.status = "completed" \/ c.kind = "complete"

LEMMA MovedRow ==
  ASSUME NEW row \in OrderRows
  PROVE  /\ Moved(row).row \in OrderRows /\ Moved(row).answer \in Answers
         /\ Moved(row).row.status = row.status /\ Moved(row).row.cart = row.cart
         /\ Moved(row).answer.code = "ok"
BY AnswerTypes DEF Moved, OrderRows

LEMMA KeptRow ==
  ASSUME order \in OrderRows, order.status # "none" => order.cart \in Carts,
         NEW c, NEW a \in Answers, c.kind = "submit" => Payable(a)
  PROVE  GoodOutcome(c, Kept(a))
BY DEF Kept, GoodOutcome

LEMMA TransitionGood ==
  ASSUME order \in OrderRows, order.status # "none" => order.cart \in Carts,
         NEW c, c.kind # "submit", NEW action \in {"hold", "resume", "reopen", "void"},
         NEW op
  PROVE  GoodOutcome(c, DoTransition(action, op))
<1>1. \A a \in Answers : GoodOutcome(c, Kept(a))
  BY KeptRow
<1>2. /\ Refused \in Answers
      /\ (IF order.status = "none" THEN Refused ELSE Error("VERSION_CONFLICT")) \in Answers
  BY AnswerTypes DEF Codes
<1>3. ASSUME order.status \in From[action]
      PROVE  GoodOutcome(c, Moved([order EXCEPT !.status = To[action]]))
  <2> DEFINE row == [order EXCEPT !.status = To[action]]
  <2>1. To[action] \in {"held", "open", "voided"}
    BY DEF To
  <2>2. order.status # "none"
    BY <1>3 DEF From
  <2>3. row \in OrderRows /\ row.status = To[action] /\ row.cart = order.cart
    BY <2>1 DEF OrderRows, OrderStatuses
  <2> HIDE DEF row
  <2>4. GoodOutcome(c, Moved(row))
    BY <2>1, <2>2, <2>3, MovedRow DEF GoodOutcome
  <2> QED BY <2>4 DEF row
<1> QED BY <1>1, <1>2, <1>3 DEF DoTransition

LEMMA UpsertGood ==
  ASSUME order \in OrderRows, order.status # "none" => order.cart \in Carts,
         NEW c, c.kind # "submit", NEW op \in WireOps, op.cart \in Carts
  PROVE  GoodOutcome(c, DoUpsert(op))
<1>1. \A a \in Answers : GoodOutcome(c, Kept(a))
  BY KeptRow
<1>2. Refused \in Answers /\ Error("VERSION_CONFLICT") \in Answers
  BY AnswerTypes DEF Codes
<1>3. GoodOutcome(c, Moved([status |-> "open", cart |-> op.cart, version |-> 0]))
  <2> DEFINE row == [status |-> "open", cart |-> op.cart, version |-> 0]
  <2>1. row \in OrderRows /\ row.status = "open" /\ row.cart = op.cart
    BY DEF OrderRows, OrderStatuses
  <2> HIDE DEF row
  <2>2. GoodOutcome(c, Moved(row))
    BY <2>1, MovedRow DEF GoodOutcome
  <2> QED BY <2>2 DEF row
<1>4. ASSUME order.status = "open"
      PROVE  GoodOutcome(c, Moved([order EXCEPT !.cart = op.cart]))
  <2> DEFINE row == [order EXCEPT !.cart = op.cart]
  <2>1. row \in OrderRows /\ row.status = "open" /\ row.cart = op.cart
    BY <1>4 DEF OrderRows, OrderStatuses
  <2> HIDE DEF row
  <2>2. GoodOutcome(c, Moved(row))
    BY <2>1, MovedRow DEF GoodOutcome
  <2> QED BY <2>2 DEF row
<1> QED BY <1>1, <1>2, <1>3, <1>4 DEF DoUpsert

LEMMA SubmitGood ==
  ASSUME order \in OrderRows, order.status # "none" => order.cart \in Carts,
         NEW c, NEW op
  PROVE  GoodOutcome(c, DoSubmit(op))
<1>1. GoodOutcome(c, Kept(Refused))
  BY KeptRow, AnswerTypes DEF Payable
<1>2. ASSUME order.status = "open"
      PROVE  GoodOutcome(c, [Moved([order EXCEPT !.status = "submitted"])
                                EXCEPT !.answer.cart = order.cart])
  <2> DEFINE row == [order EXCEPT !.status = "submitted"]
             m   == Moved(row)
             o   == [m EXCEPT !.answer.cart = order.cart]
  <2>1. row \in OrderRows /\ row.status = "submitted" /\ row.cart = order.cart
    BY DEF OrderRows, OrderStatuses
  <2>2. order.cart \in Carts
    BY <1>2
  <2> HIDE DEF row
  <2>3. /\ m.row \in OrderRows /\ m.row.status = "submitted" /\ m.row.cart = order.cart
        /\ m.answer \in Answers
    BY <2>1, MovedRow
  <2>4. m = [row |-> m.row, answer |-> m.answer]
    BY DEF Moved
  <2> HIDE DEF m
  <2>5. o.row = m.row /\ o.answer = [m.answer EXCEPT !.cart = order.cart]
    BY <2>4
  <2> HIDE DEF o
  <2>6. o.answer \in Answers /\ o.answer.cart = order.cart
    BY <2>2, <2>3, <2>5 DEF Answers
  <2>7. GoodOutcome(c, o)
    BY <2>2, <2>3, <2>5, <2>6 DEF GoodOutcome, Payable
  <2> QED BY <2>7 DEF o, m, row
<1> QED BY <1>1, <1>2 DEF DoSubmit

LEMMA CompleteGood ==
  ASSUME order \in OrderRows, order.status # "none" => order.cart \in Carts,
         NEW c, c.kind = "complete"
  PROVE  GoodOutcome(c, DoComplete)
<1>1. \A a \in Answers : GoodOutcome(c, Kept(a))
  BY KeptRow
<1>2. Refused \in Answers /\ Ok(order.version) \in Answers
  BY AnswerTypes DEF OrderRows
<1>3. ASSUME order.status = "submitted"
      PROVE  GoodOutcome(c, Moved([order EXCEPT !.status = "completed"]))
  <2> DEFINE row == [order EXCEPT !.status = "completed"]
  <2>1. row \in OrderRows /\ row.status = "completed" /\ row.cart = order.cart
    BY DEF OrderRows, OrderStatuses
  <2> HIDE DEF row
  <2>2. GoodOutcome(c, Moved(row))
    BY <1>3, <2>1, MovedRow DEF GoodOutcome
  <2> QED BY <2>2 DEF row
<1>4. CASE order.status = "completed"  BY <1>1, <1>2, <1>4 DEF DoComplete
<1>5. CASE order.status = "submitted"  BY <1>3, <1>5 DEF DoComplete
<1>6. CASE order.status \notin {"completed", "submitted"}
  BY <1>1, <1>2, <1>6 DEF DoComplete
<1> QED BY <1>4, <1>5, <1>6

LEMMA HandlerGood ==
  ASSUME ServerInv, NEW c \in Calls, GoodCall(c), c.stage # "done", c.kind # "sale"
  PROVE  GoodOutcome(c, Handler(c.kind, CurrentOp(c)))
<1> DEFINE op == CurrentOp(c)
<1>1. /\ op \in WireOps /\ (op.type = "checkout" <=> c.kind # "sync")
      /\ c.kind \in {"sync", "submit", "sale"} => WithCart(op)
  BY CurrentOpKnown
<1>2. order \in OrderRows /\ (order.status # "none" => order.cart \in Carts)
  BY DEF ServerInv, TypeOKServer, OrderRows
<1> HIDE DEF op
<1>3. c.kind \in Kinds /\ op.type \in SyncTypes \cup {"checkout"}
  BY <1>1 DEF Calls, WireOps
<1>4. CASE c.kind = "submit"
  BY <1>2, <1>4, SubmitGood DEF Handler, op
<1>5. CASE c.kind = "complete"
  BY <1>2, <1>5, CompleteGood DEF Handler, op
<1>6. CASE c.kind = "reopen"
  BY <1>2, <1>6, TransitionGood DEF Handler, op
<1>7. CASE c.kind = "sync" /\ op.type = "upsert"
  <2>1. op.cart \in Carts
    BY <1>1, <1>7 DEF WithCart
  <2>2. GoodOutcome(c, DoUpsert(op))
    BY <1>1, <1>2, <1>7, <2>1, UpsertGood
  <2>3. Handler(c.kind, op) = DoUpsert(op)
    BY <1>7 DEF Handler
  <2> QED BY <2>2, <2>3 DEF op
<1>8. CASE c.kind = "sync" /\ op.type # "upsert"
  <2>1. op.type \in {"hold", "resume", "reopen", "void"}
    BY <1>1, <1>3, <1>8 DEF SyncTypes
  <2>2. GoodOutcome(c, DoTransition(op.type, op))
    BY <1>2, <1>8, <2>1, TransitionGood
  <2>3. Handler(c.kind, op) = DoTransition(op.type, op)
    BY <1>8 DEF Handler
  <2> QED BY <2>2, <2>3 DEF op
<1> QED BY <1>3, <1>4, <1>5, <1>6, <1>7, <1>8 DEF Kinds

-----------------------------------------------------------------------------
(* Steps of the server.                                                     *)

GoodCalls ==
  \A s \in Slots : calls[s] # NoCall => GoodCall(calls[s]) /\ CallSold(calls[s])

\* Calls keep who waits for them, what they are and their ops.
SameCalls ==
  \A s \in Slots :
    calls'[s] # NoCall =>
      /\ calls[s] # NoCall
      /\ calls'[s].caller = calls[s].caller /\ calls'[s].kind = calls[s].kind
      /\ calls'[s].ops = calls[s].ops

\* One call moves on, and what is sold stays sold.
LEMMA OneCallMoves ==
  ASSUME ServerInv, NEW s \in Slots, NEW c \in Calls, GoodCall(c),
         calls' = [calls EXCEPT ![s] = c],
         Sold => Sold',
         c.kind = "complete" => Sold',
         c.kind = "sale" /\ c.stage = "done" /\ c.answers[1].code = "ok" => Sold'
  PROVE  /\ calls' \in [Slots -> Calls \cup {NoCall}]
         /\ GoodCalls'
<1>1. calls \in [Slots -> Calls \cup {NoCall}]
  BY DEF ServerInv, TypeOKServer
<1>2. \A x \in Slots : x # s => calls'[x] = calls[x]
  BY <1>1
<1>3. calls'[s] = c
  BY <1>1
<1>4. ASSUME NEW x \in Slots, calls'[x] # NoCall
      PROVE  GoodCall(calls'[x]) /\ CallSold(calls[x])'
  <2>1. CASE x = s
    BY <1>3, <2>1 DEF CallSold
  <2>2. CASE x # s
    BY <1>2, <1>4, <2>2 DEF ServerInv, CallSold
  <2> QED BY <2>1, <2>2
<1> QED BY <1>1, <1>4 DEF GoodCalls

LEMMA OneCallSame ==
  ASSUME ServerInv, NEW s \in Slots, calls[s] # NoCall, NEW c,
         calls' = [calls EXCEPT ![s] = c],
         c.caller = calls[s].caller, c.kind = calls[s].kind, c.ops = calls[s].ops
  PROVE  SameCalls
BY DEF SameCalls, ServerInv, TypeOKServer

LEMMA ReserveKeeps ==
  ASSUME ServerInv, NEW s \in Slots, Reserve(s)
  PROVE  ServerInv' /\ SameCalls
<1>1. PICK c : c = calls[s]
  OBVIOUS
<1>2. /\ calls[s] # NoCall /\ c \in Calls /\ GoodCall(c) /\ CallSold(c)
      /\ c.stage = "begin" /\ c.kind \in Keyed
  BY <1>1, CallRow DEF Reserve, AtStage, GoodCall
<1>3. PICK op : op = CurrentOp(c)
  OBVIOUS
<1>4. /\ op \in WireOps /\ op.id \in OpIds
      /\ (op.type = "checkout" <=> c.kind # "sync")
  BY <1>2, <1>3, CurrentOpKnown
<1>5. keys \in [OpIds -> KeyRows \cup {Unknown}]
  BY DEF ServerInv, TypeOKServer
<1>6. UNCHANGED <<order, sales, refusals, crashes>>
  BY DEF Reserve
<1>7. CASE keys[op.id] = Unknown
  <2>1. PICK d : d = [c EXCEPT !.stage = "work"]
    OBVIOUS
  <2>2. /\ keys' = [keys EXCEPT ![op.id] = [state |-> "running", op |-> op]]
        /\ calls' = [calls EXCEPT ![s] = d]
    BY <1>1, <1>3, <1>7, <2>1 DEF Reserve
  <2>3. /\ d \in Calls /\ d.caller = c.caller /\ d.kind = c.kind /\ d.ops = c.ops
        /\ d.stage = "work" /\ d.answers = c.answers
    BY <1>2, <2>1 DEF Calls
  <2>4. GoodCall(d)
    BY <1>2, <2>3 DEF GoodCall
  <2>5. keys' \in [OpIds -> KeyRows \cup {Unknown}] /\ \A k \in OpIds : GoodKey(keys'[k])
    <3>1. PICK row : row = [state |-> "running", op |-> op]
      OBVIOUS
    <3>2. row \in KeyRows /\ GoodKey(row)
      BY <1>4, <3>1 DEF KeyRows, GoodKey
    <3>3. keys' = [keys EXCEPT ![op.id] = row]
      BY <2>2, <3>1
    <3> QED BY <1>4, <1>5, <3>2, <3>3 DEF ServerInv
  <2>6. calls' \in [Slots -> Calls \cup {NoCall}] /\ GoodCalls'
    BY <1>2, <1>6, <2>2, <2>3, <2>4, OneCallMoves DEF Sold, Keyed
  <2>7. SameCalls
    BY <1>1, <1>2, <2>2, <2>3, OneCallSame
  <2> QED BY <1>6, <2>5, <2>6, <2>7
      DEF ServerInv, TypeOKServer, GoodCalls, GoodKey, Sold, Payable
<1>8. CASE keys[op.id] # Unknown
  <2>1. PICK a : a = IF keys[op.id].state = "done" /\ keys[op.id].op = op
                     THEN keys[op.id].answer ELSE Error("IDEMPOTENCY_CONFLICT")
    OBVIOUS
  <2>2. PICK d : d = Answered(c, a)
    OBVIOUS
  <2>3. calls' = [calls EXCEPT ![s] = d] /\ keys' = keys
    BY <1>1, <1>3, <1>8, <2>1, <2>2 DEF Reserve
  <2>4. a \in Answers /\ (c.kind = "submit" => Payable(a))
    <3>1. CASE keys[op.id].state = "done" /\ keys[op.id].op = op
      <4>1. keys[op.id] \in KeyRows /\ GoodKey(keys[op.id])
        BY <1>4, <1>5, <1>8 DEF ServerInv
      <4>2. keys[op.id].answer \in Answers
        BY <3>1, <4>1 DEF KeyRows
      <4>3. c.kind = "submit" => Payable(keys[op.id].answer)
        BY <1>4, <1>8, <3>1, <4>1 DEF GoodKey
      <4> QED BY <2>1, <3>1, <4>2, <4>3
    <3>2. CASE ~(keys[op.id].state = "done" /\ keys[op.id].op = op)
      BY <2>1, <3>2, AnswerTypes DEF Codes, Payable
    <3> QED BY <3>1, <3>2
  <2>5. /\ d \in Calls /\ GoodCall(d) /\ d.kind = c.kind /\ d.ops = c.ops
        /\ d.caller = c.caller
    BY <1>2, <2>2, <2>4, AnsweredGood
  <2>6. calls' \in [Slots -> Calls \cup {NoCall}] /\ GoodCalls'
    BY <1>2, <1>6, <2>3, <2>5, OneCallMoves DEF Sold, Keyed
  <2>7. SameCalls
    BY <1>1, <1>2, <2>3, <2>5, OneCallSame
  <2> QED BY <1>6, <2>3, <2>6, <2>7
      DEF ServerInv, TypeOKServer, GoodCalls, GoodKey, Sold, Payable
<1> QED BY <1>7, <1>8

LEMMA StoreKeeps ==
  ASSUME ServerInv, NEW s \in Slots, Store(s)
  PROVE  ServerInv' /\ SameCalls
<1>1. PICK c : c = calls[s]
  OBVIOUS
<1>2. /\ calls[s] # NoCall /\ c \in Calls /\ GoodCall(c)
      /\ c.stage = "store" /\ c.kind \in Keyed /\ c.pending \in Answers
      /\ c.kind = "submit" => Payable(c.pending)
  BY <1>1, CallRow DEF Store, AtStage, GoodCall, Calls
<1>3. PICK op : op = CurrentOp(c)
  OBVIOUS
<1>4. /\ op \in WireOps /\ op.id \in OpIds
      /\ (op.type = "checkout" <=> c.kind # "sync")
  BY <1>2, <1>3, CurrentOpKnown
<1>5. PICK d : d = Answered(c, c.pending)
  OBVIOUS
<1>6. PICK row : row = [state |-> "done", op |-> op, answer |-> c.pending]
  OBVIOUS
<1>7. /\ keys' = [keys EXCEPT ![op.id] = row] /\ calls' = [calls EXCEPT ![s] = d]
      /\ UNCHANGED <<order, sales, refusals, crashes>>
  BY <1>1, <1>3, <1>5, <1>6 DEF Store
<1>8. /\ d \in Calls /\ GoodCall(d) /\ d.kind = c.kind /\ d.ops = c.ops
      /\ d.caller = c.caller
  BY <1>2, <1>5, AnsweredGood
<1>9. keys' \in [OpIds -> KeyRows \cup {Unknown}] /\ \A k \in OpIds : GoodKey(keys'[k])
  <2>1. row \in KeyRows
    BY <1>2, <1>4, <1>6 DEF KeyRows
  <2>2. GoodKey(row)
    BY <1>2, <1>4, <1>6 DEF GoodKey, Keyed
  <2> QED BY <1>4, <1>7, <2>1, <2>2 DEF ServerInv, TypeOKServer
<1>10. calls' \in [Slots -> Calls \cup {NoCall}] /\ GoodCalls'
  BY <1>2, <1>7, <1>8, OneCallMoves DEF Sold, Keyed
<1>11. SameCalls
  BY <1>1, <1>2, <1>7, <1>8, OneCallSame
<1> QED BY <1>7, <1>9, <1>10, <1>11
    DEF ServerInv, TypeOKServer, GoodCalls, GoodKey, Sold, Payable

LEMMA HandleKeeps ==
  ASSUME ServerInv, NEW s \in Slots, Handle(s)
  PROVE  ServerInv' /\ SameCalls
<1>1. PICK c : c = calls[s]
  OBVIOUS
<1>2. /\ calls[s] # NoCall /\ c \in Calls /\ GoodCall(c) /\ CallSold(c)
      /\ c.stage = "work" /\ c.kind # "sale"
  BY <1>1, CallRow DEF Handle, AtStage
<1>3. PICK op : op = CurrentOp(c)
  OBVIOUS
<1>4. op \in WireOps /\ op.id \in OpIds
  BY <1>2, <1>3, CurrentOpKnown
<1>5. PICK outcome : outcome = Handler(c.kind, op)
  OBVIOUS
<1>6. GoodOutcome(c, outcome)
  BY <1>2, <1>3, <1>5, HandlerGood
<1>7. PICK a : a = outcome.answer
  OBVIOUS
<1>8. a \in Answers /\ (c.kind = "submit" => Payable(a))
  BY <1>6, <1>7 DEF GoodOutcome
<1>9. /\ order' = outcome.row /\ UNCHANGED <<sales, refusals, crashes>>
  BY <1>1, <1>3, <1>5 DEF Handle
<1>10. /\ order' \in OrderRows
       /\ order'.status # "none" => order'.cart \in Carts
       /\ order'.status = "completed" => Sold'
  BY <1>2, <1>6, <1>9 DEF GoodOutcome, CallSold, ServerInv, Sold
<1>11. ASSUME NEW d \in Calls, GoodCall(d), d.kind = c.kind, d.ops = c.ops,
              d.caller = c.caller, calls' = [calls EXCEPT ![s] = d],
              keys' \in [OpIds -> KeyRows \cup {Unknown}],
              \A k \in OpIds : GoodKey(keys'[k])
       PROVE  ServerInv' /\ SameCalls
  <2>1. calls' \in [Slots -> Calls \cup {NoCall}] /\ GoodCalls'
    BY <1>2, <1>9, <1>11, OneCallMoves DEF Sold, CallSold
  <2>2. SameCalls
    BY <1>1, <1>2, <1>11, OneCallSame
  <2> QED BY <1>9, <1>10, <1>11, <2>1, <2>2
      DEF ServerInv, TypeOKServer, OrderRows, GoodCalls, GoodKey, Sold, Payable
<1>12. CASE c.kind \in Keyed /\ a.code = "ok"
  <2>1. PICK d : d = [c EXCEPT !.stage = "store", !.pending = a]
    OBVIOUS
  <2>2. calls' = [calls EXCEPT ![s] = d] /\ keys' = keys
    <3>1. calls' = [calls EXCEPT ![s].stage = "store", ![s].pending = a]
      BY <1>1, <1>3, <1>5, <1>7, <1>12 DEF Handle
    <3>2. keys' = keys
      BY <1>1, <1>3, <1>5, <1>7, <1>12 DEF Handle
    <3> QED BY <1>1, <2>1, <3>1, <3>2 DEF ServerInv, TypeOKServer
  <2>3. /\ d \in Calls /\ d.caller = c.caller /\ d.kind = c.kind /\ d.ops = c.ops
        /\ d.stage = "store" /\ d.answers = c.answers /\ d.pending = a
    BY <1>2, <1>8, <2>1 DEF Calls
  <2>4. GoodCall(d)
    BY <1>2, <1>8, <1>12, <2>3 DEF GoodCall
  <2> QED BY <1>11, <2>2, <2>3, <2>4 DEF ServerInv, TypeOKServer
<1>13. CASE ~(c.kind \in Keyed /\ a.code = "ok")
  <2>1. PICK d : d = Answered(c, a)
    OBVIOUS
  <2>2. /\ calls' = [calls EXCEPT ![s] = d]
        /\ keys' = IF c.kind \in Keyed THEN Aborted(op) ELSE keys
    BY <1>1, <1>3, <1>5, <1>7, <1>13, <2>1 DEF Handle
  <2>3. /\ d \in Calls /\ GoodCall(d) /\ d.kind = c.kind /\ d.ops = c.ops
        /\ d.caller = c.caller
    BY <1>2, <1>8, <2>1, AnsweredGood
  <2>4. keys' \in [OpIds -> KeyRows \cup {Unknown}] /\ \A k \in OpIds : GoodKey(keys'[k])
    BY <1>4, <2>2 DEF ServerInv, TypeOKServer, Aborted, GoodKey
  <2> QED BY <1>11, <2>2, <2>3, <2>4
<1> QED BY <1>12, <1>13

LEMMA SellKeeps ==
  ASSUME ServerInv, NEW s \in Slots, Sell(s)
  PROVE  ServerInv' /\ SameCalls
<1>1. PICK c : c = calls[s]
  OBVIOUS
<1>2. /\ calls[s] # NoCall /\ c \in Calls /\ GoodCall(c) /\ CallSold(c)
      /\ c.stage = "work" /\ c.kind = "sale"
  BY <1>1, CallRow DEF Sell, AtStage
<1>3. UNCHANGED <<order, keys, crashes>>
  BY DEF Sell
<1>4. CurrentOp(c).cart \in Carts
  BY <1>2, CurrentOpKnown DEF WithCart
<1>5. PICK a : /\ a \in {Ok(0), Refused} /\ calls' = [calls EXCEPT ![s] = Answered(c, a)]
               /\ sales' = sales \/ (sales' = Append(sales, CurrentOp(c).cart) /\ sales = <<>>)
               /\ a = Ok(0) => sales' # <<>>
               /\ refusals' = refusals \/ (refusals' = refusals + 1 /\ refusals < MaxRefusals)
  <2>1. Append(sales, CurrentOp(c).cart) # <<>>
    <3>1. sales \in Seq(Carts)
      BY DEF ServerInv, TypeOKServer
    <3> QED BY <1>4, <3>1, AppendProperties
  <2>2. CASE /\ sales' = IF AlreadySold THEN sales ELSE Append(sales, CurrentOp(c).cart)
             /\ calls' = [calls EXCEPT ![s] = Answered(c, Ok(0))]
             /\ refusals' = refusals
    BY <2>1, <2>2 DEF AlreadySold
  <2>3. CASE /\ refusals < MaxRefusals /\ refusals' = refusals + 1
             /\ calls' = [calls EXCEPT ![s] = Answered(c, Refused)]
             /\ sales' = sales
    <3>1. Refused # Ok(0)
      BY AnswerTypes
    <3> QED BY <2>3, <3>1
  <2> QED BY <1>1, <2>2, <2>3 DEF Sell
<1>6. PICK d : d = Answered(c, a)
  OBVIOUS
<1>7. a \in Answers /\ (a.code = "ok" => a = Ok(0))
  BY <1>5, AnswerTypes
<1>8. /\ d \in Calls /\ GoodCall(d) /\ d.kind = c.kind /\ d.ops = c.ops
      /\ d.caller = c.caller /\ d.answers[1] = a
  BY <1>2, <1>6, <1>7, AnsweredGood
<1>9. Sold => Sold'
  BY <1>5 DEF Sold
<1>10. calls' \in [Slots -> Calls \cup {NoCall}] /\ GoodCalls'
  BY <1>2, <1>5, <1>6, <1>7, <1>8, <1>9, OneCallMoves DEF Sold
<1>11. SameCalls
  BY <1>1, <1>2, <1>5, <1>6, <1>8, OneCallSame
<1>12. sales' \in Seq(Carts) /\ Len(sales') <= 1
  <2>1. sales \in Seq(Carts) /\ Len(sales) <= 1
    BY DEF ServerInv, TypeOKServer
  <2>2. CASE sales' = sales
    BY <2>1, <2>2
  <2>3. CASE sales' = Append(sales, CurrentOp(c).cart) /\ sales = <<>>
    <3>1. sales' \in Seq(Carts) /\ Len(sales') = Len(sales) + 1
      BY <1>4, <2>1, <2>3, AppendProperties
    <3>2. Len(sales) = 0
      BY <2>3
    <3> QED BY <3>1, <3>2
  <2> QED BY <1>5, <2>2, <2>3
<1>13. refusals' \in 0..MaxRefusals
  BY <1>5, ServerAssumption DEF ServerInv, TypeOKServer
<1> QED BY <1>3, <1>9, <1>10, <1>11, <1>12, <1>13
    DEF ServerInv, TypeOKServer, GoodCalls, GoodKey, Payable

\* A call that is over leaves its slot.
LEMMA FreedKeeps ==
  ASSUME ServerInv, NEW s \in Slots, calls' = Freed(s),
         UNCHANGED <<order, sales, keys, refusals, crashes>>
  PROVE  ServerInv' /\ SameCalls /\ calls'[s] = NoCall
<1>1. calls \in [Slots -> Calls \cup {NoCall}]
  BY DEF ServerInv, TypeOKServer
<1>2. /\ calls' \in [Slots -> Calls \cup {NoCall}] /\ calls'[s] = NoCall
      /\ \A x \in Slots : x # s => calls'[x] = calls[x]
  BY <1>1 DEF Freed
<1>3. SameCalls
  BY <1>2 DEF SameCalls
<1> QED BY <1>2, <1>3 DEF ServerInv, TypeOKServer, CallSold, Sold, GoodKey, Payable

LEMMA ServerKeeps ==
  ASSUME ServerInv, NEW s \in Slots, ServerStep(s) \/ Forget(s)
  PROVE  ServerInv' /\ SameCalls /\ (Sold => Sold')
<1>1. CASE Forget(s)
  BY <1>1, FreedKeeps DEF Forget, Sold
<1>2. CASE ServerStep(s)
  <2>1. Sold => Sold'
    <3>1. CASE Sell(s)
      BY <3>1 DEF Sell, Sold, AlreadySold
    <3>2. CASE ~Sell(s)
      BY <1>2, <3>2 DEF ServerStep, Reserve, Handle, Store, Sold
    <3> QED BY <3>1, <3>2
  <2> QED BY <1>2, <2>1, ReserveKeeps, HandleKeeps, StoreKeeps, SellKeeps DEF ServerStep
<1> QED BY <1>1, <1>2

-----------------------------------------------------------------------------
(* The queue.                                                               *)

\* What the queue is at all times: ops of earlier ids, in an order of their
\* own, the order's checkout after its last upsert.
GoodQueue(q, next) ==
  /\ next \in Nat /\ q \subseteq Ops /\ IsFiniteSet(q)
  /\ \A o \in q : o.id < next /\ WithCart(o)
  /\ \A o, p \in q : o.id = p.id => o = p
  /\ \A o, p \in q :
       o.id < p.id /\ o.type = "checkout" => p.type \notin {"upsert", "checkout"}

LEMMA QueueShrinks ==
  ASSUME NEW q, NEW next, GoodQueue(q, next), NEW r \in SUBSET q
  PROVE  GoodQueue(r, next)
BY FS_Subset DEF GoodQueue

LEMMA QueueGrows ==
  ASSUME NEW q, NEW next, GoodQueue(q, next),
         NEW type \in SyncTypes \cup {"checkout"}, NEW cart \in Carts \cup {NoCart},
         next \in OpIds, type \in {"upsert", "checkout"} => cart \in Carts,
         type \in {"upsert", "checkout"} => \A o \in q : o.type # "checkout"
  PROVE  GoodQueue(q \cup {Op(next, type, cart)}, next + 1)
<1>1. PICK o : o = Op(next, type, cart)
  OBVIOUS
<1>2. /\ o \in Ops /\ o.id = next /\ o.type = type /\ WithCart(o)
  BY <1>1 DEF Op, Ops, WithCart
<1>3. IsFiniteSet(q \cup {o})
  BY FS_AddElement DEF GoodQueue
<1>4. \A p \in q : p.id \in Nat /\ next \in Nat /\ p.id < next
  BY ServerAssumption DEF GoodQueue, Ops
<1>5. GoodQueue(q \cup {o}, next + 1)
  BY <1>2, <1>3, <1>4 DEF GoodQueue
<1> QED BY <1>1, <1>5

\* The ops of a queue by seq are a sequence of them.
LEMMA BySeqOfQueue ==
  ASSUME NEW q, NEW next, GoodQueue(q, next)
  PROVE  /\ BySeq(q) \in Seq(q) /\ BySeq(q) \in Seq(Ops)
         /\ \A n \in 1..Len(BySeq(q)) : BySeq(q)[n] \in q
<1> DEFINE Before(o) == {p \in q : p.id < o.id}
           size  == Cardinality(q)
           rank  == [o \in q |-> Cardinality(Before(o))]
<1>1. IsFiniteSet(q) /\ q \subseteq Ops /\ \A o \in q : o.id \in Nat
  BY ServerAssumption DEF GoodQueue, Ops
<1>2. size \in Nat
  BY <1>1, FS_CardinalityType
<1>3. ASSUME NEW o \in q
      PROVE  IsFiniteSet(Before(o)) /\ rank[o] \in 0..(size - 1)
  <2>1. Before(o) \in SUBSET q
    OBVIOUS
  <2>2. IsFiniteSet(Before(o)) /\ Cardinality(Before(o)) <= size
    BY <1>1, <2>1, FS_Subset
  <2>3. Before(o) # q
    BY <1>1
  <2>4. Cardinality(Before(o)) # size
    BY <1>1, <2>1, <2>3, FS_Subset
  <2>5. Cardinality(Before(o)) \in Nat
    BY <2>2, FS_CardinalityType
  <2> QED BY <1>2, <2>2, <2>4, <2>5
<1>4. ASSUME NEW o \in q, NEW p \in q, o.id < p.id
      PROVE  rank[o] # rank[p]
  <2>1. Before(o) \in SUBSET Before(p) /\ Before(o) # Before(p)
    BY <1>1, <1>4
  <2>2. Cardinality(Before(o)) # Cardinality(Before(p))
    BY <1>3, <2>1, FS_Subset
  <2> QED BY <2>2
<1>5. rank \in Injection(q, 0..(size - 1))
  <2>1. \A o, p \in q : o # p => rank[o] # rank[p]
    BY <1>1, <1>4 DEF GoodQueue
  <2>2. rank \in [q -> 0..(size - 1)]
    BY <1>3
  <2> HIDE DEF rank
  <2> QED BY <2>1, <2>2 DEF Injection, IsInjective
<1>6. IsFiniteSet(0..(size - 1)) /\ Cardinality(0..(size - 1)) = size
  BY <1>2, FS_Interval
<1>7. rank \in Surjection(q, 0..(size - 1))
  <2> HIDE DEF rank
  <2> QED BY <1>1, <1>5, <1>6, FS_Injection
<1>8. ASSUME NEW n \in 1..size
      PROVE  \E o \in q : Cardinality(Before(o)) = n - 1
  <2>1. n - 1 \in 0..(size - 1)
    BY <1>2
  <2>2. PICK o \in q : rank[o] = n - 1
    BY <1>7, <2>1 DEF Surjection
  <2> QED BY <2>2
<1>9. BySeq(q) = [n \in 1..size |-> CHOOSE o \in q : Cardinality(Before(o)) = n - 1]
  BY DEF BySeq
<1>10. BySeq(q) \in [1..size -> q]
  BY <1>8, <1>9
<1>11. BySeq(q) \in Seq(q) /\ Len(BySeq(q)) = size
  BY <1>2, <1>10, SeqDef
<1>12. BySeq(q) \in Seq(Ops)
  BY <1>1, <1>11
<1> QED BY <1>10, <1>11, <1>12

-----------------------------------------------------------------------------
(* Calls of the tabs.                                                       *)

CartOps(ops) == ops \in Seq(Ops) /\ \A n \in 1..Len(ops) : WithCart(ops[n])

\* A batch is a first part of the ops, without a checkout, and not nothing
\* when the first op is none.
LEMMA NextBatchOfOps ==
  ASSUME NEW ops, CartOps(ops), ops # <<>>, Head(ops).type # "checkout"
  PROVE  /\ NextBatch(ops) \in Seq(Ops) /\ CartOps(NextBatch(ops))
         /\ Len(NextBatch(ops)) \in 1..Len(ops)
         /\ \A n \in 1..Len(NextBatch(ops)) : NextBatch(ops)[n].type # "checkout"
<1> DEFINE checkouts == {n \in DOMAIN ops : ops[n].type = "checkout"}
           least == CHOOSE n \in checkouts : \A m \in checkouts : n <= m
           size  == IF checkouts = {} THEN Len(ops) ELSE least - 1
<1>1. ops \in Seq(Ops) /\ Len(ops) \in Nat /\ DOMAIN ops = 1..Len(ops)
  BY DEF CartOps
<1>2. Len(ops) >= 1 /\ ops[1].type # "checkout"
  BY <1>1, EmptySeq
<1>3. ASSUME checkouts # {}
      PROVE  least \in checkouts /\ \A m \in checkouts : least <= m
  <2>1. checkouts \subseteq Nat
    BY <1>1
  <2>2. PICK below : below = {ss \in Nat \X Nat : ss[1] < ss[2]}
    OBVIOUS
  <2>3. IsWellFoundedOn(below, Nat)
    BY <2>2, NatLessThanWellFounded DEF OpToRel
  <2>4. PICK n \in checkouts : \A m \in checkouts : <<m, n>> \notin below
    <3> HIDE DEF checkouts
    <3> QED BY <1>3, <2>1, <2>3, WFMin
  <2>5. \A m \in checkouts : n <= m
    <3> HIDE DEF checkouts
    <3>1. ASSUME NEW m \in checkouts PROVE n <= m
      <4>1. m \in Nat /\ n \in Nat
        BY <2>1
      <4>2. ~ m < n
        <5>1. <<m, n>> \notin {ss \in Nat \X Nat : ss[1] < ss[2]}
          BY <2>2, <2>4
        <5> QED BY <4>1, <5>1
      <4> QED BY <4>1, <4>2
    <3> QED BY <3>1
  <2> HIDE DEF checkouts
  <2> QED BY <2>5
<1>4. size \in 1..Len(ops) /\ \A n \in 1..size : ops[n].type # "checkout"
  <2>1. CASE checkouts = {}
    BY <1>1, <1>2, <2>1
  <2>2. CASE checkouts # {}
    <3>1. least \in 2..Len(ops)
      BY <1>1, <1>2, <1>3, <2>2
    <3>2. ASSUME NEW n \in 1..(least - 1) PROVE ops[n].type # "checkout"
      BY <1>1, <1>3, <2>2, <3>1
    <3> HIDE DEF least
    <3> QED BY <2>2, <3>1, <3>2
  <2> QED BY <2>1, <2>2
<1>5. NextBatch(ops) = SubSeq(ops, 1, size)
  BY DEF NextBatch
<1> HIDE DEF size
<1>6. /\ SubSeq(ops, 1, size) \in Seq(Ops) /\ Len(SubSeq(ops, 1, size)) = size
      /\ \A n \in 1..size : SubSeq(ops, 1, size)[n] = ops[n]
  BY <1>1, <1>4
<1> QED BY <1>1, <1>4, <1>5, <1>6 DEF CartOps

\* What is left of the ops behind a batch, or behind one op.
LEMMA RestOfOps ==
  ASSUME NEW ops, CartOps(ops), NEW n \in 0..Len(ops)
  PROVE  CartOps(SubSeq(ops, n + 1, Len(ops)))
<1>1. ops \in Seq(Ops) /\ Len(ops) \in Nat
  BY DEF CartOps
<1>2. PICK m \in Nat : m = Len(ops) - n
  BY <1>1
<1>3. /\ SubSeq(ops, n + 1, Len(ops)) \in Seq(Ops)
      /\ Len(SubSeq(ops, n + 1, Len(ops))) = m
      /\ \A k \in 1..m : SubSeq(ops, n + 1, Len(ops))[k] = ops[k + n]
  BY <1>1, <1>2
<1> QED BY <1>1, <1>2, <1>3 DEF CartOps

LEMMA TailOfOps ==
  ASSUME NEW ops, CartOps(ops), ops # <<>>
  PROVE  /\ CartOps(Tail(ops)) /\ Len(ops) >= 1
         /\ Head(ops) \in Ops /\ WithCart(Head(ops))
<1>1. ops \in Seq(Ops) /\ Len(ops) \in Nat /\ Len(ops) >= 1
  BY EmptySeq DEF CartOps
<1>2. /\ Tail(ops) \in Seq(Ops) /\ Len(Tail(ops)) = Len(ops) - 1
      /\ \A k \in 1..(Len(ops) - 1) : Tail(ops)[k] = ops[k + 1]
      /\ Head(ops) = ops[1] /\ Head(ops) \in Ops
  BY <1>1
<1> QED BY <1>1, <1>2 DEF CartOps

\* The expectedVersion of each op of a batch is a number.
LEMMA CursorIsNumber ==
  ASSUME NEW batch, NEW start \in Nat, NEW n \in Nat
  PROVE  VersionCursor(batch, start, n) \in Nat
<1> DEFINE moved == {k \in 1..n : start # 0 \/ \E j \in 1..k : batch[j].type = "upsert"}
<1>1. moved \in SUBSET (1..n)
  OBVIOUS
<1>2. IsFiniteSet(1..n)
  BY FS_Interval
<1>3. Cardinality(moved) \in Nat
  BY <1>1, <1>2, FS_Subset, FS_CardinalityType
<1> QED BY <1>3 DEF VersionCursor

\* A new call of a tab that has yet to be answered.
LEMMA NewCallGood ==
  ASSUME NEW t \in Tabs, NEW kind \in Kinds, NEW ops \in Seq(WireOps), ops # <<>>,
         kind # "sync" => Len(ops) = 1,
         \A n \in 1..Len(ops) :
           /\ ops[n].type = "checkout" <=> kind # "sync"
           /\ kind \in {"sync", "submit", "sale"} => WithCart(ops[n])
  PROVE  /\ NewCall(t, kind, ops) \in Calls /\ GoodCall(NewCall(t, kind, ops))
         /\ NewCall(t, kind, ops) # NoCall /\ NewCall(t, kind, ops).stage # "done"
         /\ NewCall(t, kind, ops).caller = t /\ NewCall(t, kind, ops).kind = kind
         /\ NewCall(t, kind, ops).ops = ops
<1>1. PICK stage : stage = IF kind \in Keyed THEN "begin" ELSE "work"
  OBVIOUS
<1>2. PICK c : c = [caller |-> t, kind |-> kind, ops |-> ops, answers |-> <<>>,
                    stage |-> stage, pending |-> Refused]
  OBVIOUS
<1>3. c = NewCall(t, kind, ops)
  BY <1>1, <1>2 DEF NewCall
<1>4. c \in Calls
  BY <1>1, <1>2, AnswerTypes DEF Calls
<1>5. /\ c.caller = t /\ c.kind = kind /\ c.ops = ops /\ c.answers = <<>>
      /\ c.stage = stage
  BY <1>2
<1>6. c # NoCall
  BY <1>2 DEF NoCall
<1>7. Len(ops) \in Nat /\ Len(ops) # 0 /\ Len(c.answers) = 0
  BY <1>5, EmptySeq
<1>8. GoodCall(c)
  BY <1>1, <1>5, <1>7 DEF GoodCall
<1> QED BY <1>1, <1>3, <1>4, <1>5, <1>6, <1>8

-----------------------------------------------------------------------------
(* What the engine keeps true.                                              *)

\* A drain has its op at hand wherever it deals with one, an answer for each
\* op of a batch, and holds no doc of a sale that was never made.
GoodDrain(d) ==
  /\ CartOps(d.ops)
  /\ d.at = "ack" => d.batch # <<>>
  /\ d.at \in {"ack", "put"} => Len(d.answers) = Len(d.batch)
  /\ d.at \in {"fail", "reopen"} => d.ops # <<>>
  /\ d.copy # NoDoc /\ d.copy.status = "completed" => Sold

DrainInv ==
  /\ drain \in [Tabs -> Drains \cup {Idle}]
  /\ \A t \in Tabs : drain[t] # Idle => GoodDrain(drain[t])

\* A drain waits for its one call, with the ops the call is about.
WaitsFor(d, c) ==
  /\ d # Idle /\ d.at = "wait"
  /\ c.kind = "sync" => Len(c.ops) = Len(d.batch)
  /\ c.kind # "sync" => d.ops # <<>>

Waiting ==
  \A s \in Slots :
    calls[s] # NoCall /\ calls[s].caller # Nobody =>
      /\ WaitsFor(drain[calls[s].caller], calls[s])
      /\ \A x \in Slots :
           calls[x] # NoCall /\ calls[x].caller = calls[s].caller => x = s

TillTypes ==
  /\ screen \in Snapshots \cup {NoScreen}
  /\ doc \in Docs \cup {NoDoc}
  /\ save \in Snapshots \cup {NoSave} /\ (Saving => save.cart \in Carts)
  /\ timer \in BOOLEAN /\ fired \in Carts \cup {NoCart}
  /\ ui \in {"idle", "paying", "flushing", "answer"}
  /\ told \in {"nothing", "queued", "completed", "failed"}
  /\ paidFor \in Carts \cup {NoCart} /\ amiss \in BOOLEAN
  /\ report \in [Tabs -> {"none", "ok", "failed"}]
  /\ losses \in 0..MaxLosses /\ reloads \in 0..MaxReloads

\* What the till knows to be completed was sold.
SaleKnown ==
  (doc # NoDoc /\ doc.status = "completed") \/ told = "completed" => Sold

TillInv ==
  /\ ServerInv /\ TillTypes /\ GoodQueue(queue, nextId)
  /\ DrainInv /\ Waiting /\ SaleKnown

LEMMA DrainMoves ==
  ASSUME DrainInv, Sold => Sold', NEW t \in Tabs, NEW d \in Drains \cup {Idle},
         d # Idle => GoodDrain(d), drain' = [drain EXCEPT ![t] = d]
  PROVE  DrainInv' /\ \A x \in Tabs : x # t => drain'[x] = drain[x]
<1>1. /\ drain' \in [Tabs -> Drains \cup {Idle}] /\ drain'[t] = d
      /\ \A x \in Tabs : x # t => drain'[x] = drain[x]
  BY DEF DrainInv
<1>2. ASSUME NEW x \in Tabs, drain'[x] # Idle PROVE GoodDrain(drain[x])'
  <2>1. CASE x = t
    BY <1>1, <1>2, <2>1 DEF GoodDrain
  <2>2. CASE x # t
    BY <1>1, <1>2, <2>2 DEF GoodDrain, DrainInv
  <2> QED BY <2>1, <2>2
<1> QED BY <1>1, <1>2 DEF DrainInv

LEMMA DrainsStay ==
  ASSUME DrainInv, Sold => Sold', UNCHANGED drain
  PROVE  DrainInv'
BY DEF DrainInv, GoodDrain

\* A tab that does not wait has no call.
LEMMA NoCallOf ==
  ASSUME Waiting, NEW t \in Tabs, drain[t] = Idle \/ drain[t].at # "wait",
         NEW s \in Slots, calls[s] # NoCall
  PROVE  calls[s].caller # t
BY ServerAssumption DEF Waiting, WaitsFor

\* Calls that go on or end, and a tab that waits for none of them.
LEMMA WaitingKeeps ==
  ASSUME Waiting, SameCalls, ServerInv', NEW t,
         \A x \in Tabs : x # t => drain'[x] = drain[x],
         \A s \in Slots : calls'[s] # NoCall => calls'[s].caller # t
  PROVE  Waiting'
<1>1. ASSUME NEW s \in Slots, calls'[s] # NoCall, calls'[s].caller # Nobody
      PROVE  /\ WaitsFor(drain'[calls'[s].caller], calls'[s])
             /\ \A x \in Slots :
                  calls'[x] # NoCall /\ calls'[x].caller = calls'[s].caller => x = s
  <2>1. /\ calls[s] # NoCall /\ calls'[s].caller = calls[s].caller
        /\ calls'[s].kind = calls[s].kind /\ calls'[s].ops = calls[s].ops
    BY <1>1 DEF SameCalls
  <2>2. calls'[s].caller \in Tabs /\ calls'[s].caller # t
    BY <1>1 DEF ServerInv, TypeOKServer, Calls
  <2>3. drain'[calls'[s].caller] = drain[calls[s].caller]
    BY <2>1, <2>2
  <2>4. WaitsFor(drain'[calls'[s].caller], calls'[s])
    BY <1>1, <2>1, <2>3 DEF Waiting, WaitsFor
  <2>5. ASSUME NEW x \in Slots, calls'[x] # NoCall, calls'[x].caller = calls'[s].caller
        PROVE  x = s
    BY <1>1, <2>1, <2>5 DEF Waiting, SameCalls
  <2> QED BY <2>4, <2>5
<1> QED BY <1>1 DEF Waiting, WaitsFor

LEMMA WaitingStays ==
  ASSUME Waiting, SameCalls, ServerInv', UNCHANGED drain
  PROVE  Waiting'
<1>1. \A s \in Slots : calls'[s] # NoCall => calls'[s].caller \in Tabs \cup {Nobody}
  BY DEF ServerInv, TypeOKServer, Calls
<1>2. PICK t : \A s \in Slots : calls'[s] # NoCall => calls'[s].caller # t
  <2>1. PICK t : t = {x \in Tabs \cup {Nobody} : x \notin x}
    OBVIOUS
  <2>2. t \notin Tabs \cup {Nobody}
    BY <2>1
  <2> QED BY <1>1, <2>2
<1> QED BY <1>2, WaitingKeeps

\* The only call of a tab, in a slot that was free or its own.
LEMMA WaitingStarts ==
  ASSUME Waiting, ServerInv, NEW t \in Tabs, NEW s \in Slots, NEW c,
         calls' = [calls EXCEPT ![s] = c], c.caller = t, WaitsFor(drain'[t], c),
         \A x \in Slots : x # s /\ calls[x] # NoCall => calls[x].caller # t,
         \A x \in Tabs : x # t => drain'[x] = drain[x]
  PROVE  Waiting'
<1>1. calls'[s] = c /\ \A x \in Slots : x # s => calls'[x] = calls[x]
  BY DEF ServerInv, TypeOKServer
<1>2. ASSUME NEW z \in Slots, calls'[z] # NoCall, calls'[z].caller # Nobody
      PROVE  /\ WaitsFor(drain'[calls'[z].caller], calls'[z])
             /\ \A x \in Slots :
                  calls'[x] # NoCall /\ calls'[x].caller = calls'[z].caller => x = z
  <2>1. CASE z = s
    BY <1>1, <2>1
  <2>2. CASE z # s
    <3>1. calls[z] # NoCall /\ calls'[z] = calls[z] /\ calls[z].caller # t
      BY <1>1, <1>2, <2>2
    <3>2. calls[z].caller \in Tabs
      BY <1>2, <3>1 DEF ServerInv, TypeOKServer, Calls
    <3>3. WaitsFor(drain'[calls'[z].caller], calls'[z])
      BY <1>2, <3>1, <3>2 DEF Waiting
    <3> QED BY <1>1, <1>2, <2>2, <3>1, <3>3 DEF Waiting
  <2> QED BY <2>1, <2>2
<1> QED BY <1>2 DEF Waiting, WaitsFor

\* A call that starts.
LEMMA CallStarts ==
  ASSUME ServerInv, NEW s \in Slots, NEW c \in Calls, GoodCall(c),
         c.stage # "done", c.kind = "complete" => Sold,
         calls' = [calls EXCEPT ![s] = c],
         UNCHANGED <<order, sales, keys, refusals, crashes>>
  PROVE  ServerInv'
<1>1. calls' \in [Slots -> Calls \cup {NoCall}] /\ GoodCalls'
  BY OneCallMoves DEF Sold
<1> QED BY <1>1 DEF ServerInv, TypeOKServer, GoodCalls, Sold, GoodKey, Payable

-----------------------------------------------------------------------------
(* Steps of the cashier and of the engine: the server and the drains wait.  *)

LEMMA LocalStep ==
  ASSUME TillInv, UNCHANGED <<serverVars, drain>>,
         TillTypes', GoodQueue(queue', nextId'), SaleKnown'
  PROVE  TillInv'
<1>1. UNCHANGED <<order, sales, keys, calls, refusals, crashes, drain>>
  BY DEF serverVars
<1>2. ServerInv' /\ SameCalls
  <2>1. TypeOKServer'
    BY <1>1 DEF TillInv, ServerInv, TypeOKServer
  <2>2. ServerInv'
    BY <1>1, <2>1 DEF TillInv, ServerInv, CallSold, Sold, GoodKey, Payable
  <2>3. SameCalls
    BY <1>1 DEF SameCalls
  <2> QED BY <2>2, <2>3
<1>3. DrainInv'
  BY <1>1, DrainsStay DEF TillInv, Sold
<1>4. Waiting'
  BY <1>1, <1>2, WaitingStays DEF TillInv
<1> QED BY <1>2, <1>3, <1>4 DEF TillInv, GoodQueue

\* The ids the queue hands out.
LEMMA FreshIds ==
  ASSUME GoodQueue(queue, nextId)
  PROVE  /\ nextId \in Nat
         /\ CanAppend(1) => nextId \in OpIds
         /\ CanAppend(2) => nextId \in OpIds /\ nextId + 1 \in OpIds
<1>1. nextId \in Nat
  BY DEF GoodQueue
<1> QED BY <1>1 DEF CanAppend

LEMMA SnapshotTypes ==
  ASSUME doc \in Docs \cup {NoDoc}
  PROVE  /\ \A x \in Snapshots : Merged(x) \in Snapshots /\ Merged(x).cart = x.cart
         /\ \A x \in Snapshots : x.cart \in Carts =>
              \A status \in OrderStatuses :
                 Stored(x, status) \in Docs /\ Stored(x, status).status = status
         /\ doc # NoDoc => doc \in Docs /\ doc.cart \in Carts /\ Loaded(doc) \in Snapshots
<1>1. ASSUME NEW x \in Snapshots
      PROVE  Merged(x) \in Snapshots /\ Merged(x).cart = x.cart
  <2>1. CASE doc # NoDoc /\ doc.version # 0
    BY <1>1, <2>1 DEF Merged, Snapshots, Docs
  <2>2. CASE ~(doc # NoDoc /\ doc.version # 0)
    BY <1>1, <2>2 DEF Merged
  <2> QED BY <2>1, <2>2
<1>2. ASSUME NEW x \in Snapshots, x.cart \in Carts, NEW status \in OrderStatuses
      PROVE  Stored(x, status) \in Docs /\ Stored(x, status).status = status
  BY <1>2 DEF Stored, Snapshots, Docs
<1>3. doc # NoDoc => doc \in Docs /\ doc.cart \in Carts /\ Loaded(doc) \in Snapshots
  BY DEF Loaded, Snapshots, Docs
<1> QED BY <1>1, <1>2, <1>3

\* What the cashier sees and pays for.
LEMMA OnScreen ==
  ASSUME TillTypes, HasLines
  PROVE  /\ screen \in Snapshots /\ screen.cart \in Carts
         /\ Merged(screen) \in Snapshots /\ Merged(screen).cart = screen.cart
<1>1. screen \in Snapshots /\ screen.cart \in Carts
  BY DEF TillTypes, HasLines, Snapshots
<1> QED BY <1>1, SnapshotTypes DEF TillTypes

LEMMA StatusTypes ==
  {"open", "held", "submitted", "completed", "voided"} \subseteq OrderStatuses
BY DEF OrderStatuses

LEMMA EditCartKeeps ==
  ASSUME TillInv, NEW cart \in Carts, EditCart(cart)
  PROVE  TillInv'
<1>1. TillTypes'
  <2>1. screen' \in Snapshots /\ screen'.cart = cart
    BY DEF TillInv, TillTypes, EditCart, Snapshots
  <2>2. /\ Merged(screen') \in Snapshots /\ Merged(screen').cart = cart
    BY <2>1, SnapshotTypes DEF TillInv, TillTypes
  <2>3. save' = NoSave \/ save' = Merged(screen')
    BY DEF EditCart
  <2> QED BY <2>1, <2>2, <2>3 DEF TillInv, TillTypes, EditCart, Saving
<1>2. SaleKnown'
  BY DEF TillInv, EditCart, SaleKnown, serverVars, Sold
<1>3. UNCHANGED <<serverVars, drain, queue, nextId>>
  BY DEF EditCart
<1> QED BY <1>1, <1>2, <1>3, LocalStep DEF TillInv

LEMMA SaveCartKeeps ==
  ASSUME TillInv, SaveCart
  PROVE  TillInv'
<1>1. doc' \in Docs /\ doc'.status = "open"
  BY SnapshotTypes, StatusTypes DEF TillInv, TillTypes, SaveCart, Saving
<1>2. TillTypes'
  BY <1>1 DEF TillInv, TillTypes, SaveCart, Saving
<1>3. SaleKnown'
  BY <1>1 DEF TillInv, SaveCart, SaleKnown, serverVars, Sold
<1>4. UNCHANGED <<serverVars, drain, queue, nextId>>
  BY DEF SaveCart
<1> QED BY <1>2, <1>3, <1>4, LocalStep DEF TillInv

LEMMA FireDebounceKeeps ==
  ASSUME TillInv, FireDebounce
  PROVE  TillInv'
<1>1. fired' \in Carts \cup {NoCart}
  BY SnapshotTypes DEF TillInv, TillTypes, FireDebounce
<1>2. TillTypes'
  BY <1>1 DEF TillInv, TillTypes, FireDebounce, Saving
<1>3. SaleKnown'
  BY DEF TillInv, FireDebounce, SaleKnown, serverVars, Sold
<1>4. UNCHANGED <<serverVars, drain, queue, nextId>>
  BY DEF FireDebounce
<1> QED BY <1>2, <1>3, <1>4, LocalStep DEF TillInv

LEMMA AppendUpsertKeeps ==
  ASSUME TillInv, AppendUpsert
  PROVE  TillInv'
<1>1. GoodQueue(queue, nextId) /\ fired \in Carts /\ nextId \in OpIds
  BY FreshIds DEF TillInv, TillTypes, AppendUpsert
<1>2. GoodQueue(queue', nextId')
  <2>1. CASE MayAppendUpsert
    <3>1. PICK q : q = WithoutTrailingUpsert(queue)
      OBVIOUS
    <3>2. q \in SUBSET queue
      BY <3>1 DEF WithoutTrailingUpsert
    <3>3. GoodQueue(q, nextId)
      BY <1>1, <3>2, QueueShrinks
    <3>4. \A o \in q : o.type # "checkout"
      BY <2>1, <3>2 DEF MayAppendUpsert, CheckoutQueued
    <3>5. GoodQueue(q \cup {Op(nextId, "upsert", fired)}, nextId + 1)
      BY <1>1, <3>3, <3>4, QueueGrows DEF SyncTypes
    <3>6. /\ queue' = q \cup {Op(nextId, "upsert", fired)}
          /\ nextId' = nextId + 1
      BY <2>1, <3>1 DEF AppendUpsert
    <3> QED BY <3>5, <3>6
  <2>2. CASE ~MayAppendUpsert
    <3>1. queue' = queue /\ nextId' = nextId
      BY <2>2 DEF AppendUpsert
    <3> QED BY <1>1, <3>1
  <2> QED BY <2>1, <2>2
<1>3. TillTypes'
  BY DEF TillInv, TillTypes, AppendUpsert, Saving
<1>4. SaleKnown'
  BY DEF TillInv, AppendUpsert, SaleKnown, serverVars, Sold
<1>5. UNCHANGED <<serverVars, drain>>
  BY DEF AppendUpsert
<1> QED BY <1>2, <1>3, <1>4, <1>5, LocalStep

LEMMA TellCashierKeeps ==
  ASSUME TillInv, TellCashier
  PROVE  TillInv'
<1>1. Outcome \in {"completed", "failed", "queued"}
  BY DEF Outcome
<1>2. screen' \in Snapshots \cup {NoScreen}
  BY SnapshotTypes DEF TillInv, TillTypes, TellCashier
<1>3. TillTypes'
  <2>1. told' \in {"nothing", "queued", "completed", "failed"} /\ ui' = "idle"
    BY <1>1 DEF TellCashier
  <2>2. UNCHANGED <<doc, save, timer, fired, paidFor, report, losses, reloads>>
        /\ amiss' \in BOOLEAN
    BY DEF TellCashier
  <2> QED BY <1>2, <2>1, <2>2 DEF TillInv, TillTypes, Saving
<1>4. SaleKnown'
  <2>1. told' = "completed" => doc # NoDoc /\ doc.status = "completed"
    BY DEF TellCashier, Outcome
  <2>2. UNCHANGED <<doc, sales>>
    BY DEF TellCashier, serverVars
  <2> QED BY <2>1, <2>2 DEF TillInv, SaleKnown, Sold
<1>5. UNCHANGED <<serverVars, drain, queue, nextId>>
  BY DEF TellCashier
<1> QED BY <1>3, <1>4, <1>5, LocalStep DEF TillInv

\* An order that is stored anew, with a status no sale is behind.
LEMMA DocChanges ==
  ASSUME TillInv, UNCHANGED <<serverVars, save, fired, amiss, report, losses, reloads>>,
         doc' \in Docs \cup {NoDoc}, doc' # NoDoc => doc'.status # "completed" \/ doc' = doc,
         screen' \in Snapshots \cup {NoScreen}, timer' \in BOOLEAN,
         ui' \in {"idle", "paying"} \/ ui' = ui,
         told' \in {"nothing", "queued"} \/ told' = told,
         paidFor' \in Carts \cup {NoCart}
  PROVE  TillTypes' /\ SaleKnown'
<1>1. TillTypes'
  BY DEF TillInv, TillTypes, Saving
<1>2. SaleKnown'
  BY DEF TillInv, SaleKnown, Sold, serverVars
<1> QED BY <1>1, <1>2

\* A final upsert and what follows it.
LEMMA TwoMoreOps ==
  ASSUME GoodQueue(queue, nextId), CanAppend(2), ~CheckoutQueued, NEW cart \in Carts,
         NEW type \in {"hold", "checkout"}, NEW last \in Carts \cup {NoCart},
         type = "checkout" => last \in Carts
  PROVE  GoodQueue(WithoutTrailingUpsert(queue)
             \cup {Op(nextId, "upsert", cart), Op(nextId + 1, type, last)}, nextId + 2)
<1>1. PICK q : q = WithoutTrailingUpsert(queue)
  OBVIOUS
<1>2. PICK r : r = q \cup {Op(nextId, "upsert", cart)}
  OBVIOUS
<1>3. nextId \in Nat /\ nextId \in OpIds /\ nextId + 1 \in OpIds
  BY FreshIds
<1>4. q \in SUBSET queue
  BY <1>1 DEF WithoutTrailingUpsert
<1>5. \A o \in q : o.type # "checkout"
  BY <1>4 DEF CheckoutQueued
<1>6. GoodQueue(q, nextId)
  BY <1>4, QueueShrinks
<1>7. GoodQueue(r, nextId + 1)
  BY <1>2, <1>3, <1>5, <1>6, QueueGrows DEF SyncTypes
<1>8. \A o \in r : o.type # "checkout"
  BY <1>2, <1>5 DEF Op
<1>9. GoodQueue(r \cup {Op(nextId + 1, type, last)}, (nextId + 1) + 1)
  BY <1>3, <1>7, <1>8, QueueGrows DEF SyncTypes
<1>10. (nextId + 1) + 1 = nextId + 2
  BY <1>3
<1>11. r \cup {Op(nextId + 1, type, last)} = WithoutTrailingUpsert(queue)
          \cup {Op(nextId, "upsert", cart), Op(nextId + 1, type, last)}
  BY <1>1, <1>2
<1> QED BY <1>9, <1>10, <1>11

\* A transition behind whatever is queued.
LEMMA OneMoreOp ==
  ASSUME GoodQueue(queue, nextId), CanAppend(1) \/ CanAppend(2),
         NEW type \in {"hold", "resume", "void"}
  PROVE  GoodQueue(queue \cup {Op(nextId, type, NoCart)}, nextId + 1)
<1>1. nextId \in OpIds
  BY FreshIds
<1> QED BY <1>1, QueueGrows DEF SyncTypes

LEMMA CheckoutKeeps ==
  ASSUME TillInv, NEW online \in BOOLEAN, Checkout(online)
  PROVE  TillInv'
<1>1. PICK final : final = Merged(screen)
  OBVIOUS
<1>2. final \in Snapshots /\ final.cart \in Carts
  BY <1>1, OnScreen DEF TillInv, Checkout
<1>3. CASE CheckedOut
  <2>1. UNCHANGED <<doc, queue, nextId, paidFor>>
    BY <1>3 DEF Checkout
  <2>2. TillTypes' /\ SaleKnown'
    <3>1. /\ UNCHANGED <<serverVars, save, fired, amiss, report, losses, reloads>>
          /\ timer' = FALSE
          /\ ui' \in {"idle", "paying"} /\ told' \in {"nothing", "queued"}
          /\ screen' = screen \/ screen' = NoScreen
      BY DEF Checkout
    <3> QED BY <2>1, <3>1, DocChanges DEF TillInv, TillTypes
  <2> QED BY <2>1, <2>2, LocalStep DEF TillInv, Checkout
<1>4. CASE ~CheckedOut
  <2>1. /\ doc' = Stored(final, "submitted") /\ paidFor' = final.cart
        /\ queue' = WithoutTrailingUpsert(queue)
             \cup {Op(nextId, "upsert", final.cart), Op(nextId + 1, "checkout", final.cart)}
        /\ nextId' = nextId + 2
    BY <1>1, <1>4 DEF Checkout
  <2>2. doc' \in Docs /\ doc'.status = "submitted"
    BY <1>2, <2>1, SnapshotTypes, StatusTypes DEF TillInv, TillTypes
  <2>3. TillTypes' /\ SaleKnown'
    <3>1. /\ UNCHANGED <<serverVars, save, fired, amiss, report, losses, reloads>>
          /\ timer' = FALSE
          /\ ui' \in {"idle", "paying"} /\ told' \in {"nothing", "queued"}
          /\ screen' = screen \/ screen' = NoScreen
      BY DEF Checkout
    <3> QED BY <1>2, <2>1, <2>2, <3>1, DocChanges DEF TillInv, TillTypes
  <2>4. GoodQueue(queue', nextId')
    <3>1. CanAppend(2) /\ ~CheckoutQueued
      BY <1>4 DEF Checkout, CheckedOut
    <3> QED BY <1>2, <2>1, <3>1, TwoMoreOps DEF TillInv
  <2> QED BY <2>3, <2>4, LocalStep DEF Checkout
<1> QED BY <1>3, <1>4

LEMMA HoldOrderKeeps ==
  ASSUME TillInv, HoldOrder
  PROVE  TillInv'
<1>1. screen \in Snapshots /\ screen.cart \in Carts
  BY OnScreen DEF TillInv, HoldOrder
<1>2. doc' \in Docs /\ doc'.status = "held"
  BY <1>1, SnapshotTypes, StatusTypes DEF TillInv, TillTypes, HoldOrder
<1>3. TillTypes' /\ SaleKnown'
  BY <1>2, DocChanges DEF TillInv, TillTypes, HoldOrder
<1>4. GoodQueue(queue', nextId')
  <2>1. CASE CheckoutQueued
    BY <2>1, OneMoreOp DEF HoldOrder, TillInv
  <2>2. CASE ~CheckoutQueued
    BY <1>1, <2>2, TwoMoreOps DEF HoldOrder, TillInv
  <2> QED BY <2>1, <2>2
<1> QED BY <1>3, <1>4, LocalStep DEF HoldOrder

LEMMA ResumeOrderKeeps ==
  ASSUME TillInv, ResumeOrder
  PROVE  TillInv'
<1>1. doc' \in Docs /\ doc'.status = "open" /\ screen' \in Snapshots
  BY SnapshotTypes, StatusTypes DEF TillInv, TillTypes, ResumeOrder, Docs
<1>2. TillTypes' /\ SaleKnown'
  BY <1>1, DocChanges DEF TillInv, TillTypes, ResumeOrder
<1>3. GoodQueue(queue', nextId')
  BY OneMoreOp DEF ResumeOrder, TillInv
<1> QED BY <1>2, <1>3, LocalStep DEF ResumeOrder

LEMMA VoidOrderKeeps ==
  ASSUME TillInv, VoidOrder
  PROVE  TillInv'
<1>1. PICK final : final = Merged(screen)
  OBVIOUS
<1>2. final \in Snapshots /\ final.cart \in Carts
  BY <1>1, OnScreen DEF TillInv, VoidOrder
<1>3. doc' = Stored(final, "voided") \/ doc' = NoDoc
  BY <1>1 DEF VoidOrder
<1>4. doc' \in Docs \cup {NoDoc} /\ (doc' # NoDoc => doc'.status = "voided")
  BY <1>2, <1>3, SnapshotTypes, StatusTypes DEF TillInv, TillTypes
<1>5. TillTypes' /\ SaleKnown'
  BY <1>4, DocChanges DEF TillInv, TillTypes, VoidOrder
<1>6. GoodQueue(queue', nextId')
  BY OneMoreOp DEF VoidOrder, TillInv
<1> QED BY <1>5, <1>6, LocalStep DEF VoidOrder

-----------------------------------------------------------------------------
(* Steps of the drains.                                                     *)

LEMMA DrainTypes ==
  ASSUME DrainInv, NEW t \in Tabs, drain[t] # Idle
  PROVE  /\ drain[t] \in Drains /\ GoodDrain(drain[t]) /\ CartOps(drain[t].ops)
         /\ drain[t].ops \in Seq(Ops) /\ drain[t].cursor \in Nat
         /\ drain[t].report \in {"none", "ok", "failed"}
         /\ drain[t].batch \in Seq(Ops) /\ drain[t].answers \in Seq(Answers)
         /\ drain[t].copy \in Docs \cup {NoDoc}
BY DEF DrainInv, GoodDrain, Drains

\* A drain that waits for no call moves on.
LEMMA QuietStep ==
  ASSUME TillInv, NEW t \in Tabs, drain[t] = Idle \/ drain[t].at # "wait",
         UNCHANGED serverVars, NEW d \in Drains \cup {Idle}, d # Idle => GoodDrain(d),
         drain' = [drain EXCEPT ![t] = d]
  PROVE  ServerInv' /\ DrainInv' /\ Waiting' /\ (Sold => Sold')
<1>1. UNCHANGED <<order, sales, keys, calls, refusals, crashes>>
  BY DEF serverVars
<1>2. ServerInv' /\ SameCalls
  <2>1. TypeOKServer'
    BY <1>1 DEF TillInv, ServerInv, TypeOKServer
  <2>2. ServerInv'
    BY <1>1, <2>1 DEF TillInv, ServerInv, CallSold, Sold, GoodKey, Payable
  <2>3. SameCalls
    BY <1>1 DEF SameCalls
  <2> QED BY <2>2, <2>3
<1>3. Sold => Sold'
  BY <1>1 DEF Sold
<1>4. DrainInv' /\ \A x \in Tabs : x # t => drain'[x] = drain[x]
  BY <1>3, DrainMoves DEF TillInv
<1>5. \A s \in Slots : calls'[s] # NoCall => calls'[s].caller # t
  BY <1>1, NoCallOf DEF TillInv
<1>6. Waiting'
  BY <1>2, <1>4, <1>5, WaitingKeeps DEF TillInv
<1> QED BY <1>2, <1>3, <1>4, <1>6

\* A drain whose call is over moves on.
LEMMA AnswerStep ==
  ASSUME TillInv, NEW t \in Tabs, NEW s \in Slots, calls[s] # NoCall,
         calls[s].caller = t, calls' = Freed(s),
         UNCHANGED <<order, sales, keys, refusals, crashes>>,
         NEW d \in Drains \cup {Idle}, d # Idle => GoodDrain(d),
         drain' = [drain EXCEPT ![t] = d]
  PROVE  ServerInv' /\ DrainInv' /\ Waiting' /\ (Sold => Sold')
<1>1. ServerInv' /\ SameCalls /\ calls'[s] = NoCall
  BY FreedKeeps DEF TillInv
<1>2. Sold => Sold'
  BY DEF Sold
<1>3. DrainInv' /\ \A x \in Tabs : x # t => drain'[x] = drain[x]
  BY <1>2, DrainMoves DEF TillInv
<1>4. ASSUME NEW x \in Slots, calls'[x] # NoCall
      PROVE  calls'[x].caller # t
  <2>1. x # s /\ calls[x] # NoCall /\ calls'[x].caller = calls[x].caller
    BY <1>1, <1>4 DEF SameCalls
  <2> QED BY <2>1, ServerAssumption DEF TillInv, Waiting
<1>5. Waiting'
  BY <1>1, <1>3, <1>4, WaitingKeeps DEF TillInv
<1> QED BY <1>1, <1>2, <1>3, <1>5

\* A drain calls the server.
LEMMA CallStep ==
  ASSUME TillInv, NEW t \in Tabs, NEW s \in Slots, NEW c \in Calls, GoodCall(c),
         c.stage # "done", c.caller = t, c.kind = "complete" => Sold,
         calls' = [calls EXCEPT ![s] = c],
         \A x \in Slots : x # s /\ calls[x] # NoCall => calls[x].caller # t,
         UNCHANGED <<order, sales, keys, refusals, crashes>>,
         NEW d \in Drains, GoodDrain(d), WaitsFor(d, c),
         drain' = [drain EXCEPT ![t] = d]
  PROVE  ServerInv' /\ DrainInv' /\ Waiting' /\ (Sold => Sold')
<1>1. ServerInv'
  BY CallStarts DEF TillInv
<1>2. Sold => Sold'
  BY DEF Sold
<1>3. DrainInv' /\ \A x \in Tabs : x # t => drain'[x] = drain[x]
  BY <1>2, DrainMoves DEF TillInv
<1>4. drain'[t] = d
  BY DEF TillInv, DrainInv
<1>5. Waiting'
  BY <1>3, <1>4, WaitingStarts DEF TillInv
<1> QED BY <1>1, <1>2, <1>3, <1>5

\* What a drain leaves alone of the till.
LEMMA TillStays ==
  ASSUME TillInv, Sold => Sold',
         UNCHANGED <<screen, doc, save, timer, fired, told, paidFor, amiss, reloads>>,
         losses' \in 0..MaxLosses,
         ui' \in {"idle", "paying", "flushing", "answer"},
         report' \in [Tabs -> {"none", "ok", "failed"}]
  PROVE  TillTypes' /\ SaleKnown'
<1>1. TillTypes'
  BY DEF TillInv, TillTypes, Saving
<1>2. SaleKnown'
  BY DEF TillInv, SaleKnown
<1> QED BY <1>1, <1>2

LEMMA EndedTypes ==
  ASSUME TillInv, NEW t \in Tabs, NEW rep \in {"none", "ok", "failed"}, EndDrain(t, rep)
  PROVE  /\ drain' = [drain EXCEPT ![t] = Idle]
         /\ ui' \in {"idle", "paying", "flushing", "answer"}
         /\ report' \in [Tabs -> {"none", "ok", "failed"}]
BY DEF EndDrain, TillInv, TillTypes

LEMMA StartDrainKeeps ==
  ASSUME TillInv, NEW t \in Tabs, StartDrain(t)
  PROVE  TillInv'
<1>1. PICK d : d = [at |-> "walk", ops |-> BySeq(queue),
                    cursor |-> IF doc = NoDoc THEN 0 ELSE doc.version,
                    failed |-> FALSE, report |-> "none", batch |-> <<>>,
                    answers |-> <<>>, copy |-> NoDoc]
  OBVIOUS
<1>2. BySeq(queue) \in Seq(Ops) /\ CartOps(BySeq(queue))
  BY BySeqOfQueue DEF TillInv, CartOps, GoodQueue
<1>3. (IF doc = NoDoc THEN 0 ELSE doc.version) \in Nat
  BY DEF TillInv, TillTypes, Docs
<1>4. d \in Drains /\ GoodDrain(d)
  BY <1>1, <1>2, <1>3 DEF Drains, GoodDrain
<1>5. drain[t] = Idle /\ drain' = [drain EXCEPT ![t] = d] /\ UNCHANGED serverVars
  BY <1>1 DEF StartDrain
<1>6. ServerInv' /\ DrainInv' /\ Waiting' /\ (Sold => Sold')
  BY <1>4, <1>5, QuietStep
<1>7. TillTypes' /\ SaleKnown'
  BY <1>6, TillStays DEF TillInv, TillTypes, StartDrain
<1> QED BY <1>6, <1>7 DEF TillInv, StartDrain

LEMMA FinishDrainKeeps ==
  ASSUME TillInv, NEW t \in Tabs, FinishDrain(t)
  PROVE  TillInv'
<1>1. drain[t] # Idle /\ drain[t].at = "walk"
  BY DEF FinishDrain, Walking
<1>2. PICK rep : rep = drain[t].report
  OBVIOUS
<1>3. rep \in {"none", "ok", "failed"}
  BY <1>1, <1>2, DrainTypes DEF TillInv
<1>4. EndDrain(t, rep) /\ UNCHANGED serverVars
  BY <1>2 DEF FinishDrain
<1>5. /\ drain' = [drain EXCEPT ![t] = Idle]
      /\ ui' \in {"idle", "paying", "flushing", "answer"}
      /\ report' \in [Tabs -> {"none", "ok", "failed"}]
  BY <1>3, <1>4, EndedTypes
<1>6. ServerInv' /\ DrainInv' /\ Waiting' /\ (Sold => Sold')
  BY <1>1, <1>4, <1>5, QuietStep
<1>7. TillTypes' /\ SaleKnown'
  BY <1>5, <1>6, TillStays DEF TillInv, TillTypes, FinishDrain
<1> QED BY <1>6, <1>7 DEF TillInv, FinishDrain

\* A drain whose copy was not taken by it is as good as before.
LEMMA MovedDrain ==
  ASSUME NEW d \in Drains, GoodDrain(d), NEW e \in Drains,
         CartOps(e.ops), e.copy = d.copy \/ e.copy = NoDoc,
         e.at = "ack" => e.batch # <<>>,
         e.at \in {"ack", "put"} => Len(e.answers) = Len(e.batch),
         e.at \in {"fail", "reopen"} => e.ops # <<>>
  PROVE  GoodDrain(e)
BY DEF GoodDrain

LEMMA SendBatchKeeps ==
  ASSUME TillInv, NEW t \in Tabs, SendBatch(t)
  PROVE  TillInv'
<1>1. PICK d : d = drain[t]
  OBVIOUS
<1>2. /\ d # Idle /\ d.at = "walk" /\ d.ops # <<>> /\ Head(d.ops).type # "checkout"
  BY <1>1 DEF SendBatch, Walking
<1>3. /\ d \in Drains /\ GoodDrain(d) /\ CartOps(d.ops) /\ d.ops \in Seq(Ops)
      /\ d.cursor \in Nat
  BY <1>1, <1>2, DrainTypes DEF TillInv
<1>4. PICK batch : batch = NextBatch(d.ops)
  OBVIOUS
<1>5. /\ batch \in Seq(Ops) /\ CartOps(batch) /\ Len(batch) \in 1..Len(d.ops)
      /\ \A n \in 1..Len(batch) : batch[n].type # "checkout"
  BY <1>2, <1>3, <1>4, NextBatchOfOps
<1>6. PICK ops : ops = [n \in DOMAIN batch |->
                          Sent(batch[n], VersionCursor(batch, d.cursor, n - 1))]
  OBVIOUS
<1>7. DOMAIN batch = 1..Len(batch) /\ Len(batch) \in Nat
  BY <1>5
<1>8. ASSUME NEW n \in 1..Len(batch)
      PROVE  /\ Sent(batch[n], VersionCursor(batch, d.cursor, n - 1)) \in WireOps
             /\ Sent(batch[n], VersionCursor(batch, d.cursor, n - 1)).type # "checkout"
             /\ WithCart(Sent(batch[n], VersionCursor(batch, d.cursor, n - 1)))
  <2>1. PICK v : v = VersionCursor(batch, d.cursor, n - 1)
    OBVIOUS
  <2>2. v \in Nat
    <3>1. n - 1 \in Nat
      BY <1>7
    <3> QED BY <1>3, <2>1, <3>1, CursorIsNumber
  <2>3. batch[n] \in Ops /\ WithCart(batch[n]) /\ batch[n].type # "checkout"
    BY <1>5, <1>7 DEF CartOps
  <2>4. PICK o : o = batch[n]
    OBVIOUS
  <2>5. Sent(o, v) \in WireOps /\ Sent(o, v).type # "checkout" /\ WithCart(Sent(o, v))
    BY <2>2, <2>3, <2>4 DEF Sent, WireOps, Ops, WithCart
  <2> QED BY <2>1, <2>4, <2>5
<1>9. ops \in Seq(WireOps) /\ Len(ops) = Len(batch) /\ ops # <<>>
  <2>1. ops \in [1..Len(batch) -> WireOps]
    BY <1>6, <1>7, <1>8
  <2>2. ops \in Seq(WireOps) /\ Len(ops) = Len(batch)
    BY <1>7, <2>1, SeqDef
  <2> QED BY <1>5, <2>2
<1>10. \A n \in 1..Len(ops) : ops[n].type # "checkout" /\ WithCart(ops[n])
  BY <1>6, <1>7, <1>8, <1>9
<1>11. PICK c : c = NewCall(t, "sync", ops)
  OBVIOUS
<1>12. /\ c \in Calls /\ GoodCall(c) /\ c.stage # "done" /\ c.caller = t
       /\ c.kind = "sync" /\ c.ops = ops
  BY <1>9, <1>10, <1>11, NewCallGood DEF Kinds
<1>13. PICK s \in Slots : calls' = [calls EXCEPT ![s] = c]
  BY <1>1, <1>4, <1>6, <1>11 DEF SendBatch
<1>14. PICK rest : rest = SubSeq(d.ops, Len(batch) + 1, Len(d.ops))
  OBVIOUS
<1>15. rest \in Seq(Ops) /\ CartOps(rest)
  <2>1. Len(batch) \in 0..Len(d.ops)
    BY <1>5
  <2> QED BY <1>3, <1>14, <2>1, RestOfOps DEF CartOps
<1>16. PICK last : last = VersionCursor(batch, d.cursor, Len(batch))
  OBVIOUS
<1>17. last \in Nat
  BY <1>3, <1>7, <1>16, CursorIsNumber
<1>18. PICK e : e = [d EXCEPT !.at = "wait", !.batch = batch, !.ops = rest, !.cursor = last]
  OBVIOUS
<1>19. /\ e \in Drains /\ e.at = "wait" /\ e.batch = batch /\ e.ops = rest
       /\ e.copy = d.copy
  BY <1>3, <1>5, <1>15, <1>17, <1>18 DEF Drains
<1>20. GoodDrain(e) /\ e # Idle
  <2>1. GoodDrain(e)
    BY <1>3, <1>15, <1>19, MovedDrain
  <2> QED BY <1>19, <2>1 DEF Idle
<1>21. drain' = [drain EXCEPT ![t] = e]
  <2>1. drain' = [drain EXCEPT ![t].at = "wait", ![t].batch = batch,
                               ![t].ops = rest, ![t].cursor = last]
    BY <1>1, <1>4, <1>14, <1>16 DEF SendBatch
  <2> QED BY <1>1, <1>18, <2>1 DEF TillInv, DrainInv
<1>22. WaitsFor(e, c)
  BY <1>9, <1>12, <1>19, <1>20 DEF WaitsFor
<1>23. \A x \in Slots : calls[x] # NoCall => calls[x].caller # t
  BY <1>1, <1>2, NoCallOf DEF TillInv
<1>24. ServerInv' /\ DrainInv' /\ Waiting' /\ (Sold => Sold')
  <2>1. UNCHANGED <<order, sales, keys, refusals, crashes>>
    BY DEF SendBatch
  <2>2. c.kind # "complete"
    BY <1>12
  <2> QED BY <1>12, <1>13, <1>19, <1>20, <1>21, <1>22, <1>23, <2>1, <2>2, CallStep
<1>25. TillTypes' /\ SaleKnown'
  BY <1>24, TillStays DEF TillInv, TillTypes, SendBatch
<1> QED BY <1>24, <1>25 DEF TillInv, SendBatch

LEMMA StartCheckoutOpKeeps ==
  ASSUME TillInv, NEW t \in Tabs, StartCheckoutOp(t)
  PROVE  TillInv'
<1>1. PICK d : d = drain[t]
  OBVIOUS
<1>2. /\ d # Idle /\ d.at = "walk" /\ d.ops # <<>> /\ Head(d.ops).type = "checkout"
  BY <1>1 DEF StartCheckoutOp, Walking
<1>3. d \in Drains /\ GoodDrain(d) /\ CartOps(d.ops)
  BY <1>1, <1>2, DrainTypes DEF TillInv
<1>4. UNCHANGED <<order, sales, keys, refusals, crashes>>
  BY DEF StartCheckoutOp
<1>5. ServerInv' /\ DrainInv' /\ Waiting' /\ (Sold => Sold')
  <2>1. CASE Doomed(t)
    <3>1. PICK e : e = [d EXCEPT !.at = "fail"]
      OBVIOUS
    <3>2. /\ e \in Drains /\ e.at = "fail" /\ e.ops = d.ops /\ e.copy = d.copy
      BY <1>3, <3>1 DEF Drains
    <3>3. GoodDrain(e)
      BY <1>2, <1>3, <3>2, MovedDrain
    <3>4. drain' = [drain EXCEPT ![t] = e] /\ UNCHANGED calls
      BY <1>1, <2>1, <3>1 DEF StartCheckoutOp
    <3>5. UNCHANGED serverVars
      BY <1>4, <3>4 DEF serverVars
    <3> QED BY <1>1, <1>2, <3>2, <3>3, <3>4, <3>5, QuietStep
  <2>2. CASE ~Doomed(t)
    <3>1. PICK o : o = Sent(Head(d.ops), 0)
      OBVIOUS
    <3>2. o \in WireOps /\ o.type = "checkout" /\ WithCart(o)
      <4>1. Head(d.ops) \in Ops /\ WithCart(Head(d.ops))
        BY <1>2, <1>3, TailOfOps
      <4> QED BY <1>2, <3>1, <4>1 DEF Sent, WireOps, Ops, WithCart
    <3>3. PICK ops : ops = <<o>>
      OBVIOUS
    <3>4. /\ ops \in Seq(WireOps) /\ Len(ops) = 1 /\ ops # <<>>
          /\ \A n \in 1..Len(ops) : ops[n].type = "checkout" /\ WithCart(ops[n])
      BY <3>2, <3>3
    <3>5. PICK c : c = NewCall(t, "submit", ops)
      OBVIOUS
    <3>6. /\ c \in Calls /\ GoodCall(c) /\ c.stage # "done" /\ c.caller = t
          /\ c.kind = "submit"
      BY <3>4, <3>5, NewCallGood DEF Kinds
    <3>7. PICK s \in Slots : calls' = [calls EXCEPT ![s] = c]
      BY <1>1, <2>2, <3>1, <3>3, <3>5 DEF StartCheckoutOp
    <3>8. PICK e : e = [d EXCEPT !.at = "wait"]
      OBVIOUS
    <3>9. /\ e \in Drains /\ e.at = "wait" /\ e.ops = d.ops /\ e.copy = d.copy
      BY <1>3, <3>8 DEF Drains
    <3>10. GoodDrain(e)
      BY <1>3, <3>9, MovedDrain
    <3>11. drain' = [drain EXCEPT ![t] = e]
      BY <1>1, <2>2, <3>8 DEF StartCheckoutOp
    <3>12. WaitsFor(e, c)
      BY <1>2, <3>6, <3>9 DEF WaitsFor, Idle
    <3>13. \A x \in Slots : calls[x] # NoCall => calls[x].caller # t
      BY <1>1, <1>2, NoCallOf DEF TillInv
    <3> QED BY <1>4, <3>6, <3>7, <3>9, <3>10, <3>11, <3>12, <3>13, CallStep
  <2> QED BY <2>1, <2>2
<1>6. TillTypes' /\ SaleKnown'
  BY <1>5, TillStays DEF TillInv, TillTypes, StartCheckoutOp
<1> QED BY <1>5, <1>6 DEF TillInv, StartCheckoutOp

\* The call a tab has an answer to.
LEMMA ArrivedCall ==
  ASSUME TillInv, NEW t \in Tabs, NEW s \in Slots, NEW kind \in Kinds, Arrived(t, s, kind)
  PROVE  /\ calls[s] # NoCall /\ calls[s] \in Calls /\ GoodCall(calls[s])
         /\ CallSold(calls[s]) /\ calls[s].caller = t /\ calls[s].kind = kind
         /\ calls[s].answers \in Seq(Answers)
         /\ Len(calls[s].answers) = Len(calls[s].ops)
         /\ kind # "sync" => Len(calls[s].answers) = 1 /\ calls[s].answers[1] \in Answers
         /\ WaitsFor(drain[t], calls[s]) /\ drain[t] # Idle
         /\ \A x \in Slots : x # s /\ calls[x] # NoCall => calls[x].caller # t
<1>1. /\ calls[s] # NoCall /\ calls[s].stage = "done" /\ calls[s].caller = t
      /\ calls[s].kind = kind
  BY DEF Arrived
<1>2. PICK c : c = calls[s]
  OBVIOUS
<1>3. c \in Calls /\ GoodCall(c) /\ CallSold(c)
  BY <1>1, <1>2, CallRow DEF TillInv
<1>4. c.answers \in Seq(Answers) /\ Len(c.answers) = Len(c.ops)
  BY <1>1, <1>2, <1>3 DEF Calls, GoodCall
<1>5. kind # "sync" => Len(c.answers) = 1 /\ c.answers[1] \in Answers
  BY <1>1, <1>2, <1>3, <1>4, ElementOfSeq DEF GoodCall
<1>6. WaitsFor(drain[t], c) /\ drain[t] # Idle
  BY <1>1, <1>2, ServerAssumption DEF TillInv, Waiting, WaitsFor
<1>7. \A x \in Slots : x # s /\ calls[x] # NoCall => calls[x].caller # t
  BY <1>1, ServerAssumption DEF TillInv, Waiting
<1> QED BY <1>1, <1>2, <1>3, <1>4, <1>5, <1>6, <1>7

LEMMA ReceiveBatchKeeps ==
  ASSUME TillInv, NEW t \in Tabs, NEW s \in Slots, ReceiveBatch(t, s)
  PROVE  TillInv'
<1>1. PICK d : d = drain[t]
  OBVIOUS
<1>2. PICK c : c = calls[s]
  OBVIOUS
<1>3. /\ c # NoCall /\ GoodCall(c) /\ c.caller = t /\ c.kind = "sync"
      /\ c.answers \in Seq(Answers) /\ Len(c.answers) = Len(c.ops)
      /\ WaitsFor(d, c) /\ d # Idle
  BY <1>1, <1>2, ArrivedCall DEF ReceiveBatch, Kinds
<1>4. d \in Drains /\ GoodDrain(d) /\ CartOps(d.ops)
  BY <1>1, <1>3, DrainTypes DEF TillInv
<1>5. PICK e : e = [d EXCEPT !.at = "ack", !.answers = c.answers]
  OBVIOUS
<1>6. /\ e \in Drains /\ e.at = "ack" /\ e.answers = c.answers /\ e.batch = d.batch
      /\ e.ops = d.ops /\ e.copy = d.copy
  BY <1>3, <1>4, <1>5 DEF Drains
<1>7. Len(e.answers) = Len(e.batch) /\ e.batch # <<>>
  <2>1. Len(c.ops) = Len(d.batch)
    BY <1>3 DEF WaitsFor
  <2>2. c.ops # <<>> /\ c.ops \in Seq(WireOps)
    BY <1>2, <1>3, ArrivedCall DEF GoodCall, Calls, ReceiveBatch, Kinds
  <2>3. Len(c.ops) # 0
    BY <2>2, EmptySeq
  <2> QED BY <1>3, <1>6, <2>1, <2>3
<1>8. GoodDrain(e)
  BY <1>4, <1>6, <1>7, MovedDrain
<1>9. /\ drain' = [drain EXCEPT ![t] = e] /\ calls' = Freed(s)
      /\ UNCHANGED <<order, sales, keys, refusals, crashes>>
  <2>1. drain' = [drain EXCEPT ![t].at = "ack", ![t].answers = c.answers]
    BY <1>2 DEF ReceiveBatch
  <2>2. drain' = [drain EXCEPT ![t] = e]
    BY <1>1, <1>5, <2>1 DEF TillInv, DrainInv
  <2> QED BY <2>2 DEF ReceiveBatch
<1>10. ServerInv' /\ DrainInv' /\ Waiting' /\ (Sold => Sold')
  BY <1>2, <1>3, <1>6, <1>8, <1>9, AnswerStep
<1>11. TillTypes' /\ SaleKnown'
  BY <1>10, TillStays DEF TillInv, TillTypes, ReceiveBatch
<1> QED BY <1>10, <1>11 DEF TillInv, ReceiveBatch

\* What is left of a batch and its answers.
LEMMA NextAnswerGood ==
  ASSUME NEW d \in Drains, GoodDrain(d), d.at = "ack"
  PROVE  /\ NextAnswer(d) \in Drains /\ GoodDrain(NextAnswer(d))
         /\ NextAnswer(d).copy = d.copy /\ NextAnswer(d).ops = d.ops
         /\ Len(NextAnswer(d).answers) = Len(NextAnswer(d).batch)
         /\ NextAnswer(d).at \in {"walk", "ack"}
         /\ Head(d.answers) \in Answers
<1>1. /\ d.batch \in Seq(Ops) /\ d.batch # <<>> /\ d.answers \in Seq(Answers)
      /\ Len(d.answers) = Len(d.batch) /\ CartOps(d.ops)
  BY DEF Drains, GoodDrain
<1>2. Len(d.batch) \in Nat /\ Len(d.batch) # 0 /\ d.answers # <<>>
  BY <1>1, EmptySeq
<1>3. PICK batch : batch = Tail(d.batch)
  OBVIOUS
<1>4. PICK answers : answers = Tail(d.answers)
  OBVIOUS
<1>5. /\ batch \in Seq(Ops) /\ answers \in Seq(Answers)
      /\ Len(batch) = Len(d.batch) - 1 /\ Len(answers) = Len(d.batch) - 1
      /\ Head(d.answers) \in Answers
  BY <1>1, <1>2, <1>3, <1>4, HeadTailProperties
<1>6. PICK at : at = IF Len(d.batch) = 1 THEN "walk" ELSE "ack"
  OBVIOUS
<1>7. at = "ack" => batch # <<>>
  <2>1. at = "ack" => Len(batch) # 0
    BY <1>2, <1>5, <1>6
  <2>2. Len(<<>>) = 0
    BY EmptySeq
  <2> QED BY <2>1, <2>2
<1>8. PICK e : e = [d EXCEPT !.batch = batch, !.answers = answers, !.at = at]
  OBVIOUS
<1>9. at \in {"walk", "ack"}
  BY <1>6
<1>10. /\ e \in Drains /\ e.batch = batch /\ e.answers = answers /\ e.at = at
       /\ e.ops = d.ops /\ e.copy = d.copy
  BY <1>5, <1>8, <1>9 DEF Drains
<1>11. GoodDrain(e)
  BY <1>1, <1>5, <1>7, <1>9, <1>10, MovedDrain
<1>12. e = NextAnswer(d)
  BY <1>3, <1>4, <1>6, <1>8 DEF NextAnswer, Drains
<1> QED BY <1>5, <1>9, <1>10, <1>11, <1>12

LEMMA AckOpKeeps ==
  ASSUME TillInv, NEW t \in Tabs, AckOp(t)
  PROVE  TillInv'
<1>1. PICK d : d = drain[t]
  OBVIOUS
<1>2. d # Idle /\ d.at = "ack"
  BY <1>1 DEF AckOp
<1>3. d \in Drains /\ GoodDrain(d)
  BY <1>1, <1>2, DrainTypes DEF TillInv
<1>4. PICK rest : rest = NextAnswer(d)
  OBVIOUS
<1>5. PICK answer : answer = Head(d.answers)
  OBVIOUS
<1>6. /\ rest \in Drains /\ GoodDrain(rest) /\ rest.copy = d.copy
      /\ Len(rest.answers) = Len(rest.batch) /\ rest.at \in {"walk", "ack"}
      /\ CartOps(rest.ops) /\ answer \in Answers
  BY <1>2, <1>3, <1>4, <1>5, NextAnswerGood DEF GoodDrain
<1>7. UNCHANGED <<serverVars, nextId, save, timer, fired, ui, told, paidFor, report,
                  losses, reloads>>
  BY DEF AckOp
<1>8. Sold <=> Sold'
  BY <1>7 DEF serverVars, Sold
<1>9. ASSUME NEW e \in Drains, GoodDrain(e), drain' = [drain EXCEPT ![t] = e]
      PROVE  ServerInv' /\ DrainInv' /\ Waiting'
  BY <1>1, <1>2, <1>7, <1>9, QuietStep
<1>10. ASSUME NEW q \in SUBSET queue, queue' = q
       PROVE  GoodQueue(queue', nextId')
  BY <1>7, <1>10, QueueShrinks DEF TillInv
<1>11. \A id : Without(id) \in SUBSET queue
  BY DEF Without
<1>12. \A id, batch : Undoomed(Without(id), batch) \in SUBSET queue
  BY DEF Without, Undoomed
<1>13. CASE answer.code = "ok"
  <2>1. PICK rep : rep = Reported(d, "ok")
    OBVIOUS
  <2>2. PICK at : at = IF doc = NoDoc THEN rest.at ELSE "put"
    OBVIOUS
  <2>3. PICK copy : copy = IF doc = NoDoc THEN rest.copy
                           ELSE [doc EXCEPT !.version = answer.version]
    OBVIOUS
  <2>4. PICK e : e = [rest EXCEPT !.cursor = answer.version, !.report = rep,
                                  !.at = at, !.copy = copy]
    OBVIOUS
  <2>5. rep \in {"ok", "failed"} /\ at \in {"walk", "ack", "put"}
    BY <1>6, <2>1, <2>2 DEF Reported
  <2>6. answer.version \in Nat
    BY <1>6 DEF Answers
  <2>7. copy \in Docs \cup {NoDoc} /\ (copy # NoDoc /\ copy.status = "completed" => Sold)
    <3>1. CASE doc = NoDoc
      BY <1>6, <2>3, <3>1 DEF Drains, GoodDrain
    <3>2. CASE doc # NoDoc
      <4>1. doc \in Docs
        BY <3>2 DEF TillInv, TillTypes
      <4>2. copy = [doc EXCEPT !.version = answer.version]
        BY <2>3, <3>2
      <4>3. copy \in Docs /\ copy.status = doc.status
        BY <2>6, <4>1, <4>2 DEF Docs
      <4> QED BY <3>2, <4>3 DEF TillInv, SaleKnown
    <3> QED BY <3>1, <3>2
  <2>8. /\ e \in Drains /\ e.at = at /\ e.copy = copy /\ e.ops = rest.ops
        /\ e.batch = rest.batch /\ e.answers = rest.answers
    BY <1>6, <2>4, <2>5, <2>6, <2>7 DEF Drains
  <2>9. at = "ack" => e.batch # <<>>
    BY <1>6, <2>2, <2>8 DEF GoodDrain
  <2>10. GoodDrain(e)
    BY <1>6, <2>5, <2>7, <2>8, <2>9 DEF GoodDrain
  <2>11. drain' = [drain EXCEPT ![t] =
           [rest EXCEPT !.cursor = answer.version, !.report = Reported(d, "ok"),
                        !.at = IF doc = NoDoc THEN @ ELSE "put",
                        !.copy = IF doc = NoDoc THEN @
                                 ELSE [doc EXCEPT !.version = answer.version]]]
    BY <1>1, <1>4, <1>5, <1>13 DEF AckOp
  <2>12. drain' = [drain EXCEPT ![t] = e]
    BY <2>1, <2>2, <2>3, <2>4, <2>11
  <2>13. queue' = Without(Head(d.batch).id) /\ UNCHANGED <<doc, amiss, screen>>
    BY <1>1, <1>5, <1>13 DEF AckOp
  <2>14. TillTypes' /\ SaleKnown'
    BY <1>7, <1>8, <2>13, TillStays DEF TillInv, TillTypes
  <2>15. ServerInv' /\ DrainInv' /\ Waiting'
    BY <1>9, <2>8, <2>10, <2>12
  <2>16. GoodQueue(queue', nextId')
    BY <1>10, <1>11, <2>13
  <2> QED BY <2>14, <2>15, <2>16 DEF TillInv
<1>14. CASE answer.code # "ok"
  <2>1. PICK e : e \in {[rest EXCEPT !.report = "failed"],
                        [rest EXCEPT !.report = "failed", !.failed = TRUE]}
                 /\ drain' = [drain EXCEPT ![t] = e]
    BY <1>1, <1>4, <1>5, <1>14 DEF AckOp
  <2>2. /\ e \in Drains /\ e.at = rest.at /\ e.copy = rest.copy /\ e.ops = rest.ops
        /\ e.batch = rest.batch /\ e.answers = rest.answers
    BY <1>6, <2>1 DEF Drains
  <2>3. GoodDrain(e)
    BY <1>6, <2>2 DEF GoodDrain
  <2>4. ServerInv' /\ DrainInv' /\ Waiting'
    BY <1>9, <2>1, <2>2, <2>3
  <2>5. queue' \in SUBSET queue
    BY <1>5, <1>1, <1>11, <1>12, <1>14 DEF AckOp
  <2>6. GoodQueue(queue', nextId')
    BY <1>10, <2>5
  <2>7. /\ amiss' \in {amiss, TRUE}
        /\ \/ UNCHANGED <<doc, screen>>
           \/ doc # NoDoc /\ doc' = NoDoc /\ screen' = NoScreen
    BY <1>1, <1>5, <1>14 DEF AckOp
  <2>8. TillTypes' /\ SaleKnown'
    <3> amiss' \in BOOLEAN
      BY <2>7 DEF TillInv, TillTypes
    <3>1. CASE UNCHANGED <<doc, screen>>
      <4>1. TillTypes'
        BY <1>7, <3>1 DEF TillInv, TillTypes, Saving
      <4>2. SaleKnown'
        BY <1>7, <1>8, <3>1 DEF TillInv, SaleKnown
      <4> QED BY <4>1, <4>2
    <3>2. CASE doc # NoDoc /\ doc' = NoDoc /\ screen' = NoScreen
      <4>1. TillTypes'
        BY <1>7, <3>2 DEF TillInv, TillTypes, Saving
      <4>2. SaleKnown'
        BY <1>7, <1>8, <3>2 DEF TillInv, SaleKnown
      <4> QED BY <4>1, <4>2
    <3> QED BY <2>7, <3>1, <3>2
  <2> QED BY <2>4, <2>6, <2>8 DEF TillInv
<1> QED BY <1>13, <1>14

LEMMA PutVersionKeeps ==
  ASSUME TillInv, NEW t \in Tabs, PutVersion(t)
  PROVE  TillInv'
<1>1. PICK d : d = drain[t]
  OBVIOUS
<1>2. d # Idle /\ d.at = "put"
  BY <1>1 DEF PutVersion
<1>3. d \in Drains /\ GoodDrain(d) /\ CartOps(d.ops) /\ d.copy \in Docs \cup {NoDoc}
  BY <1>1, <1>2, DrainTypes DEF TillInv
<1>4. PICK at : at = IF d.batch = <<>> THEN "walk" ELSE "ack"
  OBVIOUS
<1>5. PICK e : e = [d EXCEPT !.copy = NoDoc, !.at = at]
  OBVIOUS
<1>6. at \in {"walk", "ack"}
  BY <1>4
<1>7. /\ e \in Drains /\ e.at = at /\ e.copy = NoDoc /\ e.ops = d.ops
      /\ e.batch = d.batch /\ e.answers = d.answers
  BY <1>3, <1>5, <1>6 DEF Drains
<1>8. GoodDrain(e)
  BY <1>2, <1>3, <1>4, <1>6, <1>7 DEF GoodDrain
<1>9. drain' = [drain EXCEPT ![t] = e]
  <2>1. drain' = [drain EXCEPT ![t].copy = NoDoc, ![t].at = at]
    BY <1>1, <1>4 DEF PutVersion
  <2> QED BY <1>1, <1>5, <2>1 DEF TillInv, DrainInv
<1>10. UNCHANGED <<serverVars, screen, queue, nextId, save, timer, fired, ui, told,
                   paidFor, report, losses, reloads>>
       /\ doc' = d.copy /\ amiss' \in BOOLEAN
  BY <1>1 DEF PutVersion
<1>11. ServerInv' /\ DrainInv' /\ Waiting' /\ (Sold => Sold')
  BY <1>1, <1>2, <1>7, <1>8, <1>9, <1>10, QuietStep
<1>12. TillTypes'
  BY <1>3, <1>10 DEF TillInv, TillTypes, Saving
<1>13. SaleKnown'
  BY <1>3, <1>10, <1>11 DEF TillInv, SaleKnown, GoodDrain
<1> QED BY <1>10, <1>11, <1>12, <1>13 DEF TillInv

LEMMA FailCheckoutKeeps ==
  ASSUME TillInv, NEW t \in Tabs, FailCheckout(t)
  PROVE  TillInv'
<1>1. PICK d : d = drain[t]
  OBVIOUS
<1>2. d # Idle /\ d.at = "fail"
  BY <1>1 DEF FailCheckout
<1>3. d \in Drains /\ GoodDrain(d) /\ CartOps(d.ops) /\ d.ops # <<>>
  BY <1>1, <1>2, DrainTypes DEF TillInv, GoodDrain
<1>4. PICK e : e = [d EXCEPT !.at = "reopen", !.report = "failed"]
  OBVIOUS
<1>5. e \in Drains /\ e.at = "reopen" /\ e.copy = d.copy /\ e.ops = d.ops
  BY <1>3, <1>4 DEF Drains
<1>6. GoodDrain(e)
  BY <1>3, <1>5, MovedDrain
<1>7. drain' = [drain EXCEPT ![t] = e]
  <2>1. drain' = [drain EXCEPT ![t].at = "reopen", ![t].report = "failed"]
    BY DEF FailCheckout
  <2> QED BY <1>1, <1>4, <2>1 DEF TillInv, DrainInv
<1>8. UNCHANGED serverVars
  BY DEF FailCheckout
<1>9. ServerInv' /\ DrainInv' /\ Waiting' /\ (Sold => Sold')
  BY <1>1, <1>2, <1>5, <1>6, <1>7, <1>8, QuietStep
<1>10. TillTypes' /\ SaleKnown'
  BY <1>9, TillStays DEF TillInv, TillTypes, FailCheckout
<1>11. GoodQueue(queue', nextId')
  <2>1. queue' \in SUBSET queue /\ nextId' = nextId
    BY DEF FailCheckout, Without
  <2> QED BY <2>1, QueueShrinks DEF TillInv
<1> QED BY <1>9, <1>10, <1>11 DEF TillInv

LEMMA ReopenDocKeeps ==
  ASSUME TillInv, NEW t \in Tabs, ReopenDoc(t)
  PROVE  TillInv'
<1>1. PICK d : d = drain[t]
  OBVIOUS
<1>2. d # Idle /\ d.at = "reopen"
  BY <1>1 DEF ReopenDoc
<1>3. d \in Drains /\ GoodDrain(d) /\ CartOps(d.ops) /\ d.ops # <<>>
  BY <1>1, <1>2, DrainTypes DEF TillInv, GoodDrain
<1>4. PICK ops : ops = Tail(d.ops)
  OBVIOUS
<1>5. CartOps(ops) /\ ops \in Seq(Ops)
  BY <1>3, <1>4, TailOfOps DEF CartOps
<1>6. PICK e : e = [d EXCEPT !.at = "walk", !.ops = ops]
  OBVIOUS
<1>7. e \in Drains /\ e.at = "walk" /\ e.copy = d.copy /\ e.ops = ops
  BY <1>3, <1>5, <1>6 DEF Drains
<1>8. GoodDrain(e)
  BY <1>3, <1>5, <1>7, MovedDrain
<1>9. drain' = [drain EXCEPT ![t] = e]
  <2>1. drain' = [drain EXCEPT ![t].at = "walk", ![t].ops = Tail(@)]
    BY DEF ReopenDoc
  <2>2. drain' = [drain EXCEPT ![t] = [drain[t] EXCEPT !.at = "walk", !.ops = Tail(drain[t].ops)]]
    <3>1. PICK f : f = [drain[t] EXCEPT !.at = "walk"]
      OBVIOUS
    <3>2. f.ops = drain[t].ops
      BY <1>1, <1>3, <3>1 DEF Drains
    <3> QED BY <1>1, <1>3, <2>1, <3>1, <3>2 DEF TillInv, DrainInv
  <2> QED BY <1>1, <1>4, <1>6, <2>2
<1>10. UNCHANGED <<serverVars, screen, queue, nextId, save, timer, fired, ui, told,
                   paidFor, amiss, report, losses, reloads>>
  BY DEF ReopenDoc
<1>11. ServerInv' /\ DrainInv' /\ Waiting' /\ (Sold => Sold')
  BY <1>1, <1>2, <1>7, <1>8, <1>9, <1>10, QuietStep
<1>12. doc' \in Docs \cup {NoDoc} /\ (doc' # NoDoc => doc'.status = "open")
  BY StatusTypes DEF ReopenDoc, TillInv, TillTypes, Docs
<1>13. TillTypes'
  BY <1>10, <1>12 DEF TillInv, TillTypes, Saving
<1>14. SaleKnown'
  BY <1>10, <1>11, <1>12 DEF TillInv, SaleKnown
<1> QED BY <1>10, <1>11, <1>13, <1>14 DEF TillInv

\* The next call of a checkout, in the slot of the last one.
LEMMA NextCallKeeps ==
  ASSUME TillInv, NEW t \in Tabs, NEW s \in Slots, NEW kind \in {"sale", "complete", "reopen"},
         NEW cart \in Carts \cup {NoCart}, kind = "sale" => cart \in Carts,
         kind = "complete" => Sold,
         drain[t] # Idle, drain[t].at = "wait", drain[t].ops # <<>>,
         \A x \in Slots : x # s /\ calls[x] # NoCall => calls[x].caller # t,
         CallNext(t, s, kind, cart), UNCHANGED <<order, sales, keys, refusals, crashes>>,
         NEW d \in Drains, drain' = [drain EXCEPT ![t] = d],
         d.at = "wait", d.ops = drain[t].ops, d.copy = drain[t].copy
  PROVE  ServerInv' /\ DrainInv' /\ Waiting' /\ (Sold => Sold')
<1>1. PICK o : o = [id |-> Head(drain[t].ops).id, type |-> "checkout", cart |-> cart,
                    expected |-> 0]
  OBVIOUS
<1>2. drain[t] \in Drains /\ GoodDrain(drain[t]) /\ CartOps(drain[t].ops)
  BY DrainTypes DEF TillInv
<1>3. Head(drain[t].ops) \in Ops
  BY <1>2, TailOfOps
<1>4. o \in WireOps /\ o.type = "checkout" /\ (kind = "sale" => WithCart(o))
  BY <1>1, <1>3 DEF WireOps, Ops, WithCart
<1>5. PICK ops : ops = <<o>>
  OBVIOUS
<1>6. /\ ops \in Seq(WireOps) /\ Len(ops) = 1 /\ ops # <<>>
      /\ \A n \in 1..Len(ops) : ops[n].type = "checkout" /\ (kind = "sale" => WithCart(ops[n]))
  BY <1>4, <1>5
<1>7. PICK c : c = NewCall(t, kind, ops)
  OBVIOUS
<1>8. /\ c \in Calls /\ GoodCall(c) /\ c.stage # "done" /\ c.caller = t /\ c.kind = kind
  <2>1. kind \in Kinds /\ kind \notin {"sync", "submit"}
    BY DEF Kinds
  <2> QED BY <1>6, <1>7, <2>1, NewCallGood
<1>9. calls' = [calls EXCEPT ![s] = c]
  BY <1>1, <1>5, <1>7 DEF CallNext
<1>10. GoodDrain(d)
  BY <1>2, MovedDrain
<1>11. d # Idle
  BY DEF Idle
<1>12. WaitsFor(d, c)
  BY <1>8, <1>11 DEF WaitsFor
<1> QED BY <1>8, <1>9, <1>10, <1>12, CallStep

LEMMA AfterSubmitKeeps ==
  ASSUME TillInv, NEW t \in Tabs, NEW s \in Slots, AfterSubmit(t, s)
  PROVE  TillInv'
<1>1. PICK d : d = drain[t]
  OBVIOUS
<1>2. PICK answer : answer = calls[s].answers[1]
  OBVIOUS
<1>3. /\ calls[s] # NoCall /\ GoodCall(calls[s]) /\ calls[s].caller = t
      /\ calls[s].kind = "submit" /\ answer \in Answers
      /\ Len(calls[s].answers) = 1 /\ WaitsFor(d, calls[s]) /\ d # Idle
      /\ \A x \in Slots : x # s /\ calls[x] # NoCall => calls[x].caller # t
  BY <1>1, <1>2, ArrivedCall DEF AfterSubmit, Kinds
<1>4. Payable(answer)
  BY <1>2, <1>3 DEF GoodCall
<1>5. d \in Drains /\ GoodDrain(d) /\ CartOps(d.ops) /\ d.at = "wait" /\ d.ops # <<>>
  BY <1>1, <1>3, DrainTypes DEF TillInv, WaitsFor
<1>6. UNCHANGED <<order, sales, keys, refusals, crashes, screen, doc, queue, nextId, save,
                  timer, fired, told, paidFor, amiss, losses, reloads>>
  BY DEF AfterSubmit
<1>7. ASSUME ServerInv', DrainInv', Waiting', Sold => Sold',
             ui' \in {"idle", "paying", "flushing", "answer"},
             report' \in [Tabs -> {"none", "ok", "failed"}]
      PROVE  TillInv'
  <2>1. TillTypes' /\ SaleKnown'
    BY <1>6, <1>7, TillStays DEF TillInv, TillTypes
  <2> QED BY <1>6, <1>7, <2>1 DEF TillInv
<1>8. CASE answer.code = "ok"
  <2>1. PICK e : e = [d EXCEPT !.cursor = answer.version]
    OBVIOUS
  <2>2. answer.version \in Nat /\ answer.cart \in Carts
    BY <1>3, <1>4, <1>8 DEF Answers, Payable
  <2>3. e \in Drains /\ e.at = "wait" /\ e.ops = d.ops /\ e.copy = d.copy
    BY <1>5, <2>1, <2>2 DEF Drains
  <2>4. /\ CallNext(t, s, "sale", answer.cart)
        /\ drain' = [drain EXCEPT ![t].cursor = answer.version]
        /\ UNCHANGED <<report, ui>>
    BY <1>2, <1>8 DEF AfterSubmit, StillInFlight
  <2>5. drain' = [drain EXCEPT ![t] = e]
    BY <1>1, <2>1, <2>4
  <2>6. ServerInv' /\ DrainInv' /\ Waiting' /\ (Sold => Sold')
    BY <1>1, <1>3, <1>5, <1>6, <2>2, <2>3, <2>4, <2>5, NextCallKeeps
  <2> QED BY <1>7, <2>4, <2>6 DEF TillInv, TillTypes
<1>9. CASE answer.code # "ok" /\ StillInFlight(answer)
  <2>1. PICK rep : rep = d.report
    OBVIOUS
  <2>2. rep \in {"none", "ok", "failed"}
    BY <1>5, <2>1 DEF Drains
  <2>3. calls' = Freed(s) /\ EndDrain(t, rep)
    BY <1>1, <1>2, <1>9, <2>1 DEF AfterSubmit
  <2>4. /\ drain' = [drain EXCEPT ![t] = Idle]
        /\ ui' \in {"idle", "paying", "flushing", "answer"}
        /\ report' \in [Tabs -> {"none", "ok", "failed"}]
    BY <2>2, <2>3, EndedTypes
  <2>5. ServerInv' /\ DrainInv' /\ Waiting' /\ (Sold => Sold')
    BY <1>3, <1>6, <2>3, <2>4, AnswerStep
  <2> QED BY <1>7, <2>4, <2>5
<1>10. CASE answer.code # "ok" /\ ~StillInFlight(answer)
  <2>1. PICK e : e = [d EXCEPT !.at = "fail"]
    OBVIOUS
  <2>2. e \in Drains /\ e.at = "fail" /\ e.ops = d.ops /\ e.copy = d.copy
    BY <1>5, <2>1 DEF Drains
  <2>3. GoodDrain(e)
    BY <1>5, <2>2, MovedDrain
  <2>4. /\ calls' = Freed(s) /\ drain' = [drain EXCEPT ![t] = e] /\ UNCHANGED <<report, ui>>
    BY <1>1, <1>2, <1>10, <2>1 DEF AfterSubmit
  <2>5. ServerInv' /\ DrainInv' /\ Waiting' /\ (Sold => Sold')
    BY <1>3, <1>6, <2>2, <2>3, <2>4, AnswerStep
  <2> QED BY <1>7, <2>4, <2>5 DEF TillInv, TillTypes
<1> QED BY <1>8, <1>9, <1>10

LEMMA AfterSaleKeeps ==
  ASSUME TillInv, NEW t \in Tabs, NEW s \in Slots, AfterSale(t, s)
  PROVE  TillInv'
<1>1. PICK kind : kind = IF calls[s].answers[1].code = "ok" THEN "complete" ELSE "reopen"
  OBVIOUS
<1>2. /\ calls[s] # NoCall /\ CallSold(calls[s]) /\ calls[s].caller = t
      /\ calls[s].kind = "sale" /\ WaitsFor(drain[t], calls[s]) /\ drain[t] # Idle
      /\ \A x \in Slots : x # s /\ calls[x] # NoCall => calls[x].caller # t
      /\ calls[s].stage = "done"
  BY ArrivedCall DEF AfterSale, Kinds, Arrived
<1>3. /\ kind \in {"complete", "reopen"} /\ (kind = "complete" => Sold)
  BY <1>1, <1>2 DEF CallSold
<1>4. /\ CallNext(t, s, kind, NoCart)
      /\ UNCHANGED <<order, sales, keys, refusals, crashes, tillVars>>
  BY <1>1 DEF AfterSale
<1>5. PICK d : d = drain[t]
  OBVIOUS
<1>6. /\ d \in Drains /\ d.at = "wait" /\ d.ops # <<>>
  BY <1>2, <1>5, DrainTypes DEF TillInv, WaitsFor
<1>7. drain' = [drain EXCEPT ![t] = d]
  BY <1>4, <1>5 DEF tillVars, TillInv, DrainInv
<1>8. ServerInv' /\ DrainInv' /\ Waiting' /\ (Sold => Sold')
  <2>1. /\ kind \in {"sale", "complete", "reopen"} /\ NoCart \in Carts \cup {NoCart}
        /\ (kind = "sale" => NoCart \in Carts) /\ (kind = "complete" => Sold)
    BY <1>3
  <2>2. /\ drain[t] # Idle /\ drain[t].at = "wait" /\ drain[t].ops # <<>>
        /\ \A x \in Slots : x # s /\ calls[x] # NoCall => calls[x].caller # t
    BY <1>2, <1>5, <1>6
  <2>3. d.ops = drain[t].ops /\ d.copy = drain[t].copy
    BY <1>5
  <2>4. /\ CallNext(t, s, kind, NoCart)
        /\ UNCHANGED <<order, sales, keys, refusals, crashes>>
    BY <1>4
  <2> QED BY <1>6, <1>7, <2>1, <2>2, <2>3, <2>4, NextCallKeeps
<1>9. TillTypes' /\ SaleKnown'
  BY <1>4, <1>8, TillStays DEF TillInv, TillTypes, tillVars
<1> QED BY <1>4, <1>8, <1>9 DEF TillInv, tillVars

LEMMA AfterReopenKeeps ==
  ASSUME TillInv, NEW t \in Tabs, NEW s \in Slots, AfterReopen(t, s)
  PROVE  TillInv'
<1>1. /\ calls[s] # NoCall /\ calls[s].caller = t /\ calls[s].kind = "reopen"
      /\ WaitsFor(drain[t], calls[s]) /\ drain[t] # Idle
  BY ArrivedCall DEF AfterReopen, Kinds
<1>2. PICK d : d = drain[t]
  OBVIOUS
<1>3. d \in Drains /\ GoodDrain(d) /\ CartOps(d.ops) /\ d.ops # <<>>
  BY <1>1, <1>2, DrainTypes DEF TillInv, WaitsFor
<1>4. PICK e : e = [d EXCEPT !.at = "fail"]
  OBVIOUS
<1>5. e \in Drains /\ e.at = "fail" /\ e.ops = d.ops /\ e.copy = d.copy
  BY <1>3, <1>4 DEF Drains
<1>6. GoodDrain(e)
  BY <1>3, <1>5, MovedDrain
<1>7. /\ calls' = Freed(s) /\ drain' = [drain EXCEPT ![t] = e]
      /\ UNCHANGED <<order, sales, keys, refusals, crashes>>
  BY <1>2, <1>4 DEF AfterReopen
<1>8. ServerInv' /\ DrainInv' /\ Waiting' /\ (Sold => Sold')
  BY <1>1, <1>5, <1>6, <1>7, AnswerStep
<1>9. TillTypes' /\ SaleKnown'
  BY <1>8, TillStays DEF TillInv, TillTypes, AfterReopen
<1> QED BY <1>8, <1>9 DEF TillInv, AfterReopen

LEMMA AfterCompleteKeeps ==
  ASSUME TillInv, NEW t \in Tabs, NEW s \in Slots, AfterComplete(t, s)
  PROVE  TillInv'
<1>1. /\ calls[s] # NoCall /\ CallSold(calls[s]) /\ calls[s].caller = t
      /\ calls[s].kind = "complete" /\ WaitsFor(drain[t], calls[s]) /\ drain[t] # Idle
  BY ArrivedCall DEF AfterComplete, Kinds
<1>2. PICK d : d = drain[t]
  OBVIOUS
<1>3. d \in Drains /\ GoodDrain(d) /\ CartOps(d.ops) /\ d.ops # <<>>
  BY <1>1, <1>2, DrainTypes DEF TillInv, WaitsFor
<1>4. PICK ops : ops = Tail(d.ops)
  OBVIOUS
<1>5. CartOps(ops) /\ ops \in Seq(Ops)
  BY <1>3, <1>4, TailOfOps DEF CartOps
<1>6. PICK rep : rep = IF calls[s].answers[1].code = "ok" THEN Reported(d, "ok") ELSE "failed"
  OBVIOUS
<1>7. rep \in {"ok", "failed"}
  BY <1>6 DEF Reported
<1>8. PICK e : e = [d EXCEPT !.at = "walk", !.ops = ops, !.report = rep]
  OBVIOUS
<1>9. e \in Drains /\ e.at = "walk" /\ e.ops = ops /\ e.copy = d.copy
  BY <1>3, <1>5, <1>7, <1>8 DEF Drains
<1>10. GoodDrain(e)
  BY <1>3, <1>5, <1>9, MovedDrain
<1>11. drain' = [drain EXCEPT ![t] = e]
  <2>1. drain' = [drain EXCEPT ![t].at = "walk", ![t].ops = Tail(@), ![t].report = rep]
    BY <1>2, <1>6 DEF AfterComplete
  <2>2. PICK f : f = [drain[t] EXCEPT !.at = "walk"]
    OBVIOUS
  <2>3. f.ops = drain[t].ops
    BY <1>2, <1>3, <2>2 DEF Drains
  <2>4. drain' = [drain EXCEPT ![t] = [drain[t] EXCEPT !.at = "walk",
                    !.ops = Tail(drain[t].ops), !.report = rep]]
    BY <1>2, <1>3, <2>1, <2>2, <2>3 DEF TillInv, DrainInv
  <2> QED BY <1>2, <1>4, <1>8, <2>4
<1>12. /\ calls' = Freed(s)
       /\ UNCHANGED <<order, sales, keys, refusals, crashes, screen, nextId, save, timer,
                      fired, ui, told, paidFor, amiss, report, losses, reloads>>
  BY DEF AfterComplete
<1>13. ServerInv' /\ DrainInv' /\ Waiting' /\ (Sold => Sold')
  BY <1>1, <1>9, <1>10, <1>11, <1>12, AnswerStep
<1>14. doc' \in Docs \cup {NoDoc}
  BY StatusTypes DEF AfterComplete, TillInv, TillTypes, Docs
<1>15. TillTypes'
  BY <1>12, <1>14 DEF TillInv, TillTypes, Saving
<1>16. SaleKnown'
  <2>1. Sold
    BY <1>1 DEF CallSold
  <2> QED BY <1>13, <2>1 DEF SaleKnown
<1>17. GoodQueue(queue', nextId')
  <2>1. queue' \in SUBSET queue /\ nextId' = nextId
    BY <1>12 DEF AfterComplete, Without
  <2> QED BY <2>1, QueueShrinks DEF TillInv
<1> QED BY <1>13, <1>15, <1>16, <1>17 DEF TillInv

-----------------------------------------------------------------------------
(* Failures.                                                                *)

\* A call whose caller is gone is what it was.
LEMMA AbandonedGood ==
  ASSUME NEW c \in Calls, GoodCall(c), CallSold(c)
  PROVE  /\ [c EXCEPT !.caller = Nobody] \in Calls
         /\ GoodCall([c EXCEPT !.caller = Nobody]) /\ CallSold([c EXCEPT !.caller = Nobody])
         /\ [c EXCEPT !.caller = Nobody].caller = Nobody
<1>1. PICK e : e = [c EXCEPT !.caller = Nobody]
  OBVIOUS
<1>2. /\ e \in Calls /\ e.caller = Nobody /\ e.kind = c.kind /\ e.ops = c.ops
      /\ e.answers = c.answers /\ e.stage = c.stage /\ e.pending = c.pending
  BY <1>1 DEF Calls
<1>3. GoodCall(e)
  BY <1>2 DEF GoodCall
<1>4. CallSold(e)
  BY <1>2 DEF CallSold
<1> QED BY <1>1, <1>2, <1>3, <1>4

\* Whoever waited for some of the calls does not wait any more.
LEMMA CallsAbandoned ==
  ASSUME TillInv, NEW t \in Tabs, NEW d \in Drains \cup {Idle}, d # Idle => GoodDrain(d),
         drain' = [drain EXCEPT ![t] = d],
         UNCHANGED <<order, sales, keys, refusals>>, crashes' \in 0..MaxCrashes,
         calls' \in [Slots -> Calls \cup {NoCall}],
         \A s \in Slots :
           \/ calls'[s] = NoCall
           \/ calls'[s] = calls[s] /\ calls[s].caller # t
           \/ calls[s] # NoCall /\ calls'[s] = [calls[s] EXCEPT !.caller = Nobody]
  PROVE  ServerInv' /\ DrainInv' /\ Waiting' /\ (Sold => Sold')
<1>1. ASSUME NEW s \in Slots, calls'[s] # NoCall
      PROVE  /\ calls[s] # NoCall /\ GoodCall(calls'[s]) /\ CallSold(calls'[s])
             /\ \/ calls'[s].caller = Nobody
                \/ calls'[s] = calls[s] /\ calls[s].caller # t
  <2>1. CASE calls'[s] = calls[s] /\ calls[s].caller # t
    BY <1>1, <2>1, CallRow DEF TillInv
  <2>2. CASE calls[s] # NoCall /\ calls'[s] = [calls[s] EXCEPT !.caller = Nobody]
    <3>1. calls[s] \in Calls /\ GoodCall(calls[s]) /\ CallSold(calls[s])
      BY <2>2, CallRow DEF TillInv
    <3> QED BY <2>2, <3>1, AbandonedGood
  <2> QED BY <1>1, <2>1, <2>2
<1>2. Sold => Sold'
  BY DEF Sold
<1>3. ServerInv'
  <2>1. TypeOKServer'
    BY DEF TillInv, ServerInv, TypeOKServer
  <2>2. \A s \in Slots : calls'[s] # NoCall => GoodCall(calls'[s]) /\ CallSold(calls[s])'
    BY <1>1, <1>2 DEF CallSold
  <2> QED BY <2>1, <2>2 DEF TillInv, ServerInv, Sold, GoodKey, Payable
<1>4. DrainInv' /\ \A x \in Tabs : x # t => drain'[x] = drain[x]
  BY <1>2, DrainMoves DEF TillInv
<1>5. Waiting'
  <2>1. ASSUME NEW s \in Slots, calls'[s] # NoCall, calls'[s].caller # Nobody
        PROVE  /\ WaitsFor(drain'[calls'[s].caller], calls'[s])
               /\ \A x \in Slots :
                    calls'[x] # NoCall /\ calls'[x].caller = calls'[s].caller => x = s
    <3>1. calls[s] # NoCall /\ calls'[s] = calls[s] /\ calls[s].caller # t
      BY <1>1, <2>1
    <3>2. calls[s].caller \in Tabs
      BY <2>1, <3>1 DEF TillInv, ServerInv, TypeOKServer, Calls
    <3>3. WaitsFor(drain'[calls'[s].caller], calls'[s])
      BY <1>4, <2>1, <3>1, <3>2 DEF TillInv, Waiting
    <3>4. ASSUME NEW x \in Slots, calls'[x] # NoCall, calls'[x].caller = calls'[s].caller
          PROVE  x = s
      BY <1>1, <2>1, <3>1, <3>4 DEF TillInv, Waiting
    <3> QED BY <3>3, <3>4
  <2> QED BY <2>1 DEF Waiting, WaitsFor
<1> QED BY <1>2, <1>3, <1>4, <1>5

LEMMA LoseConnectionKeeps ==
  ASSUME TillInv, NEW t \in Tabs, NEW s \in Slots, LoseConnection(t, s)
  PROVE  TillInv'
<1>1. /\ calls[s] # NoCall /\ calls[s].caller = t /\ losses < MaxLosses
      /\ losses' = losses + 1
      /\ UNCHANGED <<order, sales, keys, refusals, crashes, screen, doc, queue, nextId,
                     save, timer, fired, told, paidFor, amiss, reloads>>
  BY DEF LoseConnection
<1>2. losses' \in 0..MaxLosses
  BY <1>1, TillAssumption DEF TillInv, TillTypes
<1>3. PICK d : d = drain[t]
  OBVIOUS
<1>4. d # Idle /\ d.at = "wait" /\ WaitsFor(d, calls[s])
  BY <1>1, <1>3, ServerAssumption DEF TillInv, Waiting, WaitsFor
<1>5. d \in Drains /\ GoodDrain(d) /\ CartOps(d.ops)
  BY <1>3, <1>4, DrainTypes DEF TillInv
<1>6. calls \in [Slots -> Calls \cup {NoCall}] /\ calls[s] \in Calls
  BY <1>1, CallRow DEF TillInv, ServerInv, TypeOKServer
<1>7. \A x \in Slots : x # s /\ calls[x] # NoCall => calls[x].caller # t
  BY <1>1, ServerAssumption DEF TillInv, Waiting
<1>8. /\ calls' \in [Slots -> Calls \cup {NoCall}]
      /\ \A x \in Slots :
           \/ calls'[x] = NoCall
           \/ calls'[x] = calls[x] /\ calls[x].caller # t
           \/ calls[x] # NoCall /\ calls'[x] = [calls[x] EXCEPT !.caller = Nobody]
  <2>1. CASE calls' = Freed(s)
    BY <1>6, <1>7, <2>1 DEF Freed
  <2>2. CASE calls' = [calls EXCEPT ![s].caller = Nobody]
    <3>1. [calls[s] EXCEPT !.caller = Nobody] \in Calls
      BY <1>6 DEF Calls
    <3> QED BY <1>1, <1>6, <1>7, <2>2, <3>1
  <2> QED BY <2>1, <2>2 DEF LoseConnection
<1>9. PICK rep : rep = d.report
  OBVIOUS
<1>10. PICK e : e = [d EXCEPT !.at = "fail"]
  OBVIOUS
<1>11. e \in Drains /\ e.at = "fail" /\ e.ops = d.ops /\ e.copy = d.copy
  BY <1>5, <1>10 DEF Drains
<1>12. rep \in {"none", "ok", "failed"}
  BY <1>5, <1>9 DEF Drains
<1>13. CASE Reopening(t)
  <2>1. drain' = [drain EXCEPT ![t] = e] /\ UNCHANGED <<report, ui>>
    BY <1>3, <1>10, <1>13 DEF LoseConnection
  <2>2. calls[s].kind = "reopen"
    BY <1>1, <1>7, <1>13 DEF Reopening
  <2>3. e.ops # <<>>
    BY <1>4, <1>11, <2>2 DEF WaitsFor
  <2>4. GoodDrain(e)
    BY <1>5, <1>11, <2>3, MovedDrain
  <2>5. ServerInv' /\ DrainInv' /\ Waiting' /\ (Sold => Sold')
    <3>1. crashes' \in 0..MaxCrashes
      BY <1>1 DEF TillInv, ServerInv, TypeOKServer
    <3> QED BY <1>1, <1>8, <1>11, <2>1, <2>4, <3>1, CallsAbandoned
  <2>6. TillTypes' /\ SaleKnown'
    BY <1>1, <1>2, <2>1, <2>5, TillStays DEF TillInv, TillTypes
  <2> QED BY <1>1, <2>5, <2>6 DEF TillInv
<1>14. CASE ~Reopening(t)
  <2>1. EndDrain(t, rep)
    BY <1>3, <1>9, <1>14 DEF LoseConnection
  <2>2. /\ drain' = [drain EXCEPT ![t] = Idle]
        /\ ui' \in {"idle", "paying", "flushing", "answer"}
        /\ report' \in [Tabs -> {"none", "ok", "failed"}]
    BY <1>12, <2>1, EndedTypes
  <2>3. ServerInv' /\ DrainInv' /\ Waiting' /\ (Sold => Sold')
    <3>1. crashes' \in 0..MaxCrashes
      BY <1>1 DEF TillInv, ServerInv, TypeOKServer
    <3> QED BY <1>1, <1>8, <2>2, <3>1, CallsAbandoned
  <2>4. TillTypes' /\ SaleKnown'
    BY <1>1, <1>2, <2>2, <2>3, TillStays DEF TillInv, TillTypes
  <2> QED BY <1>1, <2>3, <2>4 DEF TillInv
<1> QED BY <1>13, <1>14

LEMMA CrashServerKeeps ==
  ASSUME TillInv, CrashServer
  PROVE  TillInv'
<1>1. /\ crashes < MaxCrashes /\ crashes' = crashes + 1
      /\ calls' = [s \in Slots |-> NoCall]
      /\ UNCHANGED <<order, sales, keys, refusals, screen, doc, queue, nextId, save, timer,
                     fired, told, paidFor, amiss, losses, reloads>>
  BY DEF CrashServer
<1>2. Sold => Sold'
  BY <1>1 DEF Sold
<1>3. ServerInv'
  <2>1. crashes' \in 0..MaxCrashes
    BY <1>1, ServerAssumption DEF TillInv, ServerInv, TypeOKServer
  <2>2. TypeOKServer'
    BY <1>1, <2>1 DEF TillInv, ServerInv, TypeOKServer
  <2> QED BY <1>1, <2>2 DEF TillInv, ServerInv, Sold, GoodKey, Payable
<1>4. Waiting'
  BY <1>1 DEF Waiting
<1>5. ASSUME NEW t \in Tabs
      PROVE  /\ drain'[t] \in Drains \cup {Idle} /\ (drain'[t] # Idle => GoodDrain(drain'[t]))
             /\ report'[t] \in {"none", "ok", "failed"}
  <2>1. PICK d : d = drain[t]
    OBVIOUS
  <2>2. d \in Drains \cup {Idle} /\ (d # Idle => GoodDrain(d))
    BY <2>1 DEF TillInv, DrainInv
  <2>3. drain'[t] = CASE Reopening(t) -> [d EXCEPT !.at = "fail"]
                      [] Stops(t) -> Idle
                      [] OTHER -> d
    BY <2>1 DEF CrashServer
  <2>4. CASE Reopening(t)
    <3>1. PICK s \in Slots : calls[s] # NoCall /\ calls[s].caller = t /\ calls[s].kind = "reopen"
      BY <2>4 DEF Reopening
    <3>2. d # Idle /\ d.ops # <<>>
      BY <2>1, <3>1, ServerAssumption DEF TillInv, Waiting, WaitsFor
    <3>3. d \in Drains /\ GoodDrain(d) /\ CartOps(d.ops)
      BY <2>2, <3>2 DEF GoodDrain
    <3>4. PICK e : e = [d EXCEPT !.at = "fail"]
      OBVIOUS
    <3>5. e \in Drains /\ e.at = "fail" /\ e.ops = d.ops /\ e.copy = d.copy
      BY <3>3, <3>4 DEF Drains
    <3>6. GoodDrain(e)
      BY <3>2, <3>3, <3>5, MovedDrain
    <3>7. drain'[t] = e /\ ~Stops(t)
      BY <2>3, <2>4, <3>4 DEF Stops
    <3>8. report'[t] = report[t]
      BY <3>7 DEF CrashServer
    <3> QED BY <3>5, <3>6, <3>7, <3>8 DEF TillInv, TillTypes
  <2>5. CASE Stops(t)
    <3>1. ~Reopening(t) /\ d # Idle
      BY <2>1, <2>5 DEF Stops, Waits
    <3>2. drain'[t] = Idle
      BY <2>3, <2>5, <3>1
    <3>3. d.report \in {"none", "ok", "failed"}
      BY <2>2, <3>1 DEF Drains
    <3>4. report'[t] = IF Stops(t) /\ d.report # "none" THEN d.report ELSE report[t]
      BY <2>1 DEF CrashServer
    <3> QED BY <3>2, <3>3, <3>4 DEF TillInv, TillTypes
  <2>6. CASE ~Reopening(t) /\ ~Stops(t)
    <3>1. drain'[t] = d
      BY <2>3, <2>6
    <3>2. report'[t] = report[t]
      BY <2>6 DEF CrashServer
    <3> QED BY <2>2, <3>1, <3>2 DEF TillInv, TillTypes
  <2> QED BY <2>4, <2>5, <2>6
<1>6. DrainInv'
  <2>1. drain' \in [Tabs -> Drains \cup {Idle}]
    <3>1. drain' = [t \in Tabs |-> drain'[t]]
      BY DEF CrashServer
    <3> QED BY <1>5, <3>1
  <2>2. \A t \in Tabs : drain'[t] # Idle => GoodDrain(drain[t])'
    BY <1>2, <1>5 DEF GoodDrain
  <2> QED BY <2>1, <2>2 DEF DrainInv
<1>7. report' \in [Tabs -> {"none", "ok", "failed"}]
  <2>1. report' = [t \in Tabs |-> report'[t]]
    BY DEF CrashServer
  <2> QED BY <1>5, <2>1
<1>8. ui' \in {"idle", "paying", "flushing", "answer"}
  BY DEF CrashServer, TillInv, TillTypes
<1>9. TillTypes' /\ SaleKnown'
  BY <1>1, <1>2, <1>7, <1>8, TillStays DEF TillInv, TillTypes
<1> QED BY <1>1, <1>3, <1>4, <1>6, <1>9 DEF TillInv

LEMMA ReloadKeeps ==
  ASSUME TillInv, Reload
  PROVE  TillInv'
<1>1. /\ reloads < MaxReloads /\ reloads' = reloads + 1
      /\ drain' = [drain EXCEPT ![MainTab] = Idle]
      /\ calls' = [s \in Slots |->
           IF calls[s] # NoCall /\ calls[s].caller = MainTab
           THEN [calls[s] EXCEPT !.caller = Nobody] ELSE calls[s]]
      /\ UNCHANGED <<order, sales, keys, refusals, crashes, doc, queue, nextId, told,
                     paidFor, amiss, losses>>
      /\ save' = NoSave /\ timer' = FALSE /\ fired' = NoCart /\ ui' = "idle"
  BY DEF Reload
<1>2. MainTab \in Tabs
  BY TillAssumption
<1>3. ASSUME NEW s \in Slots
      PROVE  /\ calls'[s] \in Calls \cup {NoCall}
             /\ \/ calls'[s] = NoCall
                \/ calls'[s] = calls[s] /\ calls[s].caller # MainTab
                \/ calls[s] # NoCall /\ calls'[s] = [calls[s] EXCEPT !.caller = Nobody]
  <2>1. PICK c : c = calls[s]
    OBVIOUS
  <2>2. c \in Calls \cup {NoCall}
    BY <2>1 DEF TillInv, ServerInv, TypeOKServer
  <2>3. CASE c # NoCall /\ c.caller = MainTab
    <3>1. calls'[s] = [c EXCEPT !.caller = Nobody]
      BY <1>1, <2>1, <2>3
    <3>2. [c EXCEPT !.caller = Nobody] \in Calls
      BY <2>2, <2>3 DEF Calls
    <3> QED BY <2>1, <2>3, <3>1, <3>2
  <2>4. CASE ~(c # NoCall /\ c.caller = MainTab)
    <3>1. calls'[s] = c
      BY <1>1, <2>1, <2>4
    <3> QED BY <2>1, <2>2, <2>4, <3>1
  <2> QED BY <2>3, <2>4
<1>4. calls' \in [Slots -> Calls \cup {NoCall}]
  BY <1>1, <1>3
<1>5. crashes' \in 0..MaxCrashes
  BY <1>1 DEF TillInv, ServerInv, TypeOKServer
<1>6. ServerInv' /\ DrainInv' /\ Waiting' /\ (Sold => Sold')
  BY <1>1, <1>2, <1>3, <1>4, <1>5, CallsAbandoned
<1>7. screen' \in Snapshots \cup {NoScreen}
  BY SnapshotTypes DEF Reload, TillInv, TillTypes
<1>8. report' \in [Tabs -> {"none", "ok", "failed"}]
  BY DEF Reload, TillInv, TillTypes
<1>9. reloads' \in 0..MaxReloads
  BY <1>1, TillAssumption DEF TillInv, TillTypes
<1>10. TillTypes'
  BY <1>1, <1>7, <1>8, <1>9 DEF TillInv, TillTypes, Saving
<1>11. SaleKnown'
  BY <1>1, <1>6 DEF TillInv, SaleKnown
<1> QED BY <1>1, <1>6, <1>10, <1>11 DEF TillInv

LEMMA ServeKeeps ==
  ASSUME TillInv, NEW s \in Slots, Serve(s)
  PROVE  TillInv'
<1>1. ServerInv' /\ SameCalls /\ (Sold => Sold')
  BY ServerKeeps DEF Serve, TillInv
<1>2. UNCHANGED tillVars
  BY DEF Serve, Forget
<1>3. DrainInv'
  BY <1>1, <1>2, DrainsStay DEF TillInv, tillVars
<1>4. Waiting'
  BY <1>1, <1>2, WaitingStays DEF TillInv, tillVars
<1>5. TillTypes' /\ SaleKnown'
  BY <1>1, <1>2, TillStays DEF TillInv, TillTypes, tillVars
<1> QED BY <1>1, <1>2, <1>3, <1>4, <1>5 DEF TillInv, tillVars

-----------------------------------------------------------------------------
LEMMA TillStarts ==
  ASSUME Init
  PROVE  TillInv
<1>1. ServerInv
  <2>1. TypeOKServer
    BY ServerAssumption DEF Init, InitServer, TypeOKServer, OrderStatuses
  <2>2. sales = <<>> /\ Len(sales) = 0
    BY DEF Init, InitServer
  <2>3. order.status = "none"
    BY DEF Init, InitServer
  <2> QED BY <2>1, <2>2, <2>3 DEF Init, InitServer, ServerInv, GoodKey
<1>2. TillTypes
  <2>1. screen \in Snapshots
    BY DEF Init, NewOrder, Snapshots
  <2>2. losses \in 0..MaxLosses /\ reloads \in 0..MaxReloads
    BY TillAssumption DEF Init
  <2>3. /\ doc = NoDoc /\ save = NoSave /\ timer = FALSE /\ fired = NoCart /\ ui = "idle"
        /\ told = "nothing" /\ paidFor = NoCart /\ amiss = FALSE
        /\ report \in [Tabs -> {"none", "ok", "failed"}]
    BY DEF Init
  <2> QED BY <2>1, <2>2, <2>3 DEF TillTypes, Saving
<1>3. GoodQueue(queue, nextId)
  BY FS_EmptySet DEF Init, GoodQueue
<1>4. DrainInv /\ Waiting
  BY DEF Init, InitServer, DrainInv, Waiting
<1>5. SaleKnown
  BY DEF Init, SaleKnown
<1> QED BY <1>1, <1>2, <1>3, <1>4, <1>5 DEF TillInv

LEMMA TillStep ==
  ASSUME TillInv, [Next]_vars
  PROVE  TillInv'
<1>1. CASE Cashier
  BY <1>1, EditCartKeeps, CheckoutKeeps, HoldOrderKeeps, ResumeOrderKeeps, VoidOrderKeeps
     DEF Cashier
<1>2. CASE Engine
  BY <1>2, SaveCartKeeps, FireDebounceKeeps, AppendUpsertKeeps, TellCashierKeeps DEF Engine
<1>3. ASSUME NEW t \in Tabs, DrainStep(t)
      PROVE  TillInv'
  BY <1>3, StartDrainKeeps, FinishDrainKeeps, SendBatchKeeps, StartCheckoutOpKeeps,
     AckOpKeeps, PutVersionKeeps, FailCheckoutKeeps, ReopenDocKeeps, ReceiveBatchKeeps,
     AfterSubmitKeeps, AfterSaleKeeps, AfterReopenKeeps, AfterCompleteKeeps DEF DrainStep
<1>4. CASE Failure
  BY <1>4, LoseConnectionKeeps, CrashServerKeeps, ReloadKeeps DEF Failure
<1>5. ASSUME NEW s \in Slots, Serve(s)
      PROVE  TillInv'
  BY <1>5, ServeKeeps
<1>6. CASE UNCHANGED vars
  BY <1>6, LocalStep DEF TillInv, vars, tillVars, TillTypes, SaleKnown, Saving,
                         Sold, serverVars
<1> QED BY <1>1, <1>2, <1>3, <1>4, <1>5, <1>6 DEF Next

\* The invariant behind the theorems below: what the till, its drains, the
\* calls and the server know of each other.
THEOREM TillInvHolds == Spec => []TillInv
<1>1. Init => TillInv
  BY TillStarts
<1>2. TillInv /\ [Next]_vars => TillInv'
  BY TillStep
<1> QED BY <1>1, <1>2, PTL DEF Spec

\* Every variable keeps its type, whatever the cashier, the drains, the
\* server and the network do (offline.ts, pos-v2.js, idempotencyStore.js).
THEOREM TillTypeCorrect == Spec => []TypeOK
<1>1. TillInv => TypeOK
  BY DEF TillInv, TillTypes, DrainInv, ServerInv, GoodQueue, TypeOK
<1> QED BY <1>1, TillInvHolds, PTL

\* The ordering barrier holds for every number of tabs, ops and calls: an
\* order never has an upsert queued behind its checkout, nor two checkouts
\* (atomicAppend, offline.ts:705-759).
THEOREM BarrierHolds == Spec => []QueueIsOrdered
<1>1. TillInv => QueueIsOrdered
  BY DEF TillInv, GoodQueue, QueueIsOrdered
<1> QED BY <1>1, TillInvHolds, PTL

\* An order is sold at most once, and whatever is called completed was
\* sold, through any number of retries, duplicate drains, lost answers and
\* stops of the server (drainQueue, idempotencyStore, POST /api/sales).
THEOREM SoldAtMostOnce == Spec => []SoldOnce
<1>1. TillInv => SoldOnce
  BY DEF TillInv, SaleKnown, ServerInv, Sold, SoldOnce
<1> QED BY <1>1, TillInvHolds, PTL

-----------------------------------------------------------------------------
(* What a drain has ahead, in the order of the ids.                         *)

Increasing(ops) == \A i, j \in 1..Len(ops) : i < j => ops[i].id < ops[j].id
Below(ops, id)  == \A n \in 1..Len(ops) : ops[n].id < id
Has(ops, o)     == \E n \in 1..Len(ops) : ops[n] = o

\* The order of a queue by seq: all of its ops, by id.
LEMMA BySeqOrdered ==
  ASSUME NEW q, NEW next, GoodQueue(q, next)
  PROVE  /\ Increasing(BySeq(q)) /\ \A o \in q : Has(BySeq(q), o)
         /\ BySeq(q) \in Seq(Ops) /\ \A n \in 1..Len(BySeq(q)) : BySeq(q)[n] \in q
<1> DEFINE Earlier(o) == {p \in q : p.id < o.id}
           size  == Cardinality(q)
           ops   == BySeq(q)
<1>1. IsFiniteSet(q) /\ q \subseteq Ops /\ \A o \in q : o.id \in Nat
  BY ServerAssumption DEF GoodQueue, Ops
<1>2. /\ ops \in Seq(Ops) /\ \A n \in 1..Len(ops) : ops[n] \in q
  BY BySeqOfQueue
<1>3. size \in Nat
  BY <1>1, FS_CardinalityType
<1>4. ops = [n \in 1..size |-> CHOOSE o \in q : Cardinality(Earlier(o)) = n - 1]
  BY DEF BySeq
<1>5. Len(ops) = size
  <2>1. DOMAIN ops = 1..size
    BY <1>4
  <2> HIDE DEF ops
  <2> QED BY <1>2, <1>3, <2>1, LenProperties
<1>6. ASSUME NEW o \in q
      PROVE  IsFiniteSet(Earlier(o)) /\ Cardinality(Earlier(o)) \in 0..(size - 1)
  <2>1. Earlier(o) \in SUBSET q
    OBVIOUS
  <2>2. IsFiniteSet(Earlier(o)) /\ Cardinality(Earlier(o)) <= size
    BY <1>1, <2>1, FS_Subset
  <2>3. Earlier(o) # q
    BY <1>1
  <2>4. Cardinality(Earlier(o)) # size
    BY <1>1, <2>1, <2>3, FS_Subset
  <2>5. Cardinality(Earlier(o)) \in Nat
    BY <2>2, FS_CardinalityType
  <2> QED BY <1>3, <2>2, <2>4, <2>5
<1>6a. ASSUME NEW o \in q PROVE Cardinality(Earlier(o)) \in Nat
  <2>1. Cardinality(Earlier(o)) \in 0..(size - 1)
    BY <1>6
  <2> HIDE DEF Earlier, size
  <2> QED BY <1>3, <2>1
<1>7. ASSUME NEW o \in q, NEW p \in q, o.id < p.id
      PROVE  Cardinality(Earlier(o)) < Cardinality(Earlier(p))
  <2>1. Earlier(o) \in SUBSET Earlier(p) /\ Earlier(o) # Earlier(p)
    BY <1>1, <1>7
  <2>2. /\ Cardinality(Earlier(o)) <= Cardinality(Earlier(p))
        /\ Cardinality(Earlier(o)) # Cardinality(Earlier(p))
    BY <1>6, <2>1, FS_Subset
  <2>3. Cardinality(Earlier(o)) \in Nat /\ Cardinality(Earlier(p)) \in Nat
    BY <1>6a
  <2> QED BY <2>2, <2>3
<1>8. ASSUME NEW n \in 1..size
      PROVE  ops[n] \in q /\ Cardinality(Earlier(ops[n])) = n - 1
  <2>1. \E o \in q : Cardinality(Earlier(o)) = n - 1
    <3> DEFINE rank == [o \in q |-> Cardinality(Earlier(o))]
    <3>1. rank \in [q -> 0..(size - 1)]
      BY <1>6
    <3>2. \A o, p \in q : o # p => rank[o] # rank[p]
      <4>1. ASSUME NEW o \in q, NEW p \in q, o # p PROVE rank[o] # rank[p]
        <5>1. o.id < p.id \/ p.id < o.id
          BY <1>1, <4>1 DEF GoodQueue
        <5>2. rank[o] \in Nat /\ rank[p] \in Nat
          BY <1>6a
        <5>3. rank[o] < rank[p] \/ rank[p] < rank[o]
          BY <1>7, <5>1
        <5> QED BY <5>2, <5>3
      <4> QED BY <4>1
    <3>3. IsFiniteSet(0..(size - 1)) /\ Cardinality(0..(size - 1)) = size
      <4> HIDE DEF size
      <4> QED BY <1>3, FS_Interval
    <3>4. rank \in Surjection(q, 0..(size - 1))
      <4> HIDE DEF rank
      <4>1. rank \in Injection(q, 0..(size - 1))
        BY <3>1, <3>2 DEF Injection, IsInjective
      <4> QED BY <1>1, <3>3, <4>1, FS_Injection
    <3>5. n - 1 \in 0..(size - 1)
      BY <1>3
    <3>6. PICK o \in q : rank[o] = n - 1
      BY <3>4, <3>5 DEF Surjection
    <3> QED BY <3>6
  <2>2. ops[n] = CHOOSE o \in q : Cardinality(Earlier(o)) = n - 1
    BY <1>4
  <2> HIDE DEF Earlier
  <2> QED BY <2>1, <2>2
<1> HIDE DEF ops, Earlier
<1>9. Increasing(ops)
  <2>1. ASSUME NEW i \in 1..size, NEW j \in 1..size, i < j
        PROVE  ops[i].id < ops[j].id
    <3>1. /\ ops[i] \in q /\ Cardinality(Earlier(ops[i])) = i - 1
          /\ ops[j] \in q /\ Cardinality(Earlier(ops[j])) = j - 1
      BY <1>8
    <3>2. ops[i] # ops[j]
      BY <1>3, <2>1, <3>1
    <3>3. ops[i].id \in Nat /\ ops[j].id \in Nat
      BY <1>1, <3>1
    <3>4. ops[i].id # ops[j].id
      BY <3>1, <3>2 DEF GoodQueue
    <3>5. ~(ops[j].id < ops[i].id)
      BY <1>3, <1>7, <2>1, <3>1
    <3> QED BY <3>3, <3>4, <3>5
  <2> QED BY <1>5, <2>1 DEF Increasing
<1>10. ASSUME NEW o \in q PROVE Has(ops, o)
  <2>1. PICK n \in 1..size : n = Cardinality(Earlier(o)) + 1
    BY <1>3, <1>6
  <2>2. ops[n] \in q /\ Cardinality(Earlier(ops[n])) = Cardinality(Earlier(o))
    BY <1>3, <1>6, <1>8, <2>1
  <2>3. ~(ops[n].id < o.id) /\ ~(o.id < ops[n].id)
    BY <1>6, <1>7, <1>3, <2>2
  <2>4. ops[n].id \in Nat /\ o.id \in Nat
    BY <1>1, <2>2
  <2>5. ops[n].id = o.id
    BY <2>3, <2>4
  <2>6. ops[n] = o
    BY <2>2, <2>5 DEF GoodQueue
  <2> QED BY <1>5, <2>1, <2>6 DEF Has
<1> QED BY <1>2, <1>9, <1>10 DEF ops

\* A batch is the ops before the first checkout, in their order.
LEMMA NextBatchIsFirst ==
  ASSUME NEW ops, CartOps(ops), ops # <<>>, Head(ops).type # "checkout"
  PROVE  LET batch == NextBatch(ops)
         IN  /\ batch \in Seq(Ops) /\ Len(batch) \in 1..Len(ops)
             /\ \A n \in 1..Len(batch) : batch[n] = ops[n] /\ ops[n].type # "checkout"
             /\ Len(batch) < Len(ops) => ops[Len(batch) + 1].type = "checkout"
<1> DEFINE checkouts == {n \in DOMAIN ops : ops[n].type = "checkout"}
           least == CHOOSE n \in checkouts : \A m \in checkouts : n <= m
           size  == IF checkouts = {} THEN Len(ops) ELSE least - 1
           batch == NextBatch(ops)
<1>1. ops \in Seq(Ops) /\ Len(ops) \in Nat /\ DOMAIN ops = 1..Len(ops)
  BY DEF CartOps
<1>2. /\ batch \in Seq(Ops) /\ Len(batch) \in 1..Len(ops)
      /\ \A n \in 1..Len(batch) : batch[n].type # "checkout"
  BY NextBatchOfOps
<1>3. batch = SubSeq(ops, 1, size)
  BY DEF NextBatch
<1>4. checkouts # {} => least \in checkouts
  <2>1. ASSUME checkouts # {}
        PROVE  \E n \in checkouts : \A m \in checkouts : n <= m
    <3>1. PICK k \in checkouts : TRUE
      BY <2>1
    <3>2. IsFiniteSet(checkouts) /\ checkouts \subseteq Nat
      <4>1. checkouts \in SUBSET (1..Len(ops))
        BY <1>1
      <4>2. IsFiniteSet(1..Len(ops))
        BY <1>1, FS_Interval
      <4> QED BY <1>1, <4>1, <4>2, FS_Subset
    <3>3. PICK below : below = {ss \in Nat \X Nat : ss[1] < ss[2]}
      OBVIOUS
    <3>4. IsWellFoundedOn(below, Nat)
      BY <3>3, NatLessThanWellFounded DEF OpToRel
    <3> HIDE DEF checkouts
    <3>5. PICK n \in checkouts : \A m \in checkouts : <<m, n>> \notin below
      BY <2>1, <3>2, <3>4, WFMin
    <3>6. ASSUME NEW m \in checkouts PROVE n <= m
      <4>1. m \in Nat /\ n \in Nat
        BY <3>2
      <4>2. ~ m < n
        <5>1. <<m, n>> \notin {ss \in Nat \X Nat : ss[1] < ss[2]}
          BY <3>3, <3>5
        <5> QED BY <4>1, <5>1
      <4> QED BY <4>1, <4>2
    <3> QED BY <3>6
  <2> HIDE DEF checkouts
  <2> QED BY <2>1
<1>5. size \in 0..Len(ops)
  <2>1. CASE checkouts = {}
    BY <1>1, <2>1
  <2>2. CASE checkouts # {}
    <3>1. least \in 1..Len(ops)
      BY <1>1, <1>4, <2>2
    <3> HIDE DEF least, checkouts
    <3> QED BY <1>1, <2>2, <3>1
  <2> QED BY <2>1, <2>2
<1>6. checkouts # {} => least \in 1..Len(ops) /\ ops[least].type = "checkout"
  <2> HIDE DEF least
  <2> QED BY <1>1, <1>4
<1>7. size < Len(ops) => ops[size + 1].type = "checkout"
  <2>1. CASE checkouts = {}
    BY <1>1, <2>1
  <2>2. CASE checkouts # {}
    <3> HIDE DEF least, checkouts
    <3> QED BY <1>1, <1>6, <2>2
  <2> QED BY <2>1, <2>2
<1> HIDE DEF size, batch
<1>8. Len(batch) = size /\ \A n \in 1..size : batch[n] = ops[n]
  BY <1>1, <1>3, <1>5
<1> QED BY <1>2, <1>7, <1>8 DEF batch

\* What a drain has ahead: its batch and then its ops, by id; at most one of
\* them is a checkout, and no upsert follows it.
Sorted(d) ==
  /\ Increasing(d.batch) /\ Increasing(d.ops)
  /\ \A n \in 1..Len(d.ops) : Below(d.batch, d.ops[n].id)
  /\ \A n \in 1..Len(d.batch) : d.batch[n].type # "checkout"
  /\ \A i, j \in 1..Len(d.ops) :
       i < j /\ d.ops[i].type = "checkout" => d.ops[j].type \notin {"upsert", "checkout"}
  /\ d.at # "walk" /\ d.ops # <<>> => d.ops[1].type = "checkout"
  /\ d.at \in {"walk", "fail", "reopen"} => d.batch = <<>>
  /\ d.at = "put" => d.copy # NoDoc

\* A checkout ahead is in the queue until it has failed.
Pending(d, q) ==
  /\ \A n \in 1..Len(d.ops) :
       d.ops[n].type = "checkout" => d.ops[n] \in q \/ (d.at = "reopen" /\ n = 1)
  /\ d.at = "reopen" => d.ops[1] \notin q

\* Whatever is queued is ahead, or was appended after the drain started; a
\* checkout in one with its final upsert.
Covered(d, q) ==
  /\ \A o \in q : Has(d.ops, o) \/ Has(d.batch, o)
                    \/ (Below(d.ops, o.id) /\ Below(d.batch, o.id))
  /\ \A o \in q :
       /\ o.type = "checkout"
       /\ \/ \E n \in 1..Len(d.ops) : d.ops[n].id = o.id - 1
          \/ \E n \in 1..Len(d.batch) : d.batch[n].id = o.id - 1
       => Has(d.ops, o)

Lane(d, q, next) ==
  /\ Sorted(d) /\ Below(d.batch, next) /\ Below(d.ops, next)
  /\ Pending(d, q) /\ Covered(d, q)

\* Types of a drain and its queue.
LaneTypes(d, q, next) ==
  /\ GoodQueue(q, next) /\ CartOps(d.ops) /\ d.batch \in Seq(Ops)
  /\ d.at \in {"fail", "reopen"} => d.ops # <<>>

LEMMA LaneIds ==
  ASSUME NEW d, NEW q, NEW next, LaneTypes(d, q, next)
  PROVE  /\ next \in Nat /\ Len(d.ops) \in Nat /\ Len(d.batch) \in Nat
         /\ \A n \in 1..Len(d.ops) : d.ops[n] \in Ops /\ d.ops[n].id \in Nat
         /\ \A n \in 1..Len(d.batch) : d.batch[n] \in Ops /\ d.batch[n].id \in Nat
         /\ \A o \in q : o \in Ops /\ o.id \in Nat /\ o.id < next
         /\ \A o, p \in q : o.id = p.id => o = p
         /\ \A o, p \in q : o.type = "checkout" /\ p.type = "checkout" => o = p
         /\ d.ops \in Seq(Ops)
<1>1. \A o \in Ops : o.id \in Nat
  BY ServerAssumption DEF Ops
<1>2. /\ d.ops \in Seq(Ops) /\ d.batch \in Seq(Ops) /\ q \subseteq Ops
      /\ Len(d.ops) \in Nat /\ Len(d.batch) \in Nat
  BY DEF LaneTypes, CartOps, GoodQueue
<1>3. /\ \A n \in 1..Len(d.ops) : d.ops[n] \in Ops
      /\ \A n \in 1..Len(d.batch) : d.batch[n] \in Ops
  BY <1>2
<1>4. ASSUME NEW o \in q, NEW p \in q, o.type = "checkout", p.type = "checkout"
      PROVE  o = p
  <2>1. o.id \in Nat /\ p.id \in Nat
    BY <1>1, <1>2
  <2>2. o.id = p.id
    BY <1>4, <2>1 DEF LaneTypes, GoodQueue
  <2> QED BY <2>2 DEF LaneTypes, GoodQueue
<1> QED BY <1>1, <1>2, <1>3, <1>4 DEF LaneTypes, GoodQueue

\* The queued checkout is first among the ops of a drain that does not walk,
\* if it is among them at all.
LEMMA CheckoutAhead ==
  ASSUME NEW d, NEW q, NEW next, LaneTypes(d, q, next), Lane(d, q, next),
         NEW o \in q, o.type = "checkout"
  PROVE  /\ d.ops # <<>> /\ d.ops[1].type = "checkout" /\ d.at # "reopen" => d.ops[1] = o
         /\ Has(d.ops, o) /\ d.at # "walk" => d.ops # <<>> /\ d.ops[1] = o
         /\ Has(d.ops, o) /\ d.ops[1].type = "checkout" => d.ops # <<>> /\ d.ops[1] = o
         /\ d.at = "reopen" => ~Has(d.ops, o)
         /\ d.ops # <<>> /\ d.ops[1] = o /\ d.batch = <<>> => \A p \in q : p.id >= o.id
<1>1. /\ Len(d.ops) \in Nat /\ d.ops \in Seq(Ops)
      /\ \A x, y \in q : x.type = "checkout" /\ y.type = "checkout" => x = y
      /\ \A n \in 1..Len(d.ops) : d.ops[n].id \in Nat
      /\ \A x \in q : x.id \in Nat
  BY LaneIds
<1>2. d.ops # <<>> => 1 \in 1..Len(d.ops)
  BY <1>1, EmptySeq
<1>3. ASSUME d.ops # <<>>, d.ops[1].type = "checkout", d.at # "reopen" PROVE d.ops[1] = o
  BY <1>1, <1>2, <1>3 DEF Lane, Pending
<1>4. ASSUME Has(d.ops, o), d.ops[1].type = "checkout" PROVE d.ops # <<>> /\ d.ops[1] = o
  <2>1. PICK n \in 1..Len(d.ops) : d.ops[n] = o
    BY <1>4 DEF Has
  <2>2. Len(d.ops) # 0
    BY <1>1, <2>1
  <2>3. d.ops # <<>>
    BY <1>1, <2>2, EmptySeq
  <2>4. CASE n = 1
    BY <2>1, <2>3, <2>4
  <2>5. CASE n # 1
    <3>1. 1 < n /\ 1 \in 1..Len(d.ops)
      BY <1>1, <2>1, <2>5
    <3> QED BY <1>4, <2>1, <3>1 DEF Lane, Sorted
  <2> QED BY <2>4, <2>5
<1>5. ASSUME Has(d.ops, o), d.at # "walk" PROVE d.ops # <<>> /\ d.ops[1].type = "checkout"
  <2>1. d.ops # <<>>
    BY <1>1, <1>5, EmptySeq DEF Has
  <2> QED BY <1>5, <2>1 DEF Lane, Sorted
<1>6. ASSUME d.at = "reopen" PROVE ~Has(d.ops, o)
  <2>1. d.ops[1].type = "checkout" /\ d.ops[1] # o
    BY <1>6 DEF Lane, Sorted, Pending, LaneTypes
  <2> QED BY <1>4, <2>1
<1>7. ASSUME d.ops # <<>>, d.ops[1] = o, d.batch = <<>>, NEW p \in q PROVE p.id >= o.id
  <2>1. CASE Has(d.ops, p)
    <3>1. PICK n \in 1..Len(d.ops) : d.ops[n] = p
      BY <2>1 DEF Has
    <3>2. n = 1 \/ d.ops[1].id < d.ops[n].id
      BY <1>2, <1>7, <3>1, <1>1 DEF Lane, Sorted, Increasing
    <3> QED BY <1>1, <1>7, <3>1, <3>2
  <2>2. CASE Has(d.batch, p)
    BY <1>7, <2>2, EmptySeq DEF Has
  <2>3. CASE Below(d.ops, p.id)
    <3>1. d.ops[1].id < p.id
      BY <1>2, <1>7, <2>3 DEF Below
    <3> QED BY <1>1, <1>7, <3>1
  <2> QED BY <2>1, <2>2, <2>3 DEF Lane, Covered
<1> QED BY <1>3, <1>4, <1>5, <1>6, <1>7

LEMMA LaneStarts ==
  ASSUME NEW d, NEW q, NEW next, LaneTypes(d, q, next),
         d.ops = BySeq(q), d.batch = <<>>, d.at = "walk"
  PROVE  Lane(d, q, next)
<1>1. /\ Increasing(d.ops) /\ \A o \in q : Has(d.ops, o)
      /\ \A n \in 1..Len(d.ops) : d.ops[n] \in q
  BY BySeqOrdered DEF LaneTypes
<1>2. Len(d.batch) = 0
  BY EmptySeq
<1>3. \A i, j \in 1..Len(d.ops) :
        i < j /\ d.ops[i].type = "checkout" => d.ops[j].type \notin {"upsert", "checkout"}
  BY <1>1 DEF Increasing, LaneTypes, GoodQueue
<1>4. Sorted(d)
  BY <1>1, <1>2, <1>3 DEF Sorted, Increasing, Below
<1>5. Below(d.batch, next) /\ Below(d.ops, next)
  BY <1>1, <1>2, LaneIds DEF Below
<1> QED BY <1>1, <1>4, <1>5 DEF Lane, Pending, Covered

\* What is appended is new, and a checkout has its final upsert before it.
LEMMA LaneGrows ==
  ASSUME NEW d, NEW q, NEW next, LaneTypes(d, q, next), Lane(d, q, next),
         NEW r, NEW last \in Nat, next <= last,
         \A o \in r : o \in q \/ (o.id \in Nat /\ o.id >= next
                                  /\ (o.type = "checkout" => o.id > next)),
         \A o \in q : o.type = "checkout" => o \in r
  PROVE  Lane(d, r, last)
<1>1. /\ next \in Nat /\ \A n \in 1..Len(d.ops) : d.ops[n].id \in Nat
      /\ \A n \in 1..Len(d.batch) : d.batch[n].id \in Nat
      /\ \A o \in q : o.id \in Nat /\ o.id < next
  BY LaneIds
<1>2. /\ \A n \in 1..Len(d.ops) : d.ops[n].id < next
      /\ \A n \in 1..Len(d.batch) : d.batch[n].id < next
  BY DEF Lane, Below
<1>3. Below(d.batch, last) /\ Below(d.ops, last)
  BY <1>1, <1>2 DEF Below
<1>4. Pending(d, r)
  <2>1. ASSUME d.at = "reopen" PROVE d.ops[1] \notin r
    <3>1. d.ops[1] \notin q /\ 1 \in 1..Len(d.ops)
      BY <2>1, EmptySeq, LaneIds DEF Lane, Pending, LaneTypes
    <3> QED BY <1>1, <1>2, <3>1
  <2> QED BY <2>1 DEF Lane, Pending
<1>5. Covered(d, r)
  <2>1. ASSUME NEW o \in r
        PROVE  Has(d.ops, o) \/ Has(d.batch, o) \/ (Below(d.ops, o.id) /\ Below(d.batch, o.id))
    <3>1. CASE o \in q
      BY <3>1 DEF Lane, Covered
    <3>2. CASE o \notin q
      BY <1>1, <1>2, <3>2 DEF Below
    <3> QED BY <3>1, <3>2
  <2>2. ASSUME NEW o \in r, o.type = "checkout",
               \/ \E n \in 1..Len(d.ops) : d.ops[n].id = o.id - 1
               \/ \E n \in 1..Len(d.batch) : d.batch[n].id = o.id - 1
        PROVE  Has(d.ops, o)
    <3>1. CASE o \in q
      BY <2>2, <3>1 DEF Lane, Covered
    <3>2. CASE o \notin q
      <4>1. o.id \in Nat /\ o.id - 1 >= next
        BY <1>1, <2>2, <3>2
      <4>2. ASSUME NEW n \in 1..Len(d.ops), d.ops[n].id = o.id - 1 PROVE FALSE
        BY <1>1, <1>2, <4>1, <4>2
      <4>3. ASSUME NEW n \in 1..Len(d.batch), d.batch[n].id = o.id - 1 PROVE FALSE
        BY <1>1, <1>2, <4>1, <4>3
      <4> QED BY <2>2, <4>2, <4>3
    <3> QED BY <3>1, <3>2
  <2> QED BY <2>1, <2>2 DEF Covered
<1> QED BY <1>3, <1>4, <1>5 DEF Lane

\* The next batch is taken from the ops.
LEMMA LaneSends ==
  ASSUME NEW d, NEW q, NEW next, LaneTypes(d, q, next), Lane(d, q, next),
         d.at = "walk", d.ops # <<>>, Head(d.ops).type # "checkout",
         NEW e, e.at = "wait", e.batch = NextBatch(d.ops),
         e.ops = SubSeq(d.ops, Len(e.batch) + 1, Len(d.ops))
  PROVE  Lane(e, q, next)
<1>1. PICK size : size = Len(e.batch)
  OBVIOUS
<1>2. /\ e.batch \in Seq(Ops) /\ size \in 1..Len(d.ops)
      /\ \A n \in 1..size : e.batch[n] = d.ops[n] /\ e.batch[n].type # "checkout"
      /\ size < Len(d.ops) => d.ops[size + 1].type = "checkout"
  BY <1>1, NextBatchIsFirst DEF LaneTypes
<1>3. d.ops \in Seq(Ops) /\ Len(d.ops) \in Nat /\ size \in Nat
  BY <1>2, LaneIds
<1>4. PICK m \in Nat : m = Len(d.ops) - size
  <2>1. size <= Len(d.ops)
    BY <1>2, <1>3
  <2>2. Len(d.ops) - size \in Nat
    BY <1>3, <2>1
  <2> QED BY <2>2
<1>5. /\ Len(e.ops) = m /\ e.ops \in Seq(Ops)
      /\ \A n \in 1..m : e.ops[n] = d.ops[n + size] /\ n + size \in 1..Len(d.ops)
  <2>1. e.ops = SubSeq(d.ops, size + 1, Len(d.ops))
    BY <1>1
  <2>2. PICK ops : ops = d.ops
    OBVIOUS
  <2>3. /\ Len(SubSeq(ops, size + 1, Len(ops))) = m
        /\ SubSeq(ops, size + 1, Len(ops)) \in Seq(Ops)
        /\ \A n \in 1..m : SubSeq(ops, size + 1, Len(ops))[n] = ops[n + size]
    BY <1>3, <1>4, <2>2
  <2>4. \A n \in 1..m : n + size \in 1..Len(d.ops)
    BY <1>3, <1>4
  <2> QED BY <2>1, <2>2, <2>3, <2>4
<1>6. ASSUME NEW i \in 1..Len(d.ops), NEW j \in 1..Len(d.ops), i < j
      PROVE  d.ops[i].id < d.ops[j].id
  BY <1>6 DEF Lane, Sorted, Increasing
<1>7. Increasing(e.batch)
  BY <1>1, <1>2, <1>3, <1>6 DEF Increasing
<1>8. Increasing(e.ops)
  <2>1. ASSUME NEW i \in 1..m, NEW j \in 1..m, i < j PROVE e.ops[i].id < e.ops[j].id
    <3>1. /\ i + size \in 1..Len(d.ops) /\ j + size \in 1..Len(d.ops)
          /\ e.ops[i] = d.ops[i + size] /\ e.ops[j] = d.ops[j + size]
      BY <1>5
    <3>2. i + size < j + size
      BY <1>3, <1>4, <2>1
    <3> QED BY <1>6, <3>1, <3>2
  <2> QED BY <1>5, <2>1 DEF Increasing
<1>9. \A n \in 1..Len(e.ops) : Below(e.batch, e.ops[n].id)
  <2>1. ASSUME NEW n \in 1..m, NEW k \in 1..size PROVE e.batch[k].id < e.ops[n].id
    <3>1. n + size \in 1..Len(d.ops) /\ e.ops[n] = d.ops[n + size]
      BY <1>5
    <3>2. PICK max \in Nat : max = Len(d.ops)
      BY <1>3
    <3>3. size \in 1..max
      BY <1>2, <3>2
    <3>4. k \in 1..max /\ k < n + size
      BY <1>3, <1>4, <3>2, <3>3
    <3>5. e.batch[k] = d.ops[k]
      BY <1>2
    <3> QED BY <1>6, <3>1, <3>2, <3>4, <3>5
  <2> QED BY <1>1, <1>5, <2>1 DEF Below
<1>10. \A i, j \in 1..Len(e.ops) :
         i < j /\ e.ops[i].type = "checkout" => e.ops[j].type \notin {"upsert", "checkout"}
  <2>1. ASSUME NEW i \in 1..m, NEW j \in 1..m, i < j, e.ops[i].type = "checkout"
        PROVE  e.ops[j].type \notin {"upsert", "checkout"}
    <3>1. /\ i + size \in 1..Len(d.ops) /\ j + size \in 1..Len(d.ops)
          /\ e.ops[i] = d.ops[i + size] /\ e.ops[j] = d.ops[j + size]
      BY <1>5
    <3>2. i + size < j + size
      BY <1>3, <1>4, <2>1
    <3> QED BY <2>1, <3>1, <3>2 DEF Lane, Sorted
  <2> QED BY <1>5, <2>1
<1>11. e.ops # <<>> => e.ops[1].type = "checkout"
  <2>1. ASSUME e.ops # <<>> PROVE e.ops[1].type = "checkout"
    <3>1. m # 0
      BY <1>5, <2>1, EmptySeq
    <3>2. 1 \in 1..m /\ size < Len(d.ops)
      BY <1>3, <1>4, <3>1
    <3>3. 1 + size = size + 1 /\ e.ops[1] = d.ops[1 + size]
      BY <1>3, <1>5, <3>2
    <3> QED BY <1>2, <3>2, <3>3
  <2> QED BY <2>1
<1>12. Sorted(e)
  BY <1>1, <1>2, <1>7, <1>8, <1>9, <1>10, <1>11 DEF Sorted
<1>13. Below(e.batch, next) /\ Below(e.ops, next)
  <2>1. \A n \in 1..Len(d.ops) : d.ops[n].id < next
    BY DEF Lane, Below
  <2>2. \A n \in 1..size : n \in 1..Len(d.ops)
    BY <1>2, <1>3
  <2> QED BY <1>1, <1>2, <1>5, <2>1, <2>2 DEF Below
<1>14. Pending(e, q)
  BY <1>5 DEF Lane, Pending
<1>15. ASSUME NEW n \in 1..Len(d.ops)
       PROVE  Has(e.batch, d.ops[n]) \/ Has(e.ops, d.ops[n])
  <2>1. CASE n \in 1..size
    BY <1>1, <1>2, <2>1 DEF Has
  <2>2. CASE n \notin 1..size
    <3>1. n - size \in 1..m /\ (n - size) + size = n
      BY <1>3, <1>4, <2>2
    <3> QED BY <1>5, <3>1 DEF Has
  <2> QED BY <2>1, <2>2
<1>16. Covered(e, q)
  <2>1. ASSUME NEW o \in q
        PROVE  Has(e.ops, o) \/ Has(e.batch, o) \/ (Below(e.ops, o.id) /\ Below(e.batch, o.id))
    <3>1. CASE Has(d.ops, o)
      BY <1>15, <3>1 DEF Has
    <3>2. CASE Has(d.batch, o)
      BY <3>2, EmptySeq DEF Has, Lane, Sorted
    <3>3. CASE Below(d.ops, o.id)
      <4>1. \A n \in 1..size : n \in 1..Len(d.ops)
        BY <1>2, <1>3
      <4> QED BY <1>1, <1>2, <1>5, <3>3, <4>1 DEF Below
    <3> QED BY <3>1, <3>2, <3>3 DEF Lane, Covered
  <2>2. ASSUME NEW o \in q, o.type = "checkout",
               \/ \E n \in 1..Len(e.ops) : e.ops[n].id = o.id - 1
               \/ \E n \in 1..Len(e.batch) : e.batch[n].id = o.id - 1
        PROVE  Has(e.ops, o)
    <3>1. \E n \in 1..Len(d.ops) : d.ops[n].id = o.id - 1
      <4>1. \A n \in 1..size : n \in 1..Len(d.ops)
        BY <1>2, <1>3
      <4> QED BY <1>1, <1>2, <1>5, <2>2, <4>1
    <3>2. Has(d.ops, o)
      BY <2>2, <3>1 DEF Lane, Covered
    <3>3. Has(e.ops, o) \/ Has(e.batch, o)
      BY <1>15, <3>2 DEF Has
    <3> QED BY <1>1, <1>2, <2>2, <3>3 DEF Has
  <2> QED BY <2>1, <2>2 DEF Covered
<1> QED BY <1>12, <1>13, <1>14, <1>16 DEF Lane

\* A drain that goes on with the same ops and the same queue.
LEMMA LaneMoves ==
  ASSUME NEW d, NEW q, NEW next, LaneTypes(d, q, next), Lane(d, q, next),
         NEW e, e.ops = d.ops, e.batch = d.batch, d.at # "reopen", e.at # "reopen",
         e.at # "walk" /\ d.ops # <<>> => d.ops[1].type = "checkout",
         e.at \in {"walk", "fail"} => d.batch = <<>>,
         e.at = "put" => e.copy # NoDoc
  PROVE  Lane(e, q, next)
<1>1. Sorted(e)
  BY DEF Lane, Sorted
<1>2. Pending(e, q) /\ Covered(e, q)
  BY DEF Lane, Pending, Covered
<1> QED BY <1>1, <1>2 DEF Lane

\* A failed checkout leaves the queue.
LEMMA LaneFails ==
  ASSUME NEW d, NEW q, NEW next, LaneTypes(d, q, next), Lane(d, q, next),
         d.at = "fail",
         NEW e, e.ops = d.ops, e.batch = d.batch, e.at = "reopen"
  PROVE  Lane(e, {o \in q : o.id # d.ops[1].id}, next)
<1>1. d.ops # <<>> /\ d.batch = <<>> /\ d.ops[1].type = "checkout"
  BY DEF LaneTypes, Lane, Sorted
<1>2. Sorted(e)
  BY <1>1 DEF Lane, Sorted
<1>3. 1 \in 1..Len(d.ops)
  BY <1>1, LaneIds, EmptySeq
<1>4. ASSUME NEW n \in 1..Len(d.ops), d.ops[n].type = "checkout" PROVE n = 1
  <2>1. n # 1 => 1 < n
    BY LaneIds
  <2> QED BY <1>1, <1>3, <1>4, <2>1 DEF Lane, Sorted
<1>5. Pending(e, {o \in q : o.id # d.ops[1].id})
  BY <1>4 DEF Pending
<1>6. Covered(e, {o \in q : o.id # d.ops[1].id})
  BY DEF Lane, Covered
<1> QED BY <1>2, <1>5, <1>6 DEF Lane

\* An op of a batch has its answer and leaves the queue.
LEMMA LaneAcks ==
  ASSUME NEW d, NEW q, NEW next, LaneTypes(d, q, next), Lane(d, q, next),
         d.at = "ack", d.batch # <<>>,
         NEW e, e.ops = d.ops, e.batch = Tail(d.batch), e.at \in {"walk", "ack", "put"},
         e.at = "walk" => e.batch = <<>>,
         e.at = "put" => e.copy # NoDoc
  PROVE  Lane(e, {o \in q : o.id # Head(d.batch).id}, next)
<1> DEFINE r == {o \in q : o.id # Head(d.batch).id}
<1>1. PICK m \in Nat : Len(d.batch) = m + 1
  <2>1. Len(d.batch) \in Nat /\ Len(d.batch) # 0
    BY EmptySeq DEF LaneTypes
  <2>2. Len(d.batch) - 1 \in Nat /\ Len(d.batch) = (Len(d.batch) - 1) + 1
    BY <2>1
  <2> QED BY <2>2
<1>2. /\ e.batch \in Seq(Ops) /\ Len(e.batch) = m /\ Head(d.batch) = d.batch[1]
      /\ \A n \in 1..m : e.batch[n] = d.batch[n + 1] /\ n + 1 \in 1..Len(d.batch)
  <2>1. PICK b : b = d.batch
    OBVIOUS
  <2>2. b \in Seq(Ops) /\ Len(b) = m + 1
    BY <1>1, <2>1 DEF LaneTypes
  <2>3. /\ Tail(b) \in Seq(Ops) /\ Len(Tail(b)) = m /\ Head(b) = b[1]
        /\ \A n \in 1..m : Tail(b)[n] = b[n + 1] /\ n + 1 \in 1..Len(b)
    BY <2>2
  <2> QED BY <2>1, <2>3
<1>3. /\ \A n \in 1..Len(d.ops) : d.ops[n].id \in Nat
      /\ \A n \in 1..Len(d.batch) : d.batch[n].id \in Nat
  BY LaneIds
<1>4. Sorted(e)
  <2>1. Increasing(e.batch)
    <3>1. ASSUME NEW i \in 1..m, NEW j \in 1..m, i < j PROVE e.batch[i].id < e.batch[j].id
      <4>1. i + 1 \in 1..Len(d.batch) /\ j + 1 \in 1..Len(d.batch)
        BY <1>2
      <4>2. i + 1 < j + 1
        BY <1>1, <3>1
      <4>3. d.batch[i + 1].id < d.batch[j + 1].id
        BY <4>1, <4>2 DEF Lane, Sorted, Increasing
      <4> QED BY <1>2, <4>3
    <3> QED BY <1>2, <3>1 DEF Increasing
  <2>2. \A n \in 1..Len(e.ops) : Below(e.batch, e.ops[n].id)
    BY <1>2 DEF Lane, Sorted, Below
  <2>3. \A n \in 1..Len(e.batch) : e.batch[n].type # "checkout"
    BY <1>2 DEF Lane, Sorted
  <2> QED BY <2>1, <2>2, <2>3 DEF Lane, Sorted
<1>5. Below(e.batch, next) /\ Below(e.ops, next)
  BY <1>2 DEF Lane, Below
<1>6. 1 \in 1..Len(d.batch)
  BY <1>1
<1>7. Pending(e, r)
  <2>1. ASSUME NEW n \in 1..Len(d.ops), d.ops[n].type = "checkout"
        PROVE  d.ops[n] \in r
    <3>1. d.ops[n] \in q
      BY <2>1 DEF Lane, Pending
    <3>2. d.batch[1].id < d.ops[n].id
      BY <1>6 DEF Lane, Sorted, Below
    <3> QED BY <1>2, <1>3, <1>6, <3>1, <3>2
  <2> QED BY <2>1 DEF Pending
<1>8. Covered(e, r)
  <2>1. ASSUME NEW o \in r, Has(d.batch, o)
        PROVE  Has(e.batch, o)
    <3>1. PICK n \in 1..Len(d.batch) : d.batch[n] = o
      BY <2>1 DEF Has
    <3>2. n # 1
      BY <1>2, <3>1
    <3>3. n - 1 \in 1..m /\ (n - 1) + 1 = n
      BY <1>1, <3>2
    <3> QED BY <1>2, <3>1, <3>3 DEF Has
  <2>2. ASSUME NEW o \in r, Below(d.batch, o.id) PROVE Below(e.batch, o.id)
    BY <1>2, <2>2 DEF Below
  <2>3. ASSUME NEW o \in r, o.type = "checkout",
               \/ \E n \in 1..Len(e.ops) : e.ops[n].id = o.id - 1
               \/ \E n \in 1..Len(e.batch) : e.batch[n].id = o.id - 1
        PROVE  Has(e.ops, o)
    <3>1. \/ \E n \in 1..Len(d.ops) : d.ops[n].id = o.id - 1
          \/ \E n \in 1..Len(d.batch) : d.batch[n].id = o.id - 1
      BY <1>2, <2>3
    <3> QED BY <2>3, <3>1 DEF Lane, Covered
  <2> QED BY <2>1, <2>2, <2>3 DEF Lane, Covered
<1> QED BY <1>4, <1>5, <1>7, <1>8 DEF Lane

\* A checkout is over.
LEMMA LaneEnds ==
  ASSUME NEW d, NEW q, NEW next, LaneTypes(d, q, next), Lane(d, q, next),
         d.ops # <<>>, d.ops[1].type = "checkout", d.batch = <<>>,
         NEW e, e.ops = Tail(d.ops), e.batch = <<>>, e.at = "walk",
         NEW r \in SUBSET q, d.ops[1] \notin r,
         \A o \in q : o.id # d.ops[1].id => o \in r
  PROVE  Lane(e, r, next)
<1>1. PICK m \in Nat : Len(d.ops) = m + 1
  <2>1. Len(d.ops) \in Nat /\ Len(d.ops) # 0
    BY LaneIds, EmptySeq
  <2>2. Len(d.ops) - 1 \in Nat /\ Len(d.ops) = (Len(d.ops) - 1) + 1
    BY <2>1
  <2> QED BY <2>2
<1>2. /\ e.ops \in Seq(Ops) /\ Len(e.ops) = m
      /\ \A n \in 1..m : e.ops[n] = d.ops[n + 1] /\ n + 1 \in 1..Len(d.ops)
  <2>1. PICK b : b = d.ops
    OBVIOUS
  <2>2. b \in Seq(Ops) /\ Len(b) = m + 1
    BY <1>1, <2>1, LaneIds
  <2>3. /\ Tail(b) \in Seq(Ops) /\ Len(Tail(b)) = m
        /\ \A n \in 1..m : Tail(b)[n] = b[n + 1] /\ n + 1 \in 1..Len(b)
    BY <2>2
  <2> QED BY <2>1, <2>3
<1>3. Len(e.batch) = 0 /\ 1 \in 1..Len(d.ops)
  BY <1>1, EmptySeq
<1>4. ASSUME NEW n \in 1..m
      PROVE  e.ops[n].type \notin {"upsert", "checkout"}
  <2>1. n + 1 \in 1..Len(d.ops) /\ 1 < n + 1
    BY <1>1, <1>2
  <2> QED BY <1>2, <1>3, <2>1 DEF Lane, Sorted
<1>5. Increasing(e.ops)
  <2>1. ASSUME NEW i \in 1..m, NEW j \in 1..m, i < j PROVE e.ops[i].id < e.ops[j].id
    <3>1. i + 1 \in 1..Len(d.ops) /\ j + 1 \in 1..Len(d.ops)
      BY <1>2
    <3>2. i + 1 < j + 1
      BY <1>1, <2>1
    <3>3. d.ops[i + 1].id < d.ops[j + 1].id
      BY <3>1, <3>2 DEF Lane, Sorted, Increasing
    <3> QED BY <1>2, <3>3
  <2> QED BY <1>2, <2>1 DEF Increasing
<1>6. Sorted(e)
  BY <1>2, <1>3, <1>4, <1>5 DEF Sorted, Increasing, Below
<1>7. Below(e.batch, next) /\ Below(e.ops, next)
  BY <1>2, <1>3 DEF Lane, Below
<1>8. Pending(e, r)
  BY <1>2, <1>4 DEF Pending
<1>9. Covered(e, r)
  <2>1. ASSUME NEW o \in r, Has(d.ops, o) PROVE Has(e.ops, o)
    <3>1. PICK n \in 1..Len(d.ops) : d.ops[n] = o
      BY <2>1 DEF Has
    <3>2. n # 1
      BY <2>1, <3>1
    <3>3. n - 1 \in 1..m /\ (n - 1) + 1 = n
      BY <1>1, <3>2
    <3> QED BY <1>2, <3>1, <3>3 DEF Has
  <2>2. ASSUME NEW o \in r, Below(d.ops, o.id) PROVE Below(e.ops, o.id)
    BY <1>2, <2>2 DEF Below
  <2>3. ASSUME NEW o \in r, o.type = "checkout",
               \/ \E n \in 1..Len(e.ops) : e.ops[n].id = o.id - 1
               \/ \E n \in 1..Len(e.batch) : e.batch[n].id = o.id - 1
        PROVE  Has(e.ops, o)
    <3>1. \E n \in 1..Len(d.ops) : d.ops[n].id = o.id - 1
      BY <1>2, <1>3, <2>3
    <3>2. Has(d.ops, o)
      BY <2>3, <3>1 DEF Lane, Covered
    <3> QED BY <2>1, <3>2
  <2>4. ASSUME NEW o \in r
        PROVE  \/ Has(e.ops, o) \/ Has(e.batch, o)
               \/ (Below(e.ops, o.id) /\ Below(e.batch, o.id))
    <3>1. \/ Has(d.ops, o) \/ Has(d.batch, o)
          \/ (Below(d.ops, o.id) /\ Below(d.batch, o.id))
      BY DEF Lane, Covered
    <3> QED BY <2>1, <2>2, <3>1
  <2> QED BY <2>3, <2>4 DEF Covered
<1> QED BY <1>6, <1>7, <1>8, <1>9 DEF Lane

-----------------------------------------------------------------------------
(* The only drain of an undisturbed till and its calls.                     *)

\* The drain of the cashier's tab, which in an undisturbed till is the only one.
D == drain[MainTab]

NoCalls == \A s \in Slots : calls[s] = NoCall

\* Every call is waited for, by the only tab.
Alone == \A s \in Slots : calls[s] # NoCall => calls[s].caller = MainTab

\* A call is about the batch, or about the checkout ahead.
Match(c, d) ==
  /\ c.kind = "sync" =>
       \A n \in 1..Len(d.batch) :
         /\ c.ops[n].id = d.batch[n].id /\ c.ops[n].type = d.batch[n].type
         /\ c.ops[n].cart = d.batch[n].cart
  /\ c.kind # "sync" =>
       d.batch = <<>> /\ d.ops[1].type = "checkout" /\ c.ops[1].id = d.ops[1].id
  /\ c.kind = "submit" => c.ops[1] = Sent(d.ops[1], 0)

LEMMA Silent ==
  ASSUME TillInv, Alone, D = Idle \/ D.at # "wait"
  PROVE  NoCalls
BY NoCallOf, TillAssumption DEF TillInv, Alone, NoCalls, D

LEMMA OnlyCall ==
  ASSUME TillInv, Alone, NEW s \in Slots, calls[s] # NoCall
  PROVE  /\ \A x \in Slots : x # s => calls[x] = NoCall
         /\ D # Idle /\ D.at = "wait" /\ WaitsFor(D, calls[s])
         /\ calls[s] \in Calls /\ GoodCall(calls[s]) /\ CallSold(calls[s])
<1>1. calls[s].caller = MainTab /\ MainTab # Nobody
  BY TillAssumption, ServerAssumption DEF Alone
<1>2. WaitsFor(D, calls[s]) /\ D # Idle /\ D.at = "wait"
  BY <1>1 DEF TillInv, Waiting, WaitsFor, D
<1>3. \A x \in Slots : x # s => calls[x] = NoCall
  BY <1>1 DEF TillInv, Waiting, Alone
<1> QED BY <1>2, <1>3, CallRow DEF TillInv

LEMMA TheDrain ==
  ASSUME TillInv
  PROVE  /\ D # Idle => D \in Drains /\ GoodDrain(D) /\ LaneTypes(D, queue, nextId)
         /\ D # Idle /\ D.ops # <<>> =>
              Head(D.ops) = D.ops[1] /\ D.ops[1] \in Ops /\ WithCart(D.ops[1])
         /\ \A x : drain' = [drain EXCEPT ![MainTab] = x] => D' = x
<1>1. MainTab \in Tabs
  BY TillAssumption
<1>2. D # Idle => D \in Drains /\ GoodDrain(D) /\ CartOps(D.ops) /\ D.batch \in Seq(Ops)
  BY <1>1, DrainTypes DEF TillInv, D
<1>3. D # Idle => LaneTypes(D, queue, nextId)
  BY <1>2 DEF LaneTypes, GoodDrain, TillInv
<1>4. D # Idle /\ D.ops # <<>> =>
        Head(D.ops) = D.ops[1] /\ D.ops[1] \in Ops /\ WithCart(D.ops[1])
  BY <1>2, TailOfOps DEF CartOps
<1>5. \A x : drain' = [drain EXCEPT ![MainTab] = x] => D' = x
  BY <1>1 DEF TillInv, DrainInv, D
<1> QED BY <1>2, <1>3, <1>4, <1>5

\* What the steps of the drain do to it and to the calls.
LEMMA StartDrainDoes ==
  ASSUME TillInv, StartDrain(MainTab)
  PROVE  /\ D = Idle
         /\ D' # Idle /\ D'.at = "walk" /\ D'.ops = BySeq(queue) /\ D'.batch = <<>>
         /\ ~D'.failed /\ D'.copy = NoDoc
         /\ doc # NoDoc => D'.cursor = doc.version
         /\ UNCHANGED <<serverVars, screen, doc, queue, nextId, save, timer, fired, told,
                        paidFor, amiss, report, losses, reloads>>
         /\ ui = "idle" <=> ui' = "idle"
<1>1. PICK e : e = [at |-> "walk", ops |-> BySeq(queue),
                    cursor |-> IF doc = NoDoc THEN 0 ELSE doc.version,
                    failed |-> FALSE, report |-> "none", batch |-> <<>>,
                    answers |-> <<>>, copy |-> NoDoc]
  OBVIOUS
<1>2. D = Idle /\ D' = e
  BY <1>1, TheDrain DEF StartDrain, D
<1>3. e.at = "walk" /\ e.ops = BySeq(queue) /\ e.batch = <<>> /\ ~e.failed /\ e.copy = NoDoc
  BY <1>1
<1>4. doc # NoDoc => e.cursor = doc.version
  BY <1>1
<1>5. e # Idle
  BY <1>3 DEF Idle
<1>6. ui = "idle" <=> ui' = "idle"
  BY DEF StartDrain
<1>7. UNCHANGED <<serverVars, screen, doc, queue, nextId, save, timer, fired, told,
                  paidFor, amiss, report, losses, reloads>>
  BY DEF StartDrain
<1> QED BY <1>2, <1>3, <1>4, <1>5, <1>6, <1>7

LEMMA FinishDrainDoes ==
  ASSUME TillInv, FinishDrain(MainTab)
  PROVE  /\ D # Idle /\ D.at = "walk" /\ D.ops = <<>> /\ D' = Idle
         /\ UNCHANGED <<serverVars, screen, doc, queue, nextId, save, timer, fired, told,
                        paidFor, amiss, losses, reloads>>
         /\ ui = "idle" <=> ui' = "idle"
<1>1. D # Idle /\ D.at = "walk" /\ D.ops = <<>>
  BY DEF FinishDrain, Walking, D
<1>2. D' = Idle
  BY TheDrain DEF FinishDrain, EndDrain
<1>3. ui = "idle" <=> ui' = "idle"
  BY DEF FinishDrain, EndDrain
<1> QED BY <1>1, <1>2, <1>3 DEF FinishDrain

LEMMA SendBatchDoes ==
  ASSUME TillInv, Alone, SendBatch(MainTab)
  PROVE  /\ D # Idle /\ D.at = "walk" /\ D.ops # <<>> /\ D.ops[1].type # "checkout"
         /\ Head(D.ops).type # "checkout" /\ NoCalls
         /\ D' # Idle /\ D'.at = "wait" /\ D'.batch = NextBatch(D.ops)
         /\ D'.ops = SubSeq(D.ops, Len(D'.batch) + 1, Len(D.ops)) /\ D'.failed = D.failed
         /\ \A s \in Slots : calls'[s] # NoCall =>
              /\ calls'[s].caller = MainTab /\ calls'[s].kind = "sync"
              /\ calls'[s].stage = "begin" /\ calls'[s].answers = <<>>
              /\ calls'[s].ops = [n \in DOMAIN D'.batch |->
                   Sent(D'.batch[n], VersionCursor(D'.batch, D.cursor, n - 1))]
         /\ UNCHANGED <<order, sales, keys, refusals, crashes, screen, doc, queue,
                        nextId, save, timer, fired, ui, told, paidFor, amiss,
                        report, losses, reloads>>
<1>1. /\ D # Idle /\ D.at = "walk" /\ D.ops # <<>> /\ Head(D.ops).type # "checkout"
  BY DEF SendBatch, Walking, D
<1>2. D \in Drains /\ D.ops[1] = Head(D.ops)
  BY <1>1, TheDrain
<1>3. NoCalls
  BY <1>1, Silent
<1>4. PICK batch : batch = NextBatch(D.ops)
  OBVIOUS
<1>5. PICK last : last = VersionCursor(batch, D.cursor, Len(batch))
  OBVIOUS
<1>6. PICK rest : rest = SubSeq(D.ops, Len(batch) + 1, Len(D.ops))
  OBVIOUS
<1>7. PICK e : e = [D EXCEPT !.at = "wait", !.batch = batch, !.ops = rest, !.cursor = last]
  OBVIOUS
<1>8. D' = e
  <2>1. drain' = [drain EXCEPT ![MainTab].at = "wait", ![MainTab].batch = batch,
                               ![MainTab].ops = rest, ![MainTab].cursor = last]
    BY <1>4, <1>5, <1>6 DEF SendBatch, D
  <2>2. drain' = [drain EXCEPT ![MainTab] = e]
    BY <1>7, <2>1, TillAssumption DEF TillInv, DrainInv, D
  <2> QED BY <2>2, TheDrain
<1>9. e.at = "wait" /\ e.batch = batch /\ e.ops = rest /\ e.failed = D.failed
  BY <1>2, <1>7 DEF Drains
<1>10. PICK ops : ops = [n \in DOMAIN batch |->
                          Sent(batch[n], VersionCursor(batch, D.cursor, n - 1))]
  OBVIOUS
<1>11. PICK c : c = NewCall(MainTab, "sync", ops)
  OBVIOUS
<1>12. /\ c.caller = MainTab /\ c.kind = "sync" /\ c.stage = "begin" /\ c.answers = <<>>
       /\ c.ops = ops
  BY <1>11 DEF NewCall, Keyed
<1>13. PICK s \in Slots : calls' = [calls EXCEPT ![s] = c]
  BY <1>4, <1>10, <1>11 DEF SendBatch, D
<1>14. \A x \in Slots : calls'[x] # NoCall => calls'[x] = c
  BY <1>3, <1>13 DEF NoCalls, TillInv, ServerInv, TypeOKServer
<1>15. e # Idle
  BY <1>9 DEF Idle
<1>16. UNCHANGED <<order, sales, keys, refusals, crashes, screen, doc, queue,
                   nextId, save, timer, fired, ui, told, paidFor, amiss,
                   report, losses, reloads>>
  BY DEF SendBatch
<1> QED BY <1>1, <1>2, <1>3, <1>4, <1>6, <1>8, <1>9, <1>10, <1>12, <1>14, <1>15, <1>16

LEMMA StartCheckoutOpDoes ==
  ASSUME TillInv, Alone, StartCheckoutOp(MainTab)
  PROVE  /\ D # Idle /\ D.at = "walk" /\ D.ops # <<>> /\ D.ops[1].type = "checkout"
         /\ D' # Idle /\ D'.ops = D.ops /\ D'.batch = D.batch /\ D'.failed = D.failed
         /\ NoCalls
         /\ \/ D.failed /\ D'.at = "fail" /\ NoCalls'
            \/ /\ ~D.failed /\ D'.at = "wait"
               /\ \A s \in Slots : calls'[s] # NoCall =>
                    /\ calls'[s].caller = MainTab /\ calls'[s].kind = "submit"
                    /\ calls'[s].stage = "begin" /\ calls'[s].answers = <<>>
                    /\ calls'[s].ops = <<Sent(D.ops[1], 0)>>
         /\ UNCHANGED <<order, sales, keys, refusals, crashes, screen, doc, queue,
                        nextId, save, timer, fired, ui, told, paidFor, amiss,
                        report, losses, reloads>>
<1>1. /\ D # Idle /\ D.at = "walk" /\ D.ops # <<>> /\ Head(D.ops).type = "checkout"
  BY DEF StartCheckoutOp, Walking, D
<1>2. D \in Drains /\ D.ops[1] = Head(D.ops)
  BY <1>1, TheDrain
<1>3. NoCalls
  BY <1>1, Silent
<1>4. ASSUME NEW at, drain' = [drain EXCEPT ![MainTab].at = at]
      PROVE  /\ D'.at = at /\ D'.ops = D.ops /\ D'.batch = D.batch /\ D'.failed = D.failed
             /\ D' # Idle
  <2>1. PICK e : e = [D EXCEPT !.at = at]
    OBVIOUS
  <2>2. drain' = [drain EXCEPT ![MainTab] = e]
    BY <1>4, <2>1 DEF D
  <2>3. D' = e
    BY <2>2, TheDrain
  <2>4. /\ e.at = at /\ e.ops = D.ops /\ e.batch = D.batch /\ e.failed = D.failed
    BY <1>2, <2>1 DEF Drains
  <2>5. e # Idle
    <3>1. DOMAIN e = DOMAIN D /\ "ops" \in DOMAIN D
      BY <1>2, <2>1 DEF Drains
    <3>2. "ops" \notin DOMAIN Idle
      BY DEF Idle
    <3> QED BY <3>1, <3>2
  <2> QED BY <2>3, <2>4, <2>5
<1>5. CASE D.failed
  <2>1. drain' = [drain EXCEPT ![MainTab].at = "fail"] /\ UNCHANGED calls
    BY <1>5 DEF StartCheckoutOp, Doomed, D
  <2> QED BY <1>1, <1>2, <1>3, <1>4, <1>5, <2>1 DEF StartCheckoutOp, NoCalls
<1>6. CASE ~D.failed
  <2>1. PICK c : c = NewCall(MainTab, "submit", <<Sent(D.ops[1], 0)>>)
    OBVIOUS
  <2>2. drain' = [drain EXCEPT ![MainTab].at = "wait"]
    BY <1>6 DEF StartCheckoutOp, Doomed, D
  <2>3. PICK s \in Slots : calls' = [calls EXCEPT ![s] = c]
    BY <1>2, <1>6, <2>1 DEF StartCheckoutOp, Doomed, D
  <2>4. \A x \in Slots : calls'[x] # NoCall => calls'[x] = c
    BY <1>3, <2>3 DEF NoCalls, TillInv, ServerInv, TypeOKServer
  <2>5. /\ c.caller = MainTab /\ c.kind = "submit" /\ c.stage = "begin" /\ c.answers = <<>>
        /\ c.ops = <<Sent(D.ops[1], 0)>>
    BY <2>1 DEF NewCall, Keyed
  <2>6. UNCHANGED <<order, sales, keys, refusals, crashes, screen, doc, queue,
                    nextId, save, timer, fired, ui, told, paidFor, amiss,
                    report, losses, reloads>>
    BY DEF StartCheckoutOp
  <2> QED BY <1>1, <1>2, <1>3, <1>4, <1>6, <2>2, <2>4, <2>5, <2>6
<1> QED BY <1>5, <1>6

LEMMA ReceiveBatchDoes ==
  ASSUME TillInv, Alone, NEW s \in Slots, ReceiveBatch(MainTab, s)
  PROVE  /\ D # Idle /\ D.at = "wait"
         /\ calls[s] # NoCall /\ calls[s].kind = "sync" /\ calls[s].stage = "done"
         /\ D' # Idle /\ D'.at = "ack" /\ D'.answers = calls[s].answers
         /\ D'.ops = D.ops /\ D'.batch = D.batch /\ D'.failed = D.failed
         /\ NoCalls'
         /\ UNCHANGED <<order, sales, keys, refusals, crashes, screen, doc, queue,
                        nextId, save, timer, fired, ui, told, paidFor, amiss, report,
                        losses, reloads>>
<1>1. calls[s] # NoCall /\ calls[s].kind = "sync" /\ calls[s].stage = "done"
  BY DEF ReceiveBatch, Arrived
<1>2. /\ D # Idle /\ D.at = "wait" /\ \A x \in Slots : x # s => calls[x] = NoCall
  BY <1>1, OnlyCall
<1>3. D \in Drains
  BY <1>2, TheDrain
<1>4. PICK answers : answers = calls[s].answers
  OBVIOUS
<1>5. PICK e : e = [D EXCEPT !.at = "ack", !.answers = answers]
  OBVIOUS
<1>6. D' = e
  <2>1. drain' = [drain EXCEPT ![MainTab].at = "ack", ![MainTab].answers = answers]
    BY <1>4 DEF ReceiveBatch
  <2>2. drain' = [drain EXCEPT ![MainTab] = e]
    BY <1>5, <2>1, TillAssumption DEF TillInv, DrainInv, D
  <2> QED BY <2>2, TheDrain
<1>7. /\ e.at = "ack" /\ e.answers = answers /\ e.ops = D.ops /\ e.batch = D.batch
      /\ e.failed = D.failed
  BY <1>3, <1>5 DEF Drains
<1>8. e # Idle
  BY <1>7 DEF Idle
<1>9. NoCalls'
  BY <1>2 DEF ReceiveBatch, Freed, NoCalls, TillInv, ServerInv, TypeOKServer
<1>10. UNCHANGED <<order, sales, keys, refusals, crashes, screen, doc, queue,
                   nextId, save, timer, fired, ui, told, paidFor, amiss, report,
                   losses, reloads>>
  BY DEF ReceiveBatch
<1> QED BY <1>1, <1>2, <1>4, <1>6, <1>7, <1>8, <1>9, <1>10

LEMMA AckOpDoes ==
  ASSUME TillInv, Alone, AckOp(MainTab), ~amiss'
  PROVE  /\ D # Idle /\ D.at = "ack" /\ D.batch # <<>> /\ NoCalls /\ NoCalls'
         /\ Head(D.batch) = D.batch[1] /\ Head(D.answers) = D.answers[1]
         /\ queue' = Without(D.batch[1].id)
         /\ D' # Idle /\ D'.ops = D.ops /\ D'.batch = Tail(D.batch)
         /\ D'.answers = Tail(D.answers)
         /\ D'.at \in {"walk", "ack", "put"} /\ (D'.at = "walk" => D'.batch = <<>>)
         /\ \/ /\ D.answers[1].code = "ok" /\ D'.failed = D.failed
               /\ doc # NoDoc => /\ D'.at = "put"
                                 /\ D'.copy = [doc EXCEPT !.version = D.answers[1].version]
               /\ doc = NoDoc => D'.at # "put"
            \/ D.answers[1].code # "ok" /\ D'.failed = TRUE /\ D'.at # "put"
         /\ UNCHANGED <<serverVars, screen, doc, nextId, save, timer, fired, ui, told,
                        paidFor, amiss, report, losses, reloads>>
<1>1. D # Idle /\ D.at = "ack"
  BY DEF AckOp, D
<1>2. D \in Drains /\ GoodDrain(D)
  BY <1>1, TheDrain
<1>3. /\ D.batch \in Seq(Ops) /\ D.batch # <<>> /\ D.answers \in Seq(Answers)
      /\ Len(D.answers) = Len(D.batch)
  BY <1>1, <1>2 DEF Drains, GoodDrain
<1>4. PICK b : b = D.batch
  OBVIOUS
<1>5. PICK a : a = D.answers
  OBVIOUS
<1>6. Head(b) = b[1] /\ Head(a) = a[1] /\ (Len(b) = 1 <=> Tail(b) = <<>>)
  <2>1. b \in Seq(Ops) /\ b # <<>> /\ a \in Seq(Answers) /\ Len(a) = Len(b)
    BY <1>3, <1>4, <1>5
  <2>2. Len(b) \in Nat /\ Len(b) # 0 /\ a # <<>>
    BY <2>1, EmptySeq
  <2>3. Tail(b) \in Seq(Ops) /\ Len(Tail(b)) = Len(b) - 1
    BY <2>1, HeadTailProperties
  <2>4. Len(b) = 1 <=> Len(Tail(b)) = 0
    BY <2>2, <2>3
  <2>5. PICK r : r = Tail(b)
    OBVIOUS
  <2>6. r \in Seq(Ops) /\ (Len(b) = 1 <=> Len(r) = 0)
    BY <2>3, <2>4, <2>5
  <2>7. Len(b) = 1 <=> r = <<>>
    BY <2>6, EmptySeq
  <2>8. Head(b) = b[1] /\ Head(a) = a[1]
    BY <2>1, <2>2
  <2> QED BY <2>5, <2>7, <2>8
<1>7. PICK op : op = D.batch[1]
  OBVIOUS
<1>8. PICK answer : answer = D.answers[1]
  OBVIOUS
<1>9. Head(D.batch) = op /\ Head(D.answers) = answer
  BY <1>4, <1>5, <1>6, <1>7, <1>8
<1>10. PICK rest : rest = NextAnswer(D)
  OBVIOUS
<1>11. /\ rest \in Drains /\ rest.ops = D.ops /\ rest.batch = Tail(D.batch)
       /\ rest.answers = Tail(D.answers) /\ rest.failed = D.failed
       /\ rest.at \in {"walk", "ack"} /\ (rest.at = "walk" => rest.batch = <<>>)
  <2>1. rest \in Drains /\ rest.ops = D.ops /\ rest.at \in {"walk", "ack"}
    BY <1>1, <1>2, <1>10, NextAnswerGood
  <2>2. PICK at : at = IF Len(D.batch) = 1 THEN "walk" ELSE "ack"
    OBVIOUS
  <2>3. rest = [D EXCEPT !.batch = Tail(D.batch), !.answers = Tail(D.answers), !.at = at]
    BY <1>2, <1>10, <2>2 DEF NextAnswer, Drains
  <2>4. rest.batch = Tail(D.batch) /\ rest.answers = Tail(D.answers) /\ rest.failed = D.failed
        /\ rest.at = at
    BY <1>2, <2>3 DEF Drains
  <2>5. at = "walk" => Tail(D.batch) = <<>>
    BY <1>4, <1>6, <2>2
  <2> QED BY <2>1, <2>4, <2>5
<1>12. PICK x : drain' = [drain EXCEPT ![MainTab] = x]
  <2>1. CASE answer.code = "ok"
    BY <1>9, <2>1 DEF AckOp, D
  <2>2. CASE answer.code = "VERSION_CONFLICT"
    BY <1>9, <2>2 DEF AckOp, D
  <2>3. CASE answer.code \notin {"ok", "VERSION_CONFLICT"}
    BY <1>9, <2>3 DEF AckOp, D
  <2> QED BY <2>1, <2>2, <2>3
<1>13. answer.code # "VERSION_CONFLICT" /\ UNCHANGED <<doc, amiss, screen>>
       /\ queue' = Without(op.id)
  <2>1. answer.code # "VERSION_CONFLICT"
    BY <1>9 DEF AckOp, D
  <2>2. CASE answer.code = "ok"
    BY <1>9, <2>2 DEF AckOp, D
  <2>3. CASE answer.code \notin {"ok", "VERSION_CONFLICT"}
    BY <1>9, <2>3 DEF AckOp, D
  <2> QED BY <2>1, <2>2, <2>3
<1>14. /\ D' # Idle /\ D'.ops = rest.ops /\ D'.batch = rest.batch /\ D'.answers = rest.answers
       /\ \/ /\ answer.code = "ok" /\ D'.failed = D.failed
             /\ doc # NoDoc => /\ D'.at = "put"
                               /\ D'.copy = [doc EXCEPT !.version = answer.version]
             /\ doc = NoDoc => D'.at = rest.at
          \/ answer.code # "ok" /\ D'.failed = TRUE /\ D'.at = rest.at
  <2>1. CASE answer.code = "ok"
    <3>1. PICK rep : rep = Reported(D, "ok")
      OBVIOUS
    <3>2. PICK at : at = IF doc = NoDoc THEN rest.at ELSE "put"
      OBVIOUS
    <3>3. PICK copy : copy = IF doc = NoDoc THEN rest.copy
                             ELSE [doc EXCEPT !.version = answer.version]
      OBVIOUS
    <3>4. PICK e : e = [rest EXCEPT !.cursor = answer.version, !.report = rep,
                                    !.at = at, !.copy = copy]
      OBVIOUS
    <3>5. drain' = [drain EXCEPT ![MainTab] =
           [rest EXCEPT !.cursor = answer.version, !.report = Reported(D, "ok"),
                        !.at = IF doc = NoDoc THEN @ ELSE "put",
                        !.copy = IF doc = NoDoc THEN @
                                 ELSE [doc EXCEPT !.version = answer.version]]]
      BY <1>9, <1>10, <2>1 DEF AckOp, D
    <3>6. drain' = [drain EXCEPT ![MainTab] = e]
      BY <3>1, <3>2, <3>3, <3>4, <3>5
    <3>7. D' = e
      BY <3>6, TheDrain
    <3>8. /\ e.at = at /\ e.copy = copy /\ e.ops = rest.ops /\ e.batch = rest.batch
          /\ e.answers = rest.answers /\ e.failed = rest.failed
      BY <1>11, <3>4 DEF Drains
    <3>9. e # Idle
      BY <1>11, <3>2, <3>8 DEF Idle
    <3> QED BY <1>11, <2>1, <3>2, <3>3, <3>7, <3>8, <3>9
  <2>2. CASE answer.code # "ok"
    <3>1. PICK e : e = [rest EXCEPT !.report = "failed", !.failed = TRUE]
      OBVIOUS
    <3>2. drain' = [drain EXCEPT ![MainTab] = [rest EXCEPT !.report = "failed", !.failed = TRUE]]
      BY <1>9, <1>10, <1>13, <2>2 DEF AckOp, D
    <3>3. D' = e
      BY <3>1, <3>2, TheDrain
    <3>4. /\ e.at = rest.at /\ e.ops = rest.ops /\ e.batch = rest.batch
          /\ e.answers = rest.answers /\ e.failed = TRUE
      BY <1>11, <3>1 DEF Drains
    <3>5. e # Idle
      BY <1>11, <3>4 DEF Idle
    <3> QED BY <2>2, <3>3, <3>4, <3>5
  <2> QED BY <2>1, <2>2
<1>15. UNCHANGED <<serverVars, nextId, save, timer, fired, ui, told, paidFor, report,
                   losses, reloads>>
  BY DEF AckOp
<1>16. NoCalls /\ NoCalls'
  <2>1. NoCalls
    BY <1>1, Silent
  <2> QED BY <1>15, <2>1 DEF NoCalls, serverVars
<1>17. /\ D'.at \in {"walk", "ack", "put"} /\ (D'.at = "walk" => D'.batch = <<>>)
       /\ doc = NoDoc \/ answer.code # "ok" => D'.at # "put"
  BY <1>11, <1>14
<1>18. /\ D' # Idle /\ D'.ops = D.ops /\ D'.batch = Tail(D.batch)
       /\ D'.answers = Tail(D.answers)
  BY <1>11, <1>14
<1> HIDE DEF NoCalls
<1> QED BY <1>1, <1>3, <1>7, <1>8, <1>9, <1>13, <1>14, <1>15, <1>16, <1>17, <1>18

LEMMA PutVersionDoes ==
  ASSUME TillInv, Alone, PutVersion(MainTab), ~amiss'
  PROVE  /\ D # Idle /\ D.at = "put" /\ NoCalls /\ NoCalls' /\ doc' = D.copy
         /\ doc # NoDoc => doc.status = D.copy.status
         /\ D' # Idle /\ D'.at = (IF D.batch = <<>> THEN "walk" ELSE "ack")
         /\ D'.ops = D.ops /\ D'.batch = D.batch /\ D'.failed = D.failed
         /\ D'.answers = D.answers /\ D'.cursor = D.cursor
         /\ UNCHANGED <<serverVars, screen, queue, nextId, save, timer, fired, ui, told,
                        paidFor, amiss, report, losses, reloads>>
<1>1. D # Idle /\ D.at = "put"
  BY DEF PutVersion, D
<1>2. D \in Drains
  BY <1>1, TheDrain
<1>3. PICK at : at = IF D.batch = <<>> THEN "walk" ELSE "ack"
  OBVIOUS
<1>4. PICK e : e = [D EXCEPT !.copy = NoDoc, !.at = at]
  OBVIOUS
<1>5. D' = e
  <2>1. drain' = [drain EXCEPT ![MainTab].copy = NoDoc, ![MainTab].at = at]
    BY <1>3 DEF PutVersion, D
  <2>2. drain' = [drain EXCEPT ![MainTab] = e]
    BY <1>4, <2>1, TillAssumption DEF TillInv, DrainInv, D
  <2> QED BY <2>2, TheDrain
<1>6. /\ e.at = at /\ e.ops = D.ops /\ e.batch = D.batch /\ e.failed = D.failed
      /\ e.answers = D.answers /\ e.cursor = D.cursor
  BY <1>2, <1>4 DEF Drains
<1>7. e # Idle
  BY <1>3, <1>6 DEF Idle
<1>8. /\ doc' = D.copy /\ amiss' = amiss /\ (doc # NoDoc => doc.status = D.copy.status)
  <2>1. doc' = D.copy /\ amiss' = (amiss \/ (doc # NoDoc /\ doc.status # D.copy.status))
    BY DEF PutVersion, D
  <2>2. amiss \in BOOLEAN
    BY DEF TillInv, TillTypes
  <2>3. ~(amiss \/ (doc # NoDoc /\ doc.status # D.copy.status)) /\ amiss' = FALSE
    BY <2>1
  <2> QED BY <2>1, <2>2, <2>3
<1>9. UNCHANGED <<serverVars, screen, queue, nextId, save, timer, fired, ui, told,
                  paidFor, report, losses, reloads>>
  BY DEF PutVersion
<1>10. NoCalls /\ NoCalls'
  BY <1>1, <1>9, Silent DEF NoCalls, serverVars
<1> QED BY <1>1, <1>3, <1>5, <1>6, <1>7, <1>8, <1>9, <1>10

\* The calls of a checkout after its submit.
NextCall(kind, cart) ==
  \A x \in Slots : calls'[x] # NoCall =>
    /\ calls'[x].caller = MainTab /\ calls'[x].kind = kind /\ calls'[x].stage = "work"
    /\ calls'[x].answers = <<>> /\ calls'[x].ops[1].id = D.ops[1].id
    /\ calls'[x].ops[1].cart = cart

LEMMA CallNextDoes ==
  ASSUME TillInv, Alone, NEW s \in Slots, calls[s] # NoCall,
         NEW kind \in {"sale", "complete", "reopen"}, NEW cart,
         CallNext(MainTab, s, kind, cart), D.ops # <<>>
  PROVE  NextCall(kind, cart)
<1>1. /\ \A x \in Slots : x # s => calls[x] = NoCall
      /\ D # Idle
  BY OnlyCall
<1>2. Head(D.ops) = D.ops[1]
  BY <1>1, TheDrain
<1>3. PICK op : op = [id |-> D.ops[1].id, type |-> "checkout", cart |-> cart, expected |-> 0]
  OBVIOUS
<1>4. PICK ops : ops = <<op>>
  OBVIOUS
<1>5. PICK c : c = NewCall(MainTab, kind, ops)
  OBVIOUS
<1>6. calls' = [calls EXCEPT ![s] = c]
  BY <1>2, <1>3, <1>4, <1>5 DEF CallNext, D
<1>7. \A x \in Slots : calls'[x] # NoCall => calls'[x] = c
  BY <1>1, <1>6 DEF TillInv, ServerInv, TypeOKServer
<1>8. /\ c.caller = MainTab /\ c.kind = kind /\ c.stage = "work" /\ c.answers = <<>>
      /\ c.ops = ops
  BY <1>5 DEF NewCall, Keyed
<1>9. ops[1].id = D.ops[1].id /\ ops[1].cart = cart
  BY <1>3, <1>4
<1> QED BY <1>7, <1>8, <1>9 DEF NextCall

LEMMA FreedDoes ==
  ASSUME TillInv, Alone, NEW s \in Slots, calls[s] # NoCall, calls' = Freed(s)
  PROVE  NoCalls'
<1>1. \A x \in Slots : x # s => calls[x] = NoCall
  BY OnlyCall
<1> QED BY <1>1 DEF Freed, NoCalls, TillInv, ServerInv, TypeOKServer

\* A drain goes elsewhere with what it has.
LEMMA DrainGoes ==
  ASSUME TillInv, D # Idle, NEW at \in {"walk", "wait", "ack", "put", "fail", "reopen"},
         drain' = [drain EXCEPT ![MainTab].at = at]
  PROVE  /\ D' # Idle /\ D'.at = at /\ D'.ops = D.ops /\ D'.batch = D.batch
         /\ D'.failed = D.failed
<1>1. PICK e : e = [D EXCEPT !.at = at]
  OBVIOUS
<1>2. drain' = [drain EXCEPT ![MainTab] = e]
  BY <1>1 DEF D
<1>3. D' = e
  BY <1>2, TheDrain
<1>4. /\ e.at = at /\ e.ops = D.ops /\ e.batch = D.batch /\ e.failed = D.failed
  BY <1>1, TheDrain DEF Drains
<1>5. e # Idle
  BY <1>4 DEF Idle
<1> QED BY <1>3, <1>4, <1>5

LEMMA AfterSubmitDoes ==
  ASSUME TillInv, Alone, NEW s \in Slots, AfterSubmit(MainTab, s)
  PROVE  /\ D # Idle /\ D.at = "wait" /\ D.ops # <<>>
         /\ calls[s] # NoCall /\ calls[s].kind = "submit" /\ calls[s].stage = "done"
         /\ \/ /\ calls[s].answers[1].code = "ok"
               /\ D' # Idle /\ D'.at = "wait" /\ D'.ops = D.ops /\ D'.batch = D.batch
               /\ D'.failed = D.failed
               /\ NextCall("sale", calls[s].answers[1].cart)
            \/ /\ calls[s].answers[1].code # "ok" /\ D' = Idle /\ NoCalls'
            \/ /\ calls[s].answers[1].code # "ok" /\ NoCalls'
               /\ D' # Idle /\ D'.at = "fail" /\ D'.ops = D.ops /\ D'.batch = D.batch
               /\ D'.failed = D.failed
         /\ ui = "idle" <=> ui' = "idle"
         /\ UNCHANGED <<order, sales, keys, refusals, crashes, screen, doc, queue,
                        nextId, save, timer, fired, told, paidFor, amiss, losses,
                        reloads>>
<1>1. calls[s] # NoCall /\ calls[s].kind = "submit" /\ calls[s].stage = "done"
  BY DEF AfterSubmit, Arrived
<1>2. D # Idle /\ D.at = "wait" /\ D.ops # <<>>
  BY <1>1, OnlyCall DEF WaitsFor
<1>3. PICK answer : answer = calls[s].answers[1]
  OBVIOUS
<1>4. CASE answer.code = "ok"
  <2>1. /\ CallNext(MainTab, s, "sale", answer.cart)
        /\ drain' = [drain EXCEPT ![MainTab].cursor = answer.version]
        /\ UNCHANGED <<report, ui>>
    BY <1>3, <1>4 DEF AfterSubmit, StillInFlight
  <2>2. PICK e : e = [D EXCEPT !.cursor = answer.version]
    OBVIOUS
  <2>3. drain' = [drain EXCEPT ![MainTab] = e]
    BY <2>1, <2>2 DEF D
  <2>4. D' = e
    BY <2>3, TheDrain
  <2>5. /\ e.at = "wait" /\ e.ops = D.ops /\ e.batch = D.batch /\ e.failed = D.failed
    BY <1>2, <2>2, TheDrain DEF Drains
  <2>6. e # Idle
    BY <2>5 DEF Idle
  <2>7. NextCall("sale", answer.cart)
    BY <1>1, <1>2, <2>1, CallNextDoes
  <2> QED BY <1>1, <1>2, <1>3, <1>4, <2>1, <2>4, <2>5, <2>6, <2>7 DEF AfterSubmit
<1>5. CASE answer.code # "ok" /\ StillInFlight(answer)
  <2>1. calls' = Freed(s) /\ EndDrain(MainTab, drain[MainTab].report)
    BY <1>3, <1>5 DEF AfterSubmit
  <2>2. D' = Idle /\ (ui = "idle" <=> ui' = "idle")
    BY <2>1, TheDrain DEF EndDrain
  <2>3. NoCalls'
    BY <1>1, <2>1, FreedDoes
  <2> QED BY <1>1, <1>2, <1>3, <1>5, <2>2, <2>3 DEF AfterSubmit
<1>6. CASE answer.code # "ok" /\ ~StillInFlight(answer)
  <2>1. /\ calls' = Freed(s) /\ drain' = [drain EXCEPT ![MainTab].at = "fail"]
        /\ UNCHANGED <<report, ui>>
    BY <1>3, <1>6 DEF AfterSubmit
  <2>2. NoCalls'
    BY <1>1, <2>1, FreedDoes
  <2>3. /\ D' # Idle /\ D'.at = "fail" /\ D'.ops = D.ops /\ D'.batch = D.batch
        /\ D'.failed = D.failed
    BY <1>2, <2>1, DrainGoes
  <2> QED BY <1>1, <1>2, <1>3, <1>6, <2>1, <2>2, <2>3 DEF AfterSubmit
<1> QED BY <1>4, <1>5, <1>6

LEMMA AfterSaleDoes ==
  ASSUME TillInv, Alone, NEW s \in Slots, AfterSale(MainTab, s)
  PROVE  /\ D # Idle /\ D.at = "wait" /\ D.ops # <<>>
         /\ calls[s] # NoCall /\ calls[s].kind = "sale" /\ calls[s].stage = "done"
         /\ \/ calls[s].answers[1].code = "ok" /\ NextCall("complete", NoCart)
            \/ calls[s].answers[1].code # "ok" /\ NextCall("reopen", NoCart)
         /\ UNCHANGED <<order, sales, keys, refusals, crashes, tillVars>>
<1>1. calls[s] # NoCall /\ calls[s].kind = "sale" /\ calls[s].stage = "done"
  BY DEF AfterSale, Arrived
<1>2. D # Idle /\ D.at = "wait" /\ D.ops # <<>>
  BY <1>1, OnlyCall DEF WaitsFor
<1>3. PICK kind : kind = IF calls[s].answers[1].code = "ok" THEN "complete" ELSE "reopen"
  OBVIOUS
<1>4. CallNext(MainTab, s, kind, NoCart) /\ kind \in {"sale", "complete", "reopen"}
  BY <1>3 DEF AfterSale
<1>5. NextCall(kind, NoCart)
  BY <1>1, <1>2, <1>4, CallNextDoes
<1> QED BY <1>1, <1>2, <1>3, <1>5 DEF AfterSale

LEMMA AfterReopenDoes ==
  ASSUME TillInv, Alone, NEW s \in Slots, AfterReopen(MainTab, s)
  PROVE  /\ D # Idle /\ D.at = "wait" /\ D.ops # <<>>
         /\ calls[s] # NoCall /\ calls[s].kind = "reopen" /\ calls[s].stage = "done"
         /\ NoCalls'
         /\ D' # Idle /\ D'.at = "fail" /\ D'.ops = D.ops /\ D'.batch = D.batch
         /\ D'.failed = D.failed
         /\ UNCHANGED <<order, sales, keys, refusals, crashes, screen, doc, queue,
                        nextId, save, timer, fired, ui, told, paidFor, amiss, report,
                        losses, reloads>>
<1>1. calls[s] # NoCall /\ calls[s].kind = "reopen" /\ calls[s].stage = "done"
  BY DEF AfterReopen, Arrived
<1>2. D # Idle /\ D.at = "wait" /\ D.ops # <<>>
  BY <1>1, OnlyCall DEF WaitsFor
<1>3. NoCalls'
  BY <1>1, FreedDoes DEF AfterReopen
<1>4. /\ D' # Idle /\ D'.at = "fail" /\ D'.ops = D.ops /\ D'.batch = D.batch
      /\ D'.failed = D.failed
  BY <1>2, DrainGoes DEF AfterReopen
<1> QED BY <1>1, <1>2, <1>3, <1>4 DEF AfterReopen

LEMMA AfterCompleteDoes ==
  ASSUME TillInv, Alone, NEW s \in Slots, AfterComplete(MainTab, s)
  PROVE  /\ D # Idle /\ D.at = "wait" /\ D.ops # <<>>
         /\ calls[s] # NoCall /\ calls[s].kind = "complete" /\ calls[s].stage = "done"
         /\ NoCalls' /\ queue' = Without(D.ops[1].id)
         /\ \/ /\ calls[s].answers[1].code = "ok" /\ doc # NoDoc
               /\ doc' # NoDoc /\ doc'.status = "completed" /\ doc'.version = doc.version
            \/ (calls[s].answers[1].code # "ok" \/ doc = NoDoc) /\ doc' = doc
         /\ D' # Idle /\ D'.at = "walk" /\ D'.ops = Tail(D.ops) /\ D'.batch = D.batch
         /\ D'.failed = D.failed
         /\ UNCHANGED <<order, sales, keys, refusals, crashes, screen, nextId,
                        save, timer, fired, ui, told, paidFor, amiss, report,
                        losses, reloads>>
<1>1. calls[s] # NoCall /\ calls[s].kind = "complete" /\ calls[s].stage = "done"
  BY DEF AfterComplete, Arrived
<1>2. D # Idle /\ D.at = "wait" /\ D.ops # <<>>
  BY <1>1, OnlyCall DEF WaitsFor
<1>3. NoCalls'
  BY <1>1, FreedDoes DEF AfterComplete
<1>4. queue' = Without(D.ops[1].id)
  BY <1>2, TheDrain DEF AfterComplete, D
<1>5. \/ /\ calls[s].answers[1].code = "ok" /\ doc # NoDoc
         /\ doc' # NoDoc /\ doc'.status = "completed" /\ doc'.version = doc.version
      \/ (calls[s].answers[1].code # "ok" \/ doc = NoDoc) /\ doc' = doc
  <2>1. CASE calls[s].answers[1].code = "ok" /\ doc # NoDoc
    <3>1. doc' = [doc EXCEPT !.status = "completed", !.sold = TRUE]
      BY <2>1 DEF AfterComplete
    <3>2. doc \in Docs
      BY <2>1 DEF TillInv, TillTypes
    <3>3. doc'.status = "completed" /\ doc'.version = doc.version
      BY <3>1, <3>2 DEF Docs
    <3>4. doc' # NoDoc
      BY <3>3 DEF NoDoc
    <3> QED BY <2>1, <3>3, <3>4
  <2>2. CASE ~(calls[s].answers[1].code = "ok" /\ doc # NoDoc)
    BY <2>2 DEF AfterComplete
  <2> QED BY <2>1, <2>2
<1>6. PICK rep : rep = IF calls[s].answers[1].code = "ok" THEN Reported(D, "ok") ELSE "failed"
  OBVIOUS
<1>7. PICK ops : ops = Tail(D.ops)
  OBVIOUS
<1>8. PICK e : e = [D EXCEPT !.at = "walk", !.ops = ops, !.report = rep]
  OBVIOUS
<1>9. D \in Drains
  BY <1>2, TheDrain
<1>10. D' = e
  <2>1. drain' = [drain EXCEPT ![MainTab].at = "walk", ![MainTab].ops = Tail(@),
                               ![MainTab].report = rep]
    BY <1>6 DEF AfterComplete, D
  <2>2. drain' = [drain EXCEPT ![MainTab] = [D EXCEPT !.at = "walk",
                    !.ops = Tail(D.ops), !.report = rep]]
    <3>1. PICK f : f = [D EXCEPT !.at = "walk"]
      OBVIOUS
    <3>2. f.ops = D.ops
      BY <1>9, <3>1 DEF Drains
    <3> QED BY <2>1, <3>1, <3>2, TillAssumption DEF TillInv, DrainInv, D
  <2>3. drain' = [drain EXCEPT ![MainTab] = e]
    BY <1>7, <1>8, <2>2
  <2> QED BY <2>3, TheDrain
<1>11. /\ e.at = "walk" /\ e.ops = ops /\ e.batch = D.batch /\ e.failed = D.failed
  BY <1>8, <1>9 DEF Drains
<1>12. e # Idle
  BY <1>11 DEF Idle
<1>13. UNCHANGED <<order, sales, keys, refusals, crashes, screen, nextId,
                   save, timer, fired, ui, told, paidFor, amiss, report,
                   losses, reloads>>
  BY DEF AfterComplete
<1> QED BY <1>1, <1>2, <1>3, <1>4, <1>5, <1>7, <1>10, <1>11, <1>12, <1>13

LEMMA FailCheckoutDoes ==
  ASSUME TillInv, Alone, FailCheckout(MainTab)
  PROVE  /\ D # Idle /\ D.at = "fail" /\ D.ops # <<>> /\ NoCalls /\ NoCalls'
         /\ queue' = Without(D.ops[1].id)
         /\ D' # Idle /\ D'.at = "reopen" /\ D'.ops = D.ops /\ D'.batch = D.batch
         /\ D'.failed = D.failed
         /\ UNCHANGED <<serverVars, screen, doc, nextId, save, timer, fired, ui,
                        told, paidFor, amiss, report, losses, reloads>>
<1>1. D # Idle /\ D.at = "fail"
  BY DEF FailCheckout, D
<1>2. D \in Drains /\ D.ops # <<>>
  BY <1>1, TheDrain DEF GoodDrain
<1>3. queue' = Without(D.ops[1].id)
  BY <1>1, <1>2, TheDrain DEF FailCheckout, D
<1>4. PICK e : e = [D EXCEPT !.at = "reopen", !.report = "failed"]
  OBVIOUS
<1>5. D' = e
  <2>1. drain' = [drain EXCEPT ![MainTab].at = "reopen", ![MainTab].report = "failed"]
    BY DEF FailCheckout
  <2>2. drain' = [drain EXCEPT ![MainTab] = e]
    BY <1>4, <2>1, TillAssumption DEF TillInv, DrainInv, D
  <2> QED BY <2>2, TheDrain
<1>6. /\ e.at = "reopen" /\ e.ops = D.ops /\ e.batch = D.batch /\ e.failed = D.failed
  BY <1>2, <1>4 DEF Drains
<1>7. e # Idle
  BY <1>6 DEF Idle
<1>8. UNCHANGED <<serverVars, screen, doc, nextId, save, timer, fired, ui,
                  told, paidFor, amiss, report, losses, reloads>>
  BY DEF FailCheckout
<1>9. NoCalls /\ NoCalls'
  BY <1>1, <1>8, Silent DEF NoCalls, serverVars
<1> QED BY <1>1, <1>2, <1>3, <1>5, <1>6, <1>7, <1>8, <1>9

LEMMA ReopenDocDoes ==
  ASSUME TillInv, Alone, ReopenDoc(MainTab)
  PROVE  /\ D # Idle /\ D.at = "reopen" /\ D.ops # <<>> /\ NoCalls /\ NoCalls'
         /\ doc = NoDoc => doc' = NoDoc
         /\ doc # NoDoc => doc' # NoDoc /\ doc'.status = "open" /\ doc'.version = doc.version
         /\ D' # Idle /\ D'.at = "walk" /\ D'.ops = Tail(D.ops) /\ D'.batch = D.batch
         /\ D'.failed = D.failed
         /\ UNCHANGED <<serverVars, screen, queue, nextId, save, timer, fired, ui,
                        told, paidFor, amiss, report, losses, reloads>>
<1>1. D # Idle /\ D.at = "reopen"
  BY DEF ReopenDoc, D
<1>2. D \in Drains /\ D.ops # <<>>
  BY <1>1, TheDrain DEF GoodDrain
<1>3. PICK ops : ops = Tail(D.ops)
  OBVIOUS
<1>4. PICK e : e = [D EXCEPT !.at = "walk", !.ops = ops]
  OBVIOUS
<1>5. D' = e
  <2>1. drain' = [drain EXCEPT ![MainTab].at = "walk", ![MainTab].ops = Tail(@)]
    BY DEF ReopenDoc
  <2>2. drain' = [drain EXCEPT ![MainTab] = [D EXCEPT !.at = "walk", !.ops = Tail(D.ops)]]
    <3>1. PICK f : f = [D EXCEPT !.at = "walk"]
      OBVIOUS
    <3>2. f.ops = D.ops
      BY <1>2, <3>1 DEF Drains
    <3> QED BY <2>1, <3>1, <3>2, TillAssumption DEF TillInv, DrainInv, D
  <2>3. drain' = [drain EXCEPT ![MainTab] = e]
    BY <1>3, <1>4, <2>2
  <2> QED BY <2>3, TheDrain
<1>6. /\ e.at = "walk" /\ e.ops = ops /\ e.batch = D.batch /\ e.failed = D.failed
  BY <1>2, <1>4 DEF Drains
<1>7. e # Idle
  BY <1>6 DEF Idle
<1>8. /\ doc = NoDoc => doc' = NoDoc
      /\ doc # NoDoc => doc' # NoDoc /\ doc'.status = "open" /\ doc'.version = doc.version
  <2>1. doc = NoDoc => doc' = NoDoc
    BY DEF ReopenDoc
  <2>2. CASE doc # NoDoc
    <3>1. doc' = [doc EXCEPT !.status = "open"]
      BY <2>2 DEF ReopenDoc
    <3>2. doc \in Docs
      BY <2>2 DEF TillInv, TillTypes
    <3>3. doc'.status = "open" /\ doc'.version = doc.version
      BY <3>1, <3>2 DEF Docs
    <3> QED BY <2>2, <3>3 DEF NoDoc
  <2> QED BY <2>1, <2>2
<1>9. UNCHANGED <<serverVars, screen, queue, nextId, save, timer, fired, ui,
                  told, paidFor, amiss, report, losses, reloads>>
  BY DEF ReopenDoc
<1>10. NoCalls /\ NoCalls'
  BY <1>1, <1>9, Silent DEF NoCalls, serverVars
<1> QED BY <1>1, <1>2, <1>3, <1>5, <1>6, <1>7, <1>8, <1>9, <1>10

LEMMA CrashServerDoes ==
  ASSUME TillInv, Alone, CrashServer
  PROVE  /\ NoCalls'
         /\ \/ (D = Idle \/ D.at # "wait") /\ D' = D
            \/ /\ D # Idle /\ D.at = "wait" /\ D' = Idle
               /\ \A s \in Slots : calls[s] # NoCall => calls[s].kind # "reopen"
            \/ /\ D # Idle /\ D.at = "wait"
               /\ \E s \in Slots : calls[s] # NoCall /\ calls[s].kind = "reopen"
               /\ D' # Idle /\ D'.at = "fail" /\ D'.ops = D.ops /\ D'.batch = D.batch
               /\ D'.failed = D.failed
         /\ ui = "idle" <=> ui' = "idle"
         /\ UNCHANGED <<order, sales, keys, refusals, screen, doc, queue, nextId,
                        save, timer, fired, told, paidFor, amiss, losses, reloads>>
<1>1. D' = CASE Reopening(MainTab) -> [D EXCEPT !.at = "fail"]
             [] Stops(MainTab) -> Idle
             [] OTHER -> D
  BY TillAssumption DEF CrashServer, D
<1>2. Reopening(MainTab) <=> \E s \in Slots : calls[s] # NoCall /\ calls[s].kind = "reopen"
  BY DEF Reopening, Alone
<1>3. Waits(MainTab) <=> D # Idle /\ D.at = "wait"
  BY DEF Waits, D
<1>4. CASE Reopening(MainTab)
  <2>1. D # Idle /\ D.at = "wait"
    BY <1>2, <1>4, OnlyCall
  <2>2. D' = [D EXCEPT !.at = "fail"]
    BY <1>1, <1>4 DEF Stops
  <2>3. /\ D'.at = "fail" /\ D'.ops = D.ops /\ D'.batch = D.batch
        /\ D'.failed = D.failed
    BY <2>1, <2>2, TheDrain DEF Drains
  <2>4. D' # Idle
    BY <2>3 DEF Idle
  <2> QED BY <1>2, <1>4, <2>1, <2>3, <2>4 DEF CrashServer, NoCalls
<1>5. CASE ~Reopening(MainTab) /\ Waits(MainTab)
  <2>1. D' = Idle
    BY <1>1, <1>5 DEF Stops
  <2> QED BY <1>2, <1>3, <1>5, <2>1 DEF CrashServer, NoCalls
<1>6. CASE ~Reopening(MainTab) /\ ~Waits(MainTab)
  <2>1. D' = D
    BY <1>1, <1>6 DEF Stops
  <2> QED BY <1>3, <1>6, <2>1 DEF CrashServer, NoCalls
<1> QED BY <1>4, <1>5, <1>6

\* Fields of a call that has its next answer.
LEMMA AnsweredDoes ==
  ASSUME NEW c \in Calls, GoodCall(c), c.stage # "done", NEW a \in Answers
  PROVE  /\ Answered(c, a).answers = Append(c.answers, a)
         /\ Len(Answered(c, a).answers) = Len(c.answers) + 1
         /\ \A n \in 1..Len(c.answers) : Answered(c, a).answers[n] = c.answers[n]
         /\ Answered(c, a).answers[Len(c.answers) + 1] = a
         /\ Answered(c, a).kind = c.kind /\ Answered(c, a).ops = c.ops
         /\ Answered(c, a).caller = c.caller
         /\ Answered(c, a).stage = IF Len(c.answers) + 1 < Len(c.ops) THEN "begin" ELSE "done"
         /\ c.kind # "sync" => /\ Len(c.answers) = 0 /\ Answered(c, a).stage = "done"
                               /\ Answered(c, a).answers[1] = a
<1> DEFINE stage == IF Len(c.answers) + 1 < Len(c.ops) THEN "begin" ELSE "done"
           more  == Append(c.answers, a)
           r     == [c EXCEPT !.answers = more, !.pending = Refused, !.stage = stage]
<1>1. /\ c.ops \in Seq(WireOps) /\ c.answers \in Seq(Answers)
      /\ Len(c.answers) \in Nat /\ Len(c.ops) \in Nat
  BY DEF Calls
<1>2. /\ Len(more) = Len(c.answers) + 1
      /\ \A n \in 1..Len(c.answers) : more[n] = c.answers[n]
      /\ more[Len(c.answers) + 1] = a
  BY <1>1, AppendProperties
<1>3. Answered(c, a) = r
  BY DEF Answered, Calls
<1>4. r.kind = c.kind /\ r.ops = c.ops /\ r.caller = c.caller /\ r.answers = more /\ r.stage = stage
  BY DEF Calls
<1>5. c.kind # "sync" => Len(c.answers) = 0 /\ Len(c.ops) = 1
  BY <1>1 DEF GoodCall
<1> HIDE DEF r, more
<1>6. c.kind # "sync" => stage = "done" /\ more[1] = a
  <2>1. ASSUME c.kind # "sync" PROVE stage = "done"
    <3>1. PICK m, k : m = Len(c.answers) /\ k = Len(c.ops)
      OBVIOUS
    <3>2. m = 0 /\ k = 1
      BY <1>5, <2>1, <3>1
    <3>3. ~(m + 1 < k)
      BY <3>2
    <3> QED BY <3>1, <3>3
  <2>2. c.kind # "sync" => Len(c.answers) + 1 = 1
    BY <1>5
  <2> QED BY <1>2, <2>1, <2>2
<1>7. more = Append(c.answers, a)
  BY DEF more
<1> HIDE DEF stage
<1>8. stage = IF Len(c.answers) + 1 < Len(c.ops) THEN "begin" ELSE "done"
  BY DEF stage
<1>9. PICK x : x = Answered(c, a)
  OBVIOUS
<1>10. /\ x.answers = more /\ x.kind = c.kind /\ x.ops = c.ops /\ x.caller = c.caller
       /\ x.stage = stage
  BY <1>3, <1>4, <1>9
<1> QED BY <1>2, <1>5, <1>6, <1>7, <1>8, <1>9, <1>10

\* A step of the server is one of the only call.
LEMMA ServerDoes ==
  ASSUME TillInv, Alone, NEW s \in Slots, ServerStep(s)
  PROVE  /\ calls[s] # NoCall /\ calls[s].stage # "done" /\ SameCalls
         /\ CurrentOp(calls[s]) \in WireOps /\ CurrentOp(calls[s]).id \in OpIds
         /\ \A x \in Slots : x # s => calls'[x] = NoCall
         /\ \A k \in OpIds : k # CurrentOp(calls[s]).id => keys'[k] = keys[k]
<1>1. PICK c : c = calls[s]
  OBVIOUS
<1>2. calls[s] # NoCall /\ c.stage # "done"
  BY <1>1 DEF ServerStep, Reserve, Handle, Store, Sell, AtStage
<1>3. /\ \A x \in Slots : x # s => calls[x] = NoCall
      /\ c \in Calls /\ GoodCall(c)
  BY <1>1, <1>2, OnlyCall
<1>4. PICK op : op = CurrentOp(c)
  OBVIOUS
<1>5. op \in WireOps /\ op.id \in OpIds
  BY <1>2, <1>3, <1>4, CurrentOpKnown
<1>6. SameCalls
  BY ReserveKeeps, HandleKeeps, StoreKeeps, SellKeeps DEF ServerStep, TillInv
<1>7. \A x \in Slots : x # s => calls'[x] = NoCall
  BY <1>3, <1>6 DEF SameCalls
<1>8. keys \in [OpIds -> KeyRows \cup {Unknown}]
  BY DEF TillInv, ServerInv, TypeOKServer
<1>9. keys' = keys \/ \E row : keys' = [keys EXCEPT ![op.id] = row]
  <2>1. CASE Reserve(s)
    BY <1>1, <1>4, <2>1 DEF Reserve
  <2>2. CASE Handle(s)
    BY <1>1, <1>4, <2>2 DEF Handle, Aborted
  <2>3. CASE Store(s)
    BY <1>1, <1>4, <2>3 DEF Store
  <2>4. CASE Sell(s)
    BY <2>4 DEF Sell
  <2> QED BY <2>1, <2>2, <2>3, <2>4 DEF ServerStep
<1>10. \A k \in OpIds : k # op.id => keys'[k] = keys[k]
  BY <1>8, <1>9
<1> QED BY <1>1, <1>2, <1>4, <1>5, <1>6, <1>7, <1>10

-----------------------------------------------------------------------------
(* An undisturbed till.                                                     *)

\* Its steps: no second tab, and no connection lost or screen reloaded.
CalmNext ==
  \/ Cashier \/ Engine \/ CrashServer \/ DrainStep(MainTab)
  \/ \E s \in Slots : ServerStep(s) /\ UNCHANGED tillVars
  \/ \E s \in Slots : Forget(s)
  \/ UNCHANGED vars

LEMMA UndisturbedBefore ==
  ASSUME TillInv, [Next]_vars, Undisturbed'
  PROVE  Undisturbed /\ CalmNext
<1>1. /\ Tabs = {MainTab} /\ losses' = 0 /\ reloads' = 0 /\ ~amiss'
  BY DEF Undisturbed
<1>2. losses \in Nat /\ reloads \in Nat /\ amiss \in BOOLEAN
  BY TillAssumption DEF TillInv, TillTypes
<1>3. CASE Cashier
  <2>1. losses' = losses /\ reloads' = reloads /\ amiss' = amiss
    BY <1>3 DEF Cashier, EditCart, Checkout, HoldOrder, ResumeOrder, VoidOrder
  <2> QED BY <1>1, <1>3, <2>1 DEF Undisturbed, CalmNext
<1>4. CASE Engine
  <2>1. losses' = losses /\ reloads' = reloads /\ (amiss' = amiss \/ TellCashier)
    BY <1>4 DEF Engine, SaveCart, FireDebounce, AppendUpsert, TellCashier
  <2>2. TellCashier => ~amiss
    BY <1>1 DEF TellCashier
  <2> QED BY <1>1, <1>4, <2>1, <2>2 DEF Undisturbed, CalmNext
<1>5. CASE CrashServer
  BY <1>1, <1>5 DEF Undisturbed, CalmNext, CrashServer
<1>6. ASSUME NEW t \in Tabs, DrainStep(t) PROVE Undisturbed /\ CalmNext
  <2>1. t = MainTab
    BY <1>1
  <2>2. CASE AckOp(t)
    <3>1. losses' = losses /\ reloads' = reloads
      BY <2>2 DEF AckOp
    <3>2. ~amiss
      BY <1>1, <2>1, <2>2 DEF AckOp
    <3> QED BY <1>1, <1>6, <2>1, <3>1, <3>2 DEF Undisturbed, CalmNext
  <2>3. CASE PutVersion(t)
    <3>1. losses' = losses /\ reloads' = reloads
      BY <2>3 DEF PutVersion
    <3>2. ~amiss
      BY <1>1, <2>3 DEF PutVersion
    <3> QED BY <1>1, <1>6, <2>1, <3>1, <3>2 DEF Undisturbed, CalmNext
  <2>4. CASE ~AckOp(t) /\ ~PutVersion(t)
    <3>1. losses' = losses /\ reloads' = reloads /\ amiss' = amiss
      BY <1>6, <2>4 DEF DrainStep, StartDrain, FinishDrain, SendBatch, StartCheckoutOp,
           FailCheckout, ReopenDoc, ReceiveBatch, AfterSubmit, AfterSale, AfterReopen,
           AfterComplete, tillVars
    <3> QED BY <1>1, <1>6, <2>1, <3>1 DEF Undisturbed, CalmNext
  <2> QED BY <2>2, <2>3, <2>4
<1>7. ASSUME NEW s \in Slots, Serve(s) PROVE Undisturbed /\ CalmNext
  BY <1>1, <1>7 DEF Serve, Forget, tillVars, Undisturbed, CalmNext
<1>8. CASE UNCHANGED vars
  BY <1>1, <1>8 DEF vars, tillVars, Undisturbed, CalmNext
<1>9. ~Reload /\ ~\E t \in Tabs, s \in Slots : LoseConnection(t, s)
  <2>1. ~Reload
    BY <1>1, <1>2 DEF Reload
  <2>2. ~\E t \in Tabs, s \in Slots : LoseConnection(t, s)
    BY <1>1, <1>2 DEF LoseConnection
  <2> QED BY <2>1, <2>2
<1> QED BY <1>3, <1>4, <1>5, <1>6, <1>7, <1>8, <1>9 DEF Next, Failure

-----------------------------------------------------------------------------
(* The lane: the drain, its call and the queue go through the ids in order. *)

\* How far the drain, its call and the queue of an undisturbed till are:
\* keys are used in the order of ids, and the drain goes through the ops in
\* that order.
Fresh == \A k \in OpIds : k >= nextId => keys[k] = Unknown
LaneInv ==
  /\ Alone /\ Fresh
  /\ D # Idle => Lane(D, queue, nextId)
  /\ \A s \in Slots : calls[s] # NoCall => Match(calls[s], D)

\* The op a call is at, in the drain that waits for it.
LEMMA OpAhead ==
  ASSUME TillInv, LaneInv, NEW s \in Slots, calls[s] # NoCall, calls[s].stage # "done"
  PROVE  LET c  == calls[s]
             op == CurrentOp(c)
             n  == Len(c.answers) + 1
         IN  /\ op = c.ops[n] /\ n \in 1..Len(c.ops) /\ op.id \in Nat /\ op.id < nextId
             /\ c.kind = "sync" =>
                  /\ n \in 1..Len(D.batch) /\ Len(c.ops) = Len(D.batch)
                  /\ op.id = D.batch[n].id /\ op.type = D.batch[n].type
                  /\ op.cart = D.batch[n].cart
             /\ c.kind # "sync" => n = 1 /\ op.id = D.ops[1].id /\ D.ops # <<>>
<1> DEFINE c  == calls[s]
           op == CurrentOp(c)
           n  == Len(c.answers) + 1
<1>1. /\ D # Idle /\ D.at = "wait" /\ WaitsFor(D, c) /\ c \in Calls /\ GoodCall(c)
  BY OnlyCall DEF LaneInv
<1>2. Lane(D, queue, nextId) /\ Match(c, D)
  BY <1>1 DEF LaneInv
<1>3. LaneTypes(D, queue, nextId)
  BY <1>1, TheDrain
<1>4. Len(c.answers) \in Nat /\ Len(c.ops) \in Nat
  BY <1>1 DEF Calls
<1>5. op = c.ops[n] /\ n \in 1..Len(c.ops)
  BY <1>1, <1>4 DEF GoodCall, CurrentOp
<1>6. CASE c.kind = "sync"
  <2>1. n \in 1..Len(D.batch) /\ Len(c.ops) = Len(D.batch)
    BY <1>1, <1>5, <1>6 DEF WaitsFor
  <2>2. /\ op.id = D.batch[n].id /\ op.type = D.batch[n].type /\ op.cart = D.batch[n].cart
    BY <1>2, <1>5, <1>6, <2>1 DEF Match
  <2>3. D.batch[n].id < nextId /\ D.batch[n].id \in Nat
    BY <1>2, <1>3, <2>1, LaneIds DEF Lane, Below
  <2> QED BY <1>5, <1>6, <2>1, <2>2, <2>3
<1>7. CASE c.kind # "sync"
  <2>1. n = 1
    BY <1>4, <1>5, <1>1, <1>7 DEF GoodCall
  <2>2. D.ops # <<>> /\ c.ops[1].id = D.ops[1].id
    BY <1>1, <1>2, <1>7 DEF WaitsFor, Match
  <2>3. 1 \in 1..Len(D.ops)
    BY <1>3, <2>2, LaneIds, EmptySeq
  <2>4. D.ops[1].id < nextId /\ D.ops[1].id \in Nat
    BY <1>2, <1>3, <2>3, LaneIds DEF Lane, Below
  <2> QED BY <1>5, <1>7, <2>1, <2>2, <2>4
<1> QED BY <1>6, <1>7

LEMMA LaneKept ==
  ASSUME LaneInv, UNCHANGED <<drain, queue, nextId, calls, keys>>
  PROVE  LaneInv'
<1>1. D' = D
  BY DEF D
<1> QED BY <1>1 DEF LaneInv, Alone, Fresh

LEMMA LaneDrains ==
  ASSUME LaneInv, UNCHANGED <<nextId, keys>>, D' = Idle \/ Lane(D', queue', nextId),
         \A s \in Slots : calls'[s] # NoCall => calls'[s].caller = MainTab /\ Match(calls'[s], D')
  PROVE  LaneInv'
BY DEF LaneInv, Alone, Fresh

\* The same with no call at work.
LEMMA LaneQuiet ==
  ASSUME LaneInv, UNCHANGED <<nextId, keys>>, D' = Idle \/ Lane(D', queue', nextId), NoCalls'
  PROVE  LaneInv'
BY DEF LaneInv, Alone, Fresh, NoCalls

LEMMA LaneAppends ==
  ASSUME TillInv, LaneInv, UNCHANGED <<drain, calls, keys>>, nextId' \in Nat, nextId <= nextId',
         \A o \in queue' : o \in queue \/ (o.id \in Nat /\ o.id >= nextId
                                           /\ (o.type = "checkout" => o.id > nextId)),
         \A o \in queue : o.type = "checkout" => o \in queue'
  PROVE  LaneInv'
<1>1. D' = D
  BY DEF D
<1>2. nextId \in Nat
  BY DEF TillInv, GoodQueue
<1>3. ASSUME D # Idle PROVE Lane(D, queue', nextId')
  <2>1. LaneTypes(D, queue, nextId) /\ Lane(D, queue, nextId)
    BY <1>3, TheDrain DEF LaneInv
  <2> QED BY <2>1, LaneGrows
<1>4. Fresh'
  BY <1>2, ServerAssumption DEF LaneInv, Fresh
<1> QED BY <1>1, <1>3, <1>4 DEF LaneInv, Alone

LEMMA CashierLane ==
  ASSUME TillInv, LaneInv, Cashier
  PROVE  LaneInv'
<1>1. nextId \in Nat
  BY DEF TillInv, GoodQueue
<1>2. UNCHANGED <<drain, calls, keys>>
  BY DEF Cashier, EditCart, Checkout, HoldOrder, ResumeOrder, VoidOrder, serverVars
<1>3. \A id, type, cart : Op(id, type, cart).id = id /\ Op(id, type, cart).type = type
  BY DEF Op
<1>4. /\ WithoutTrailingUpsert(queue) \subseteq queue
      /\ \A o \in queue : o.type = "checkout" => o \in WithoutTrailingUpsert(queue)
  BY DEF WithoutTrailingUpsert
<1>5. CASE UNCHANGED <<queue, nextId>>
  BY <1>2, <1>5, LaneKept
<1>6. ASSUME NEW online \in BOOLEAN, Checkout(online), ~CheckedOut PROVE LaneInv'
  <2>1. PICK cart : /\ queue' = WithoutTrailingUpsert(queue)
                         \cup {Op(nextId, "upsert", cart), Op(nextId + 1, "checkout", cart)}
                    /\ nextId' = nextId + 2
    BY <1>6 DEF Checkout
  <2> QED BY <1>1, <1>2, <1>3, <1>4, <2>1, LaneAppends
<1>7. CASE HoldOrder
  <2>1. CASE CheckoutQueued
    <3>1. queue' = queue \cup {Op(nextId, "hold", NoCart)} /\ nextId' = nextId + 1
      BY <1>7, <2>1 DEF HoldOrder
    <3> QED BY <1>1, <1>2, <1>3, <3>1, LaneAppends
  <2>2. CASE ~CheckoutQueued
    <3>1. /\ queue' = WithoutTrailingUpsert(queue)
               \cup {Op(nextId, "upsert", screen.cart), Op(nextId + 1, "hold", NoCart)}
          /\ nextId' = nextId + 2
      BY <1>7, <2>2 DEF HoldOrder
    <3> QED BY <1>1, <1>2, <1>3, <1>4, <3>1, LaneAppends
  <2> QED BY <2>1, <2>2
<1>8. CASE ResumeOrder /\ ~UNCHANGED <<queue, nextId>>
  <2>1. queue' = queue \cup {Op(nextId, "resume", NoCart)} /\ nextId' = nextId + 1
    BY <1>8 DEF ResumeOrder
  <2> QED BY <1>1, <1>2, <1>3, <2>1, LaneAppends
<1>9. CASE VoidOrder /\ ~UNCHANGED <<queue, nextId>>
  <2>1. queue' = queue \cup {Op(nextId, "void", NoCart)} /\ nextId' = nextId + 1
    BY <1>9 DEF VoidOrder
  <2> QED BY <1>1, <1>2, <1>3, <2>1, LaneAppends
<1>10. ASSUME NEW online \in BOOLEAN, Checkout(online), CheckedOut PROVE LaneInv'
  BY <1>5, <1>10 DEF Checkout
<1>11. ASSUME NEW c \in Carts, EditCart(c) PROVE LaneInv'
  BY <1>5, <1>11 DEF EditCart
<1> QED BY <1>5, <1>6, <1>7, <1>8, <1>9, <1>10, <1>11 DEF Cashier

LEMMA EngineLane ==
  ASSUME TillInv, LaneInv, Engine
  PROVE  LaneInv'
<1>1. nextId \in Nat
  BY DEF TillInv, GoodQueue
<1>2. UNCHANGED <<drain, calls, keys>>
  BY DEF Engine, SaveCart, FireDebounce, AppendUpsert, TellCashier, serverVars
<1>3. CASE UNCHANGED <<queue, nextId>>
  BY <1>2, <1>3, LaneKept
<1>4. CASE AppendUpsert /\ MayAppendUpsert
  <2>1. /\ queue' = WithoutTrailingUpsert(queue) \cup {Op(nextId, "upsert", fired)}
        /\ nextId' = nextId + 1
    BY <1>4 DEF AppendUpsert
  <2>2. /\ WithoutTrailingUpsert(queue) \subseteq queue
        /\ \A o \in queue : o.type = "checkout" => o \in WithoutTrailingUpsert(queue)
    BY DEF WithoutTrailingUpsert
  <2>3. Op(nextId, "upsert", fired).id = nextId /\ Op(nextId, "upsert", fired).type = "upsert"
    BY DEF Op
  <2> QED BY <1>1, <1>2, <2>1, <2>2, <2>3, LaneAppends
<1> QED BY <1>3, <1>4 DEF Engine, SaveCart, FireDebounce, AppendUpsert, TellCashier

LEMMA ServerLane ==
  ASSUME TillInv, LaneInv, NEW s \in Slots, ServerStep(s), UNCHANGED tillVars
  PROVE  LaneInv'
<1>1. /\ calls[s] # NoCall /\ calls[s].stage # "done" /\ SameCalls
      /\ \A x \in Slots : x # s => calls'[x] = NoCall
      /\ \A k \in OpIds : k # CurrentOp(calls[s]).id => keys'[k] = keys[k]
  BY ServerDoes DEF LaneInv
<1>2. CurrentOp(calls[s]).id < nextId /\ CurrentOp(calls[s]).id \in Nat
  BY <1>1, OpAhead
<1>3. D' = D /\ nextId' = nextId /\ queue' = queue /\ nextId \in Nat
  BY DEF D, tillVars, TillInv, GoodQueue
<1>4. Fresh'
  <2>1. ASSUME NEW k \in OpIds, k >= nextId PROVE k # CurrentOp(calls[s]).id
    BY <1>2, <1>3, <2>1, ServerAssumption
  <2> QED BY <1>1, <1>3, <2>1 DEF LaneInv, Fresh
<1>5. \A x \in Slots : calls'[x] # NoCall =>
        calls'[x].caller = MainTab /\ Match(calls'[x], D)
  BY <1>1 DEF SameCalls, Match, LaneInv, Alone
<1> QED BY <1>3, <1>4, <1>5 DEF LaneInv, Alone

\* What a drain that runs is known to be.
LEMMA LaneHere ==
  ASSUME TillInv, LaneInv, D # Idle
  PROVE  /\ Lane(D, queue, nextId) /\ LaneTypes(D, queue, nextId) /\ D \in Drains
         /\ D.at # "walk" /\ D.ops # <<>> => D.ops[1].type = "checkout"
         /\ D.at \in {"walk", "fail", "reopen"} => D.batch = <<>>
         /\ D.at \in {"fail", "reopen"} => D.ops # <<>>
         /\ D.at = "put" => D.copy # NoDoc
         /\ D.at = "reopen" => D.ops[1] \notin queue
         /\ D.ops # <<>> => D.ops[1] \in Ops
BY TheDrain DEF LaneInv, Lane, Sorted, Pending, GoodDrain

LEMMA StartDrainLane ==
  ASSUME TillInv, TillInv', LaneInv, StartDrain(MainTab)
  PROVE  LaneInv'
<1>1. /\ D = Idle /\ D'.at = "walk" /\ D'.ops = BySeq(queue) /\ D'.batch = <<>>
      /\ UNCHANGED <<serverVars, queue, nextId>>
  BY StartDrainDoes
<1>2. NoCalls
  BY <1>1, Silent DEF LaneInv
<1>3. GoodQueue(queue, nextId)
  BY DEF TillInv
<1>4. BySeq(queue) \in Seq(Ops) /\ \A n \in 1..Len(BySeq(queue)) : BySeq(queue)[n] \in queue
  BY <1>3, BySeqOrdered
<1>5. CartOps(BySeq(queue))
  BY <1>3, <1>4 DEF CartOps, GoodQueue
<1>6. LaneTypes(D', queue, nextId)
  BY <1>1, <1>3, <1>5, EmptySeq DEF LaneTypes
<1>7. Lane(D', queue, nextId)
  BY <1>1, <1>6, LaneStarts
<1>8. NoCalls' /\ UNCHANGED <<nextId, keys>>
  BY <1>1, <1>2 DEF NoCalls, serverVars
<1> QED BY <1>1, <1>7, <1>8, LaneQuiet

LEMMA SendBatchLane ==
  ASSUME TillInv, LaneInv, SendBatch(MainTab)
  PROVE  LaneInv'
<1>1. /\ D # Idle /\ D.at = "walk" /\ D.ops # <<>> /\ Head(D.ops).type # "checkout"
      /\ D'.at = "wait" /\ D'.batch = NextBatch(D.ops)
      /\ D'.ops = SubSeq(D.ops, Len(D'.batch) + 1, Len(D.ops))
      /\ UNCHANGED <<keys, queue, nextId>>
  BY SendBatchDoes DEF LaneInv
<1>2. \A s \in Slots : calls'[s] # NoCall =>
        /\ calls'[s].caller = MainTab /\ calls'[s].kind = "sync"
        /\ calls'[s].ops = [n \in DOMAIN D'.batch |->
             Sent(D'.batch[n], VersionCursor(D'.batch, D.cursor, n - 1))]
  BY SendBatchDoes DEF LaneInv
<1>3. Lane(D, queue, nextId) /\ LaneTypes(D, queue, nextId)
  BY <1>1, LaneHere
<1>4. Lane(D', queue', nextId)
  BY <1>1, <1>3, LaneSends
<1>5. DOMAIN D'.batch = 1..Len(D'.batch)
  <2>1. NextBatch(D.ops) \in Seq(Ops)
    BY <1>1, <1>3, NextBatchIsFirst DEF LaneTypes
  <2> QED BY <1>1, <2>1
<1>6. ASSUME NEW s \in Slots, calls'[s] # NoCall PROVE Match(calls'[s], D')
  <2>1. ASSUME NEW n \in 1..Len(D'.batch)
        PROVE  /\ calls'[s].ops[n].id = D'.batch[n].id
               /\ calls'[s].ops[n].type = D'.batch[n].type
               /\ calls'[s].ops[n].cart = D'.batch[n].cart
    <3>1. calls'[s].ops[n] = Sent(D'.batch[n], VersionCursor(D'.batch, D.cursor, n - 1))
      BY <1>2, <1>5, <1>6
    <3> QED BY <3>1 DEF Sent
  <2>2. calls'[s].kind = "sync"
    BY <1>2, <1>6
  <2> QED BY <2>1, <2>2 DEF Match
<1> QED BY <1>1, <1>2, <1>4, <1>6, LaneDrains

LEMMA StartCheckoutOpLane ==
  ASSUME TillInv, LaneInv, StartCheckoutOp(MainTab)
  PROVE  LaneInv'
<1>1. /\ D # Idle /\ D.at = "walk" /\ D.ops # <<>> /\ D.ops[1].type = "checkout"
      /\ D'.ops = D.ops /\ D'.batch = D.batch /\ D'.at \in {"fail", "wait"}
      /\ UNCHANGED <<keys, queue, nextId>>
  BY StartCheckoutOpDoes DEF LaneInv
<1>2. \A s \in Slots : calls'[s] # NoCall =>
        /\ calls'[s].caller = MainTab /\ calls'[s].kind = "submit"
        /\ calls'[s].ops = <<Sent(D.ops[1], 0)>>
  BY StartCheckoutOpDoes DEF LaneInv, NoCalls
<1>3. Lane(D, queue, nextId) /\ LaneTypes(D, queue, nextId) /\ D.batch = <<>>
  BY <1>1, LaneHere
<1>4. Lane(D', queue', nextId)
  BY <1>1, <1>3, LaneMoves
<1>5. ASSUME NEW s \in Slots, calls'[s] # NoCall PROVE Match(calls'[s], D')
  <2>1. calls'[s].kind = "submit" /\ calls'[s].ops[1] = Sent(D.ops[1], 0)
    BY <1>2, <1>5
  <2> QED BY <1>1, <1>3, <2>1 DEF Match, Sent
<1> QED BY <1>1, <1>2, <1>4, <1>5, LaneDrains

LEMMA AckOpLane ==
  ASSUME TillInv, LaneInv, AckOp(MainTab), ~amiss'
  PROVE  LaneInv'
<1>1. /\ D # Idle /\ D.at = "ack" /\ D.batch # <<>> /\ NoCalls'
      /\ Head(D.batch) = D.batch[1] /\ queue' = Without(D.batch[1].id)
      /\ D'.ops = D.ops /\ D'.batch = Tail(D.batch) /\ D'.at \in {"walk", "ack", "put"}
      /\ D'.at = "walk" => D'.batch = <<>>
      /\ UNCHANGED <<serverVars, nextId>>
  BY AckOpDoes DEF LaneInv
<1>2. D'.at = "put" => D'.copy # NoDoc
  <2>1. ASSUME D'.at = "put" PROVE D'.copy # NoDoc
    <3>1. doc # NoDoc /\ D'.copy = [doc EXCEPT !.version = D.answers[1].version]
      BY <2>1, AckOpDoes DEF LaneInv
    <3>2. doc \in Docs
      BY <3>1 DEF TillInv, TillTypes
    <3>3. DOMAIN D'.copy = DOMAIN doc /\ "cart" \in DOMAIN doc
      BY <3>1, <3>2 DEF Docs
    <3> QED BY <3>3 DEF NoDoc
  <2> QED BY <2>1
<1>3. Lane(D, queue, nextId) /\ LaneTypes(D, queue, nextId)
  BY <1>1, LaneHere
<1>4. queue' = {o \in queue : o.id # Head(D.batch).id}
  BY <1>1 DEF Without
<1>5. Lane(D', {o \in queue : o.id # Head(D.batch).id}, nextId)
  BY <1>1, <1>2, <1>3, LaneAcks
<1>6. Lane(D', queue', nextId) /\ UNCHANGED <<nextId, keys>>
  BY <1>1, <1>4, <1>5 DEF serverVars
<1> QED BY <1>1, <1>6, LaneQuiet

LEMMA AfterSubmitLane ==
  ASSUME TillInv, LaneInv, NEW s \in Slots, AfterSubmit(MainTab, s)
  PROVE  LaneInv'
<1>1. /\ D # Idle /\ D.at = "wait" /\ D.ops # <<>> /\ calls[s] # NoCall
      /\ calls[s].kind = "submit" /\ UNCHANGED <<keys, queue, nextId>>
  BY AfterSubmitDoes DEF LaneInv
<1>2. /\ Lane(D, queue, nextId) /\ LaneTypes(D, queue, nextId)
      /\ D.batch = <<>> /\ D.ops[1].type = "checkout"
  BY <1>1, LaneHere DEF LaneInv, Match
<1>3. CASE NextCall("sale", calls[s].answers[1].cart) /\ D'.at = "wait" /\ D'.ops = D.ops
           /\ D'.batch = D.batch
  <2>1. Lane(D', queue', nextId)
    BY <1>1, <1>2, <1>3, LaneMoves
  <2>2. \A x \in Slots : calls'[x] # NoCall =>
          calls'[x].caller = MainTab /\ Match(calls'[x], D')
    BY <1>2, <1>3 DEF NextCall, Match
  <2> QED BY <1>1, <2>1, <2>2, LaneDrains
<1>4. CASE D' = Idle /\ NoCalls'
  BY <1>1, <1>4, LaneQuiet
<1>5. CASE NoCalls' /\ D'.at = "fail" /\ D'.ops = D.ops /\ D'.batch = D.batch
  <2>1. Lane(D', queue', nextId)
    BY <1>1, <1>2, <1>5, LaneMoves
  <2> QED BY <1>1, <1>5, <2>1, LaneQuiet
<1> QED BY <1>3, <1>4, <1>5, AfterSubmitDoes DEF LaneInv

LEMMA AfterSaleLane ==
  ASSUME TillInv, LaneInv, NEW s \in Slots, AfterSale(MainTab, s)
  PROVE  LaneInv'
<1>1. /\ D # Idle /\ calls[s] # NoCall /\ calls[s].kind = "sale"
      /\ UNCHANGED <<keys, tillVars>>
  BY AfterSaleDoes DEF LaneInv
<1>2. /\ Lane(D, queue, nextId) /\ D.batch = <<>> /\ D.ops[1].type = "checkout"
  BY <1>1, LaneHere DEF LaneInv, Match
<1>3. D' = D /\ queue' = queue /\ nextId' = nextId
  BY <1>1 DEF D, tillVars
<1>4. \A x \in Slots : calls'[x] # NoCall =>
        /\ calls'[x].caller = MainTab /\ calls'[x].kind \in {"complete", "reopen"}
        /\ calls'[x].ops[1].id = D.ops[1].id
  BY AfterSaleDoes DEF LaneInv, NextCall
<1>5. \A x \in Slots : calls'[x] # NoCall =>
        calls'[x].caller = MainTab /\ Match(calls'[x], D')
  BY <1>2, <1>3, <1>4 DEF Match
<1> QED BY <1>1, <1>2, <1>3, <1>5, LaneDrains

LEMMA AfterCompleteLane ==
  ASSUME TillInv, LaneInv, NEW s \in Slots, AfterComplete(MainTab, s)
  PROVE  LaneInv'
<1>1. /\ D # Idle /\ D.ops # <<>> /\ calls[s] # NoCall /\ calls[s].kind = "complete"
      /\ NoCalls' /\ queue' = Without(D.ops[1].id)
      /\ D'.at = "walk" /\ D'.ops = Tail(D.ops) /\ D'.batch = D.batch
      /\ UNCHANGED <<keys, nextId>>
  BY AfterCompleteDoes DEF LaneInv
<1>2. /\ Lane(D, queue, nextId) /\ LaneTypes(D, queue, nextId)
      /\ D.batch = <<>> /\ D.ops[1].type = "checkout"
  BY <1>1, LaneHere DEF LaneInv, Match
<1>3. /\ queue' \in SUBSET queue /\ D.ops[1] \notin queue'
      /\ \A o \in queue : o.id # D.ops[1].id => o \in queue'
  BY <1>1 DEF Without
<1>4. Lane(D', queue', nextId)
  BY <1>1, <1>2, <1>3, LaneEnds
<1> QED BY <1>1, <1>4, LaneQuiet

LEMMA ReopenDocLane ==
  ASSUME TillInv, LaneInv, ReopenDoc(MainTab)
  PROVE  LaneInv'
<1>1. /\ D # Idle /\ D.at = "reopen" /\ D.ops # <<>> /\ NoCalls'
      /\ D'.at = "walk" /\ D'.ops = Tail(D.ops) /\ D'.batch = D.batch
      /\ UNCHANGED <<serverVars, queue, nextId>>
  BY ReopenDocDoes DEF LaneInv
<1>2. /\ Lane(D, queue, nextId) /\ LaneTypes(D, queue, nextId)
      /\ D.batch = <<>> /\ D.ops[1].type = "checkout" /\ D.ops[1] \notin queue
  BY <1>1, LaneHere
<1>3. Lane(D', queue, nextId)
  BY <1>1, <1>2, LaneEnds
<1> QED BY <1>1, <1>3, LaneQuiet DEF serverVars

LEMMA DrainLane ==
  ASSUME TillInv, TillInv', LaneInv, ~amiss', DrainStep(MainTab)
  PROVE  LaneInv'
<1>1. CASE FinishDrain(MainTab)
  <2>1. /\ D # Idle /\ D.at = "walk" /\ D' = Idle /\ UNCHANGED <<serverVars, nextId>>
    BY <1>1, FinishDrainDoes
  <2>2. NoCalls
    BY <2>1, Silent DEF LaneInv
  <2> QED BY <2>1, <2>2, LaneQuiet DEF NoCalls, serverVars
<1>2. CASE PutVersion(MainTab)
  <2>1. /\ D # Idle /\ D.at = "put" /\ NoCalls' /\ D'.ops = D.ops /\ D'.batch = D.batch
        /\ D'.at = (IF D.batch = <<>> THEN "walk" ELSE "ack")
        /\ UNCHANGED <<serverVars, queue, nextId>>
    BY <1>2, PutVersionDoes DEF LaneInv
  <2>2. /\ Lane(D, queue, nextId) /\ LaneTypes(D, queue, nextId)
        /\ D.ops # <<>> => D.ops[1].type = "checkout"
    BY <2>1, LaneHere
  <2>3. Lane(D', queue', nextId)
    BY <2>1, <2>2, LaneMoves
  <2> QED BY <2>1, <2>3, LaneQuiet DEF serverVars
<1>3. CASE FailCheckout(MainTab)
  <2>1. /\ D # Idle /\ D.at = "fail" /\ NoCalls' /\ queue' = Without(D.ops[1].id)
        /\ D'.at = "reopen" /\ D'.ops = D.ops /\ D'.batch = D.batch
        /\ UNCHANGED <<serverVars, nextId>>
    BY <1>3, FailCheckoutDoes DEF LaneInv
  <2>2. Lane(D, queue, nextId) /\ LaneTypes(D, queue, nextId)
    BY <2>1, LaneHere
  <2>3. Lane(D', {o \in queue : o.id # D.ops[1].id}, nextId)
    BY <2>1, <2>2, LaneFails
  <2>4. Lane(D', queue', nextId)
    BY <2>1, <2>3 DEF Without
  <2> QED BY <2>1, <2>4, LaneQuiet DEF serverVars
<1>4. ASSUME NEW s \in Slots, ReceiveBatch(MainTab, s) PROVE LaneInv'
  <2>1. /\ D # Idle /\ D.at = "wait" /\ NoCalls' /\ D'.at = "ack" /\ D'.ops = D.ops
        /\ D'.batch = D.batch /\ UNCHANGED <<keys, queue, nextId>>
    BY <1>4, ReceiveBatchDoes DEF LaneInv
  <2>2. /\ Lane(D, queue, nextId) /\ LaneTypes(D, queue, nextId)
        /\ D.ops # <<>> => D.ops[1].type = "checkout"
    BY <2>1, LaneHere
  <2>3. Lane(D', queue', nextId)
    BY <2>1, <2>2, LaneMoves
  <2> QED BY <2>1, <2>3, LaneQuiet
<1>5. ASSUME NEW s \in Slots, AfterReopen(MainTab, s) PROVE LaneInv'
  <2>1. /\ D # Idle /\ D.at = "wait" /\ NoCalls' /\ D'.at = "fail" /\ D'.ops = D.ops
        /\ D'.batch = D.batch /\ UNCHANGED <<keys, queue, nextId>>
        /\ calls[s] # NoCall /\ calls[s].kind = "reopen"
    BY <1>5, AfterReopenDoes DEF LaneInv
  <2>2. /\ Lane(D, queue, nextId) /\ LaneTypes(D, queue, nextId)
        /\ D.batch = <<>> /\ D.ops[1].type = "checkout"
    BY <2>1, LaneHere DEF LaneInv, Match
  <2>3. Lane(D', queue', nextId)
    BY <2>1, <2>2, LaneMoves
  <2> QED BY <2>1, <2>3, LaneQuiet
<1> QED BY <1>1, <1>2, <1>3, <1>4, <1>5, StartDrainLane, SendBatchLane, StartCheckoutOpLane,
       AckOpLane, AfterSubmitLane, AfterSaleLane, AfterCompleteLane, ReopenDocLane
    DEF DrainStep

LEMMA LaneStep ==
  ASSUME TillInv, TillInv', LaneInv, ~amiss', CalmNext
  PROVE  LaneInv'
<1>1. CASE CrashServer
  <2>1. NoCalls' /\ UNCHANGED <<keys, queue, nextId>>
    BY <1>1, CrashServerDoes DEF LaneInv
  <2>2. CASE D' = D
    BY <2>1, <2>2, LaneQuiet DEF LaneInv
  <2>3. CASE D' = Idle
    BY <2>1, <2>3, LaneQuiet
  <2>4. CASE /\ D # Idle /\ D.at = "wait"
             /\ \E s \in Slots : calls[s] # NoCall /\ calls[s].kind = "reopen"
             /\ D'.at = "fail" /\ D'.ops = D.ops /\ D'.batch = D.batch
    <3>1. /\ Lane(D, queue, nextId) /\ LaneTypes(D, queue, nextId)
          /\ D.batch = <<>> /\ D.ops[1].type = "checkout"
      BY <2>4, LaneHere DEF LaneInv, Match
    <3>2. Lane(D', queue', nextId)
      BY <2>1, <2>4, <3>1, LaneMoves
    <3> QED BY <2>1, <3>2, LaneQuiet
  <2> QED BY <1>1, <2>2, <2>3, <2>4, CrashServerDoes DEF LaneInv
<1>2. ASSUME NEW s \in Slots PROVE ~Forget(s)
  BY TillAssumption, ServerAssumption DEF Forget, LaneInv, Alone
<1>3. CASE UNCHANGED vars
  BY <1>3, LaneKept DEF vars, serverVars, tillVars
<1> QED BY <1>1, <1>2, <1>3, CashierLane, EngineLane, DrainLane, ServerLane DEF CalmNext

\* A queued checkout, as the drain has it.
LEMMA Queued ==
  ASSUME TillInv, LaneInv, NEW o \in queue, o.type = "checkout"
  PROVE  /\ o \in Ops /\ o.id \in Nat /\ o.id \in OpIds /\ o.id < nextId /\ o.cart \in Carts
         /\ \A p \in queue : p.type = "checkout" => p = o
         /\ \A p \in queue : p.id \in Nat /\ (p.id = o.id => p = o)
         /\ D # Idle => Below(D.batch, o.id)
         /\ D # Idle /\ D.ops # <<>> /\ D.ops[1].type = "checkout" /\ D.at # "reopen" =>
              D.ops[1] = o
         /\ D # Idle /\ Has(D.ops, o) /\ D.at # "walk" => D.ops # <<>> /\ D.ops[1] = o
         /\ D # Idle /\ D.at = "reopen" => ~Has(D.ops, o)
         /\ D # Idle /\ D.ops # <<>> /\ D.ops[1] = o /\ D.batch = <<>> =>
              \A p \in queue : p.id >= o.id
<1>1. GoodQueue(queue, nextId)
  BY DEF TillInv
<1>2. /\ o \in Ops /\ o.id < nextId /\ o.cart \in Carts
  BY <1>1 DEF GoodQueue, WithCart
<1>3. o.id \in OpIds /\ o.id \in Nat
  BY <1>2, ServerAssumption DEF Ops
<1>4. \A p \in queue : p.id \in Nat /\ (p.id = o.id => p = o)
  BY <1>1, ServerAssumption DEF GoodQueue, Ops
<1>5. \A p \in queue : p.type = "checkout" => p = o
  <2>1. ASSUME NEW p \in queue, p.type = "checkout" PROVE p = o
    <3>1. ~(p.id < o.id) /\ ~(o.id < p.id)
      BY <1>1, <2>1 DEF GoodQueue
    <3> QED BY <1>3, <1>4, <3>1
  <2> QED BY <2>1
<1>6. ASSUME D # Idle
      PROVE  /\ Below(D.batch, o.id)
             /\ D.ops # <<>> /\ D.ops[1].type = "checkout" /\ D.at # "reopen" => D.ops[1] = o
             /\ Has(D.ops, o) /\ D.at # "walk" => D.ops # <<>> /\ D.ops[1] = o
             /\ D.at = "reopen" => ~Has(D.ops, o)
             /\ D.ops # <<>> /\ D.ops[1] = o /\ D.batch = <<>> => \A p \in queue : p.id >= o.id
  <2>1. Lane(D, queue, nextId) /\ LaneTypes(D, queue, nextId)
    BY <1>6, LaneHere
  <2>2. Below(D.batch, o.id)
    <3>1. CASE Has(D.ops, o)
      BY <2>1, <3>1 DEF Lane, Sorted, Has
    <3>2. CASE Has(D.batch, o)
      BY <2>1, <3>2 DEF Lane, Sorted, Has
    <3> QED BY <2>1, <3>1, <3>2 DEF Lane, Covered
  <2> QED BY <2>1, <2>2, CheckoutAhead
<1> QED BY <1>2, <1>3, <1>4, <1>5, <1>6

\* A call of a checkout is about the one queued.
LEMMA Checking ==
  ASSUME TillInv, LaneInv, NEW s \in Slots, calls[s] # NoCall, calls[s].kind # "sync"
  PROVE  /\ D # Idle /\ D.at = "wait" /\ D.ops # <<>> /\ D.batch = <<>>
         /\ D.ops[1] \in queue /\ D.ops[1].type = "checkout" /\ CheckoutQueued
         /\ calls[s].ops[1].id = D.ops[1].id
         /\ calls[s].kind = "submit" => calls[s].ops[1] = Sent(D.ops[1], 0)
<1>1. D # Idle /\ D.at = "wait" /\ WaitsFor(D, calls[s])
  BY OnlyCall DEF LaneInv
<1>2. /\ D.ops # <<>> /\ D.batch = <<>> /\ D.ops[1].type = "checkout"
      /\ calls[s].ops[1].id = D.ops[1].id
      /\ calls[s].kind = "submit" => calls[s].ops[1] = Sent(D.ops[1], 0)
  BY <1>1 DEF WaitsFor, LaneInv, Match
<1>3. Lane(D, queue, nextId) /\ LaneTypes(D, queue, nextId)
  BY <1>1, LaneHere
<1>4. 1 \in 1..Len(D.ops)
  BY <1>2, <1>3, LaneIds, EmptySeq
<1>5. D.ops[1] \in queue
  BY <1>1, <1>2, <1>3, <1>4 DEF Lane, Pending
<1> QED BY <1>1, <1>2, <1>5 DEF CheckoutQueued

\* A batch that is acknowledged leaves the checkout queued.
LEMMA AckKeepsCheckout ==
  ASSUME TillInv, LaneInv, D # Idle, D.batch # <<>>, queue' = Without(D.batch[1].id),
         NEW o \in queue, o.type = "checkout"
  PROVE  o \in queue' /\ D.batch[1].id < o.id /\ D.batch[1].id \in Nat
<1>1. Below(D.batch, o.id) /\ o.id \in Nat
  BY Queued
<1>2. LaneTypes(D, queue, nextId)
  BY LaneHere
<1>3. 1 \in 1..Len(D.batch)
  <2>1. Len(D.batch) \in Nat /\ Len(D.batch) # 0
    BY <1>2, EmptySeq, LaneIds DEF LaneTypes
  <2> QED BY <2>1
<1>4. D.batch[1].id < o.id /\ D.batch[1].id \in Nat
  BY <1>1, <1>2, <1>3, LaneIds DEF Below
<1> QED BY <1>1, <1>4 DEF Without

\* The drain starts with the checkout if nothing queued comes before it.
LEMMA HeadOfQueue ==
  ASSUME TillInv, NEW o \in queue, \A p \in queue : p.id >= o.id
  PROVE  BySeq(queue) # <<>> /\ BySeq(queue)[1] = o
<1>1. GoodQueue(queue, nextId)
  BY DEF TillInv
<1>2. PICK ops : ops = BySeq(queue)
  OBVIOUS
<1>3. /\ Increasing(ops) /\ Has(ops, o) /\ ops \in Seq(Ops)
      /\ \A n \in 1..Len(ops) : ops[n] \in queue
  BY <1>1, <1>2, BySeqOrdered
<1>4. PICK n \in 1..Len(ops) : ops[n] = o
  BY <1>3 DEF Has
<1>5. Len(ops) \in Nat /\ 1 \in 1..Len(ops) /\ ops # <<>>
  BY <1>3, <1>4, EmptySeq
<1>6. ops[1].id \in Nat /\ o.id \in Nat /\ ops[1].id >= o.id
  BY <1>1, <1>3, <1>5, ServerAssumption DEF GoodQueue, Ops
<1>7. n = 1
  <2>1. n # 1 => ops[1].id < o.id
    BY <1>3, <1>4, <1>5 DEF Increasing
  <2> QED BY <1>6, <2>1
<1> QED BY <1>2, <1>4, <1>5, <1>7

-----------------------------------------------------------------------------
(* What keeps a checkout from being reported as failed and sold.            *)

\* While a checkout is queued, and after the sale, the cashier is elsewhere
\* or waits.
Quiet ==
  /\ CheckoutQueued => doc # NoDoc /\ doc.status \in {"submitted", "open"}
  /\ Sold /\ ~CheckoutQueued => doc # NoDoc /\ doc.status = "completed"
  /\ CheckoutQueued \/ Sold => ~Saving /\ (screen = NoScreen \/ ui # "idle")
  /\ told = "failed" => ~CheckoutQueued /\ ~Sold

Taken == {"submitted", "completed"}
Reopens == \E s \in Slots : calls[s] # NoCall /\ calls[s].kind = "reopen"

\* A checkout whose submit has reached the server: it is the next op, and
\* its answer is remembered for as long as it may be sold.
Submitted(o) ==
  /\ keys[o.id] # Unknown =>
       /\ \A p \in queue : p.id >= o.id
       /\ D # Idle => /\ D.batch = <<>> /\ D.ops # <<>> /\ D.ops[1] = o
                      /\ D.at \in {"walk", "wait", "fail"} /\ (D.at = "walk" => ~D.failed)
  /\ keys[o.id].state = "done" =>
       /\ keys[o.id].op = Sent(o, 0) /\ keys[o.id].answer.code = "ok"
       /\ order.status \in Taken \/ (D # Idle /\ D.at = "fail") \/ Reopens
  /\ Sold => keys[o.id].state = "done" /\ order.status \in Taken

\* The call a checkout is at.
Selling(c, o) ==
  /\ c.kind = "submit" =>
       /\ c.stage \in {"work", "store"} =>
            keys[o.id] # Unknown /\ keys[o.id].state = "running"
       /\ c.stage = "store" => c.pending.code = "ok" /\ order.status = "submitted"
       /\ c.stage = "done" /\ c.answers[1].code = "ok" => keys[o.id].state = "done"
       /\ c.stage = "done" /\ Sold => c.answers[1].code = "ok"
  /\ c.kind \in {"sale", "complete"} => keys[o.id].state = "done"
  /\ c.kind = "sale" /\ c.stage = "done" /\ c.answers[1].code # "ok" => ~Sold
  /\ c.kind = "complete" /\ c.stage = "done" => c.answers[1].code = "ok"
  /\ c.kind = "reopen" => ~Sold

SettledInv ==
  /\ Quiet
  /\ D # Idle /\ D.at \in {"fail", "reopen"} => ~Sold
  /\ \A o \in queue : o.type = "checkout" => Submitted(o)
  /\ \A s \in Slots : calls[s] # NoCall /\ calls[s].kind # "sync" => Selling(calls[s], D.ops[1])

-----------------------------------------------------------------------------
(* The settled checkout through the steps of the cashier and the engine.    *)

\* Nothing is to be settled where no checkout is queued and nothing is sold.
LEMMA NothingToSettle ==
  ASSUME TillInv, LaneInv, ~CheckoutQueued, ~CheckoutQueued', ~Sold, UNCHANGED serverVars
  PROVE  SettledInv'
<1>1. ~Sold' /\ calls' = calls
  BY DEF Sold, serverVars
<1>2. Quiet'
  BY <1>1 DEF Quiet
<1>3. \A s \in Slots : ~(calls'[s] # NoCall /\ calls'[s].kind # "sync")
  BY <1>1, Checking
<1>4. \A o \in queue' : o.type # "checkout"
  BY DEF CheckoutQueued
<1> QED BY <1>1, <1>2, <1>3, <1>4 DEF SettledInv

LEMMA SettledKept ==
  ASSUME SettledInv, Quiet', UNCHANGED <<serverVars, queue, drain>>
  PROVE  SettledInv'
<1>1. D' = D /\ (Sold' <=> Sold) /\ (Reopens' <=> Reopens)
  BY DEF D, Sold, serverVars, Reopens
<1>2. ASSUME NEW o \in queue', o.type = "checkout" PROVE Submitted(o)'
  BY <1>1, <1>2 DEF SettledInv, Submitted, serverVars
<1>3. ASSUME NEW s \in Slots, calls'[s] # NoCall /\ calls'[s].kind # "sync"
      PROVE  Selling(calls[s], D.ops[1])'
  BY <1>1, <1>3 DEF SettledInv, Selling, serverVars
<1> QED BY <1>1, <1>2, <1>3 DEF SettledInv

\* The cashier can only go on when no checkout is queued and nothing is sold.
LEMMA CashierWaits ==
  ASSUME SettledInv, CashierFree, screen # NoScreen
  PROVE  ~CheckoutQueued /\ ~Sold
BY DEF SettledInv, Quiet, CashierFree

LEMMA CheckoutSettled ==
  ASSUME TillInv, LaneInv, SettledInv, NEW online \in BOOLEAN, Checkout(online)
  PROVE  SettledInv'
<1>1. ~CheckoutQueued /\ ~Sold /\ ~Saving
  BY CashierWaits DEF Checkout, HasLines, CashierFree
<1>2. UNCHANGED <<serverVars, drain, save>>
  BY DEF Checkout
<1>3. CASE CheckedOut
  <2>1. queue' = queue
    BY <1>3 DEF Checkout
  <2> QED BY <1>1, <1>2, <2>1, NothingToSettle DEF CheckoutQueued
<1>4. CASE ~CheckedOut
  <2>1. PICK snapshot, cart :
          /\ doc' = Stored(snapshot, "submitted")
          /\ queue' = WithoutTrailingUpsert(queue)
               \cup {Op(nextId, "upsert", cart), Op(nextId + 1, "checkout", cart)}
    BY <1>4 DEF Checkout
  <2>2. nextId + 1 \in OpIds /\ nextId \in Nat
    BY DEF Checkout, CanAppend, TillInv, GoodQueue
  <2>3. keys[nextId + 1] = Unknown
    BY <2>2 DEF LaneInv, Fresh
  <2>4. doc' # NoDoc /\ doc'.status = "submitted"
    BY <2>1 DEF Stored, NoDoc
  <2>5. screen' = NoScreen \/ ui' # "idle"
    BY DEF Checkout
  <2>6. told' # "failed"
    BY <1>4 DEF Checkout
  <2>7. Quiet'
    BY <1>1, <1>2, <2>4, <2>5, <2>6 DEF Quiet, Saving, Sold, serverVars
  <2>8. ASSUME NEW o \in queue', o.type = "checkout" PROVE Submitted(o)'
    <3>1. o.id = nextId + 1
      BY <1>1, <2>1, <2>8 DEF Op, CheckoutQueued, WithoutTrailingUpsert
    <3>2. keys'[o.id] = Unknown /\ ~Sold'
      BY <1>1, <1>2, <2>3, <3>1 DEF Sold, serverVars
    <3> QED BY <3>2 DEF Submitted, Unknown
  <2>9. \A s \in Slots : ~(calls'[s] # NoCall /\ calls'[s].kind # "sync")
    BY <1>1, <1>2, Checking DEF serverVars
  <2> QED BY <1>1, <1>2, <2>7, <2>8, <2>9 DEF SettledInv, Sold, serverVars
<1> QED BY <1>3, <1>4

LEMMA CashierSettled ==
  ASSUME TillInv, LaneInv, SettledInv, Cashier
  PROVE  SettledInv'
<1>1. UNCHANGED serverVars
  BY DEF Cashier, EditCart, Checkout, HoldOrder, ResumeOrder, VoidOrder
<1>2. \A id, cart : /\ Op(id, "upsert", cart).type # "checkout"
                    /\ Op(id, "hold", cart).type # "checkout"
                    /\ Op(id, "resume", cart).type # "checkout"
                    /\ Op(id, "void", cart).type # "checkout"
  BY DEF Op
<1>3. WithoutTrailingUpsert(queue) \subseteq queue
  BY DEF WithoutTrailingUpsert
<1>4. ASSUME NEW c \in Carts, EditCart(c) PROVE SettledInv'
  <2>1. ~CheckoutQueued /\ ~Sold /\ queue' = queue
    BY <1>4, CashierWaits DEF EditCart
  <2> QED BY <1>1, <2>1, NothingToSettle DEF CheckoutQueued
<1>5. CASE HoldOrder
  <2>1. ~CheckoutQueued /\ ~Sold
    BY <1>5, CashierWaits DEF HoldOrder, HasLines
  <2>2. queue' = WithoutTrailingUpsert(queue)
          \cup {Op(nextId, "upsert", screen.cart), Op(nextId + 1, "hold", NoCart)}
    BY <1>5, <2>1 DEF HoldOrder
  <2>3. ~CheckoutQueued'
    BY <1>2, <1>3, <2>1, <2>2 DEF CheckoutQueued
  <2> QED BY <1>1, <2>1, <2>3, NothingToSettle
<1>6. CASE ResumeOrder
  <2>1. ~CheckoutQueued /\ ~Sold
    BY <1>6 DEF ResumeOrder, SettledInv, Quiet
  <2>2. queue' = queue \/ queue' = queue \cup {Op(nextId, "resume", NoCart)}
    BY <1>6 DEF ResumeOrder
  <2>3. ~CheckoutQueued'
    BY <1>2, <2>1, <2>2 DEF CheckoutQueued
  <2> QED BY <1>1, <2>1, <2>3, NothingToSettle
<1>7. CASE VoidOrder
  <2>1. ~CheckoutQueued /\ ~Sold
    BY <1>7, CashierWaits DEF VoidOrder, HasLines
  <2>2. queue' = queue \/ queue' = queue \cup {Op(nextId, "void", NoCart)}
    BY <1>7 DEF VoidOrder
  <2>3. ~CheckoutQueued'
    BY <1>2, <2>1, <2>2 DEF CheckoutQueued
  <2> QED BY <1>1, <2>1, <2>3, NothingToSettle
<1> QED BY <1>4, <1>5, <1>6, <1>7, CheckoutSettled DEF Cashier

LEMMA EngineSettled ==
  ASSUME TillInv, LaneInv, SettledInv, Engine, ~amiss'
  PROVE  SettledInv'
<1>1. UNCHANGED <<serverVars, drain>>
  BY DEF Engine, SaveCart, FireDebounce, AppendUpsert, TellCashier
<1>2. CASE SaveCart
  <2>1. ~CheckoutQueued /\ ~Sold /\ queue' = queue
    BY <1>2 DEF SaveCart, SettledInv, Quiet
  <2> QED BY <1>1, <2>1, NothingToSettle DEF CheckoutQueued
<1>3. CASE FireDebounce
  <2>1. UNCHANGED <<screen, doc, queue, save, ui, told>>
    BY <1>3 DEF FireDebounce
  <2>2. Quiet'
    BY <1>1, <2>1 DEF SettledInv, Quiet, CheckoutQueued, Sold, Saving, serverVars
  <2> QED BY <1>1, <2>1, <2>2, SettledKept
<1>4. CASE AppendUpsert /\ MayAppendUpsert
  <2>1. ~CheckoutQueued /\ ~Sold
    BY <1>4 DEF MayAppendUpsert, SettledInv, Quiet
  <2>2. queue' = WithoutTrailingUpsert(queue) \cup {Op(nextId, "upsert", fired)}
    BY <1>4 DEF AppendUpsert
  <2>3. ~CheckoutQueued'
    BY <2>1, <2>2 DEF CheckoutQueued, WithoutTrailingUpsert, Op
  <2> QED BY <1>1, <2>1, <2>3, NothingToSettle
<1>5. CASE AppendUpsert /\ ~MayAppendUpsert
  <2>1. UNCHANGED <<screen, doc, queue, save, ui, told>>
    BY <1>5 DEF AppendUpsert
  <2>2. Quiet'
    BY <1>1, <2>1 DEF SettledInv, Quiet, CheckoutQueued, Sold, Saving, serverVars
  <2> QED BY <1>1, <2>1, <2>2, SettledKept
<1>6. CASE TellCashier
  <2>1. UNCHANGED <<doc, queue, save>> /\ told' = Outcome
    BY <1>6 DEF TellCashier
  <2>2. /\ CheckoutQueued' <=> CheckoutQueued
        /\ Sold' <=> Sold
        /\ Saving' <=> Saving
    BY <1>1, <2>1 DEF CheckoutQueued, Sold, Saving, serverVars
  <2>3. CASE Outcome = "failed"
    <3>1. ~CheckoutQueued
      BY <1>6, <2>3 DEF TellCashier
    <3>2. ~Sold
      BY <2>3, <3>1 DEF Outcome, SettledInv, Quiet
    <3> QED BY <1>1, <2>2, <3>1, <3>2, NothingToSettle
  <2>4. CASE Outcome # "failed"
    <3>1. screen' = NoScreen /\ told' # "failed"
      BY <1>6, <2>1, <2>4 DEF TellCashier
    <3>2. Quiet'
      BY <2>1, <2>2, <3>1 DEF SettledInv, Quiet
    <3> QED BY <1>1, <2>1, <3>2, SettledKept
  <2> QED BY <2>3, <2>4
<1> QED BY <1>2, <1>3, <1>4, <1>5, <1>6 DEF Engine

-----------------------------------------------------------------------------
(* The settled checkout through the steps of the drain.                     *)

\* A batch is only sent while no submit of a queued checkout has arrived.
LEMMA NoSubmitYet ==
  ASSUME TillInv, LaneInv, SettledInv, NEW s \in Slots, calls[s] # NoCall,
         calls[s].kind = "sync", NEW o \in queue, o.type = "checkout"
  PROVE  keys[o.id] = Unknown /\ ~Sold
<1>1. D # Idle /\ WaitsFor(D, calls[s]) /\ GoodCall(calls[s]) /\ calls[s] \in Calls
  BY OnlyCall DEF LaneInv
<1>2. Len(calls[s].ops) = Len(D.batch) /\ calls[s].ops # <<>>
  BY <1>1 DEF WaitsFor, GoodCall
<1>3. calls[s].ops \in Seq(WireOps)
  BY <1>1 DEF Calls
<1>4. D.batch # <<>>
  BY <1>2, <1>3, EmptySeq
<1>5. keys[o.id] = Unknown
  BY <1>1, <1>4 DEF SettledInv, Submitted
<1>6. ~Sold
  BY <1>5 DEF SettledInv, Submitted, Unknown
<1> QED BY <1>5, <1>6

\* A step of the drain that leaves the rows of the server as they are.
LEMMA DrainSettles ==
  ASSUME TillInv, LaneInv, SettledInv, UNCHANGED <<order, sales, keys>>, Quiet',
         D' # Idle /\ D'.at \in {"fail", "reopen"} => ~Sold,
         queue' \subseteq queue,
         \A o \in queue' : o.type = "checkout" /\ keys[o.id] # Unknown =>
           /\ D' # Idle => /\ D'.batch = <<>> /\ D'.ops # <<>> /\ D'.ops[1] = o
                           /\ D'.at \in {"walk", "wait", "fail"} /\ (D'.at = "walk" => ~D'.failed)
           /\ keys[o.id].state = "done" =>
                order.status \in Taken \/ (D' # Idle /\ D'.at = "fail") \/ Reopens',
         \A s \in Slots : calls'[s] # NoCall /\ calls'[s].kind # "sync" =>
           Selling(calls[s], D.ops[1])'
  PROVE  SettledInv'
<1>1. Sold' <=> Sold
  BY DEF Sold
<1>2. ASSUME NEW o \in queue', o.type = "checkout" PROVE Submitted(o)'
  <2>1. o \in queue /\ Submitted(o)
    BY <1>2 DEF SettledInv
  <2>2. Unknown.state = "free"
    BY DEF Unknown
  <2>3. keys'[o.id] = keys[o.id] /\ order' = order
    OBVIOUS
  <2>4. CASE keys[o.id] = Unknown
    BY <1>1, <2>1, <2>2, <2>3, <2>4 DEF Submitted
  <2>5. CASE keys[o.id] # Unknown
    <3>1. \A p \in queue' : p.id >= o.id
      BY <2>1, <2>5 DEF Submitted
    <3> QED BY <1>1, <1>2, <2>1, <2>3, <2>5, <3>1 DEF Submitted
  <2> QED BY <2>4, <2>5
<1> QED BY <1>1, <1>2 DEF SettledInv

\* Where no call reopens the order, what was accepted is still taken.
LEMMA StillTaken ==
  ASSUME TillInv, LaneInv, SettledInv, NEW o \in queue, o.type = "checkout",
         keys[o.id].state = "done", D = Idle \/ D.at # "fail",
         \A s \in Slots : calls[s] # NoCall => calls[s].kind # "reopen"
  PROVE  order.status \in Taken
BY DEF SettledInv, Submitted, Reopens

\* The same, between calls.
LEMMA TakenBetween ==
  ASSUME TillInv, LaneInv, SettledInv, NEW o \in queue, o.type = "checkout",
         keys[o.id].state = "done", D = Idle \/ D.at \notin {"fail", "wait"}
  PROVE  order.status \in Taken
<1>1. NoCalls
  BY Silent DEF LaneInv
<1> QED BY <1>1, StillTaken DEF NoCalls

\* And while one other call is at work.
LEMMA TakenDuring ==
  ASSUME TillInv, LaneInv, SettledInv, NEW o \in queue, o.type = "checkout",
         keys[o.id].state = "done", NEW s \in Slots, calls[s] # NoCall,
         calls[s].kind # "reopen"
  PROVE  order.status \in Taken
<1>1. /\ \A x \in Slots : x # s => calls[x] = NoCall
      /\ D.at = "wait"
  BY OnlyCall DEF LaneInv
<1> QED BY <1>1, StillTaken

LEMMA QuietKept ==
  ASSUME Quiet, UNCHANGED <<sales, screen, doc, queue, save, told>>, ui = "idle" <=> ui' = "idle"
  PROVE  Quiet'
BY DEF Quiet, CheckoutQueued, Sold, Saving

LEMMA StartDrainSettled ==
  ASSUME TillInv, LaneInv, SettledInv, StartDrain(MainTab)
  PROVE  SettledInv'
<1>1. /\ D = Idle /\ D'.at = "walk" /\ D'.ops = BySeq(queue) /\ D'.batch = <<>> /\ ~D'.failed
      /\ UNCHANGED <<serverVars, screen, doc, queue, save, told>> /\ (ui = "idle" <=> ui' = "idle")
  BY StartDrainDoes
<1>2. UNCHANGED <<order, sales, keys, calls>>
  BY <1>1 DEF serverVars
<1>3. Quiet'
  BY <1>1, <1>2, QuietKept DEF SettledInv
<1>4. ASSUME NEW o \in queue', o.type = "checkout", keys[o.id] # Unknown
      PROVE  /\ D'.ops # <<>> /\ D'.ops[1] = o
             /\ keys[o.id].state = "done" => order.status \in Taken
  <2>1. o \in queue /\ \A p \in queue : p.id >= o.id
    BY <1>1, <1>4 DEF SettledInv, Submitted
  <2> QED BY <1>1, <1>4, <2>1, HeadOfQueue, TakenBetween
<1>5. NoCalls'
  BY <1>1, <1>2, Silent DEF LaneInv, NoCalls
<1> QED BY <1>1, <1>2, <1>3, <1>4, <1>5, DrainSettles DEF NoCalls

LEMMA StartCheckoutOpSettled ==
  ASSUME TillInv, LaneInv, SettledInv, StartCheckoutOp(MainTab)
  PROVE  SettledInv'
<1>1. /\ D # Idle /\ D.at = "walk" /\ D.ops # <<>> /\ D.ops[1].type = "checkout"
      /\ D'.ops = D.ops /\ D'.batch = D.batch /\ D'.failed = D.failed
      /\ UNCHANGED <<order, sales, keys, screen, doc, queue, save, told, ui>>
  BY StartCheckoutOpDoes DEF LaneInv
<1>2. Quiet'
  BY <1>1, QuietKept DEF SettledInv
<1>3. Lane(D, queue, nextId) /\ LaneTypes(D, queue, nextId)
  BY <1>1, LaneHere
<1>4. 1 \in 1..Len(D.ops)
  BY <1>1, <1>3, LaneIds, EmptySeq
<1>5. D.ops[1] \in queue
  BY <1>1, <1>3, <1>4 DEF Lane, Pending
<1>6. ASSUME NEW o \in queue', o.type = "checkout", keys[o.id] # Unknown
      PROVE  /\ D'.batch = <<>> /\ D'.ops # <<>> /\ D'.ops[1] = o /\ ~D.failed
             /\ keys[o.id].state = "done" => order.status \in Taken
  <2>1. o \in queue /\ Submitted(o)
    BY <1>1, <1>6 DEF SettledInv
  <2> QED BY <1>1, <1>6, <2>1, TakenBetween DEF Submitted
<1>7. CASE D.failed /\ D'.at = "fail" /\ NoCalls'
  <2>1. Submitted(D.ops[1])
    BY <1>1, <1>5 DEF SettledInv
  <2>2. ~Sold
    BY <1>1, <1>7, <2>1 DEF Submitted, Unknown
  <2> QED BY <1>1, <1>2, <1>6, <1>7, <2>2, DrainSettles DEF NoCalls
<1>8. CASE /\ ~D.failed /\ D'.at = "wait"
           /\ \A s \in Slots : calls'[s] # NoCall =>
                calls'[s].kind = "submit" /\ calls'[s].stage = "begin"
  <2>1. ASSUME NEW s \in Slots, calls'[s] # NoCall PROVE Selling(calls[s], D.ops[1])'
    BY <1>8, <2>1 DEF Selling
  <2> QED BY <1>1, <1>2, <1>6, <1>8, <2>1, DrainSettles
<1> QED BY <1>7, <1>8, StartCheckoutOpDoes DEF LaneInv

LEMMA AckOpSettled ==
  ASSUME TillInv, LaneInv, SettledInv, AckOp(MainTab), ~amiss'
  PROVE  SettledInv'
<1>1. /\ D # Idle /\ D.at = "ack" /\ D.batch # <<>> /\ NoCalls'
      /\ queue' = Without(D.batch[1].id) /\ D'.at \in {"walk", "ack", "put"}
      /\ UNCHANGED <<serverVars, screen, doc, save, told, ui>>
  BY AckOpDoes DEF LaneInv
<1>2. UNCHANGED <<order, sales, keys>>
  BY <1>1 DEF serverVars
<1>3. queue' \subseteq queue /\ (CheckoutQueued' <=> CheckoutQueued)
  BY <1>1, AckKeepsCheckout DEF Without, CheckoutQueued
<1>4. Quiet'
  BY <1>1, <1>2, <1>3 DEF SettledInv, Quiet, Sold, Saving
<1>5. \A o \in queue' : o.type = "checkout" => keys[o.id] = Unknown
  BY <1>1, <1>3 DEF SettledInv, Submitted
<1> QED BY <1>1, <1>2, <1>3, <1>4, <1>5, DrainSettles DEF NoCalls

LEMMA PutVersionSettled ==
  ASSUME TillInv, LaneInv, SettledInv, PutVersion(MainTab), ~amiss'
  PROVE  SettledInv'
<1>1. /\ D # Idle /\ D.at = "put" /\ NoCalls' /\ doc' = D.copy
      /\ doc # NoDoc => doc.status = D.copy.status
      /\ D'.at = (IF D.batch = <<>> THEN "walk" ELSE "ack")
      /\ UNCHANGED <<serverVars, screen, queue, save, told, ui>>
  BY PutVersionDoes DEF LaneInv
<1>2. UNCHANGED <<order, sales, keys>>
  BY <1>1 DEF serverVars
<1>3. D.copy # NoDoc
  BY <1>1, LaneHere
<1>4. Quiet'
  BY <1>1, <1>2, <1>3 DEF SettledInv, Quiet, Sold, Saving, CheckoutQueued
<1>5. \A o \in queue' : o.type = "checkout" => keys[o.id] = Unknown
  BY <1>1 DEF SettledInv, Submitted
<1> QED BY <1>1, <1>2, <1>4, <1>5, DrainSettles DEF NoCalls

LEMMA AfterSubmitSettled ==
  ASSUME TillInv, LaneInv, SettledInv, NEW s \in Slots, AfterSubmit(MainTab, s)
  PROVE  SettledInv'
<1>1. /\ D # Idle /\ D.at = "wait" /\ calls[s] # NoCall /\ calls[s].kind = "submit"
      /\ calls[s].stage = "done"
      /\ UNCHANGED <<order, sales, keys, screen, doc, queue, save, told>>
      /\ ui = "idle" <=> ui' = "idle"
  BY AfterSubmitDoes DEF LaneInv
<1>2. Quiet'
  BY <1>1, QuietKept DEF SettledInv
<1>3. Selling(calls[s], D.ops[1])
  BY <1>1 DEF SettledInv
<1>4. ASSUME NEW o \in queue', o.type = "checkout", keys[o.id] # Unknown
      PROVE  /\ D.batch = <<>> /\ D.ops # <<>> /\ D.ops[1] = o
             /\ keys[o.id].state = "done" => order.status \in Taken
  <2>1. o \in queue /\ Submitted(o)
    BY <1>1, <1>4 DEF SettledInv
  <2> QED BY <1>1, <1>4, <2>1, TakenDuring DEF Submitted
<1>5. CASE /\ calls[s].answers[1].code = "ok" /\ D' # Idle /\ D'.at = "wait"
           /\ D'.ops = D.ops /\ D'.batch = D.batch /\ NextCall("sale", calls[s].answers[1].cart)
  <2>1. keys[D.ops[1].id].state = "done"
    BY <1>1, <1>3, <1>5 DEF Selling
  <2>2. ASSUME NEW x \in Slots, calls'[x] # NoCall PROVE Selling(calls[x], D.ops[1])'
    <3>1. calls'[x].kind = "sale" /\ calls'[x].stage = "work"
      BY <1>5, <2>2 DEF NextCall
    <3> QED BY <1>1, <1>5, <2>1, <3>1 DEF Selling
  <2> QED BY <1>1, <1>2, <1>4, <1>5, <2>2, DrainSettles
<1>6. CASE calls[s].answers[1].code # "ok" /\ D' = Idle /\ NoCalls'
  BY <1>1, <1>2, <1>4, <1>6, DrainSettles DEF NoCalls
<1>7. CASE /\ calls[s].answers[1].code # "ok" /\ NoCalls'
           /\ D'.at = "fail" /\ D'.ops = D.ops /\ D'.batch = D.batch
  <2>1. ~Sold
    BY <1>1, <1>3, <1>7 DEF Selling
  <2> QED BY <1>1, <1>2, <1>4, <1>7, <2>1, DrainSettles DEF NoCalls
<1> QED BY <1>5, <1>6, <1>7, AfterSubmitDoes DEF LaneInv

LEMMA AfterSaleSettled ==
  ASSUME TillInv, LaneInv, SettledInv, NEW s \in Slots, AfterSale(MainTab, s)
  PROVE  SettledInv'
<1>1. /\ D # Idle /\ D.at = "wait" /\ calls[s] # NoCall /\ calls[s].kind = "sale"
      /\ calls[s].stage = "done" /\ UNCHANGED <<order, sales, keys, tillVars>>
  BY AfterSaleDoes DEF LaneInv
<1>2. D' = D /\ UNCHANGED <<screen, doc, queue, save, told, ui>>
  BY <1>1 DEF D, tillVars
<1>3. Quiet'
  BY <1>1, <1>2, QuietKept DEF SettledInv
<1>4. Selling(calls[s], D.ops[1])
  BY <1>1 DEF SettledInv
<1>5. keys[D.ops[1].id].state = "done"
  BY <1>1, <1>4 DEF Selling
<1>6. ASSUME NEW o \in queue', o.type = "checkout", keys[o.id] # Unknown
      PROVE  /\ D.batch = <<>> /\ D.ops # <<>> /\ D.ops[1] = o
             /\ keys[o.id].state = "done" => order.status \in Taken
  <2>1. o \in queue /\ Submitted(o)
    BY <1>2, <1>6 DEF SettledInv
  <2> QED BY <1>1, <1>6, <2>1, TakenDuring DEF Submitted
<1>7. ASSUME NEW x \in Slots, calls'[x] # NoCall PROVE Selling(calls[x], D.ops[1])'
  <2>1. CASE calls[s].answers[1].code = "ok" /\ NextCall("complete", NoCart)
    <3>1. calls'[x].kind = "complete" /\ calls'[x].stage = "work"
      BY <1>7, <2>1 DEF NextCall
    <3> QED BY <1>1, <1>2, <1>5, <3>1 DEF Selling
  <2>2. CASE calls[s].answers[1].code # "ok" /\ NextCall("reopen", NoCart)
    <3>1. calls'[x].kind = "reopen" /\ calls'[x].stage = "work"
      BY <1>7, <2>2 DEF NextCall
    <3>2. ~Sold
      BY <1>1, <1>4, <2>2 DEF Selling
    <3> QED BY <1>1, <3>1, <3>2 DEF Selling, Sold
  <2> QED BY <2>1, <2>2, AfterSaleDoes DEF LaneInv
<1> QED BY <1>1, <1>2, <1>3, <1>6, <1>7, DrainSettles

LEMMA AfterCompleteSettled ==
  ASSUME TillInv, LaneInv, SettledInv, NEW s \in Slots, AfterComplete(MainTab, s)
  PROVE  SettledInv'
<1>1. /\ D # Idle /\ calls[s] # NoCall /\ calls[s].kind = "complete"
      /\ calls[s].stage = "done" /\ NoCalls' /\ queue' = Without(D.ops[1].id)
      /\ D'.at = "walk" /\ UNCHANGED <<order, sales, keys, screen, save, told, ui>>
  BY AfterCompleteDoes DEF LaneInv
<1>2. D.ops[1] \in queue /\ D.ops[1].type = "checkout" /\ CheckoutQueued
  BY <1>1, Checking
<1>3. Selling(calls[s], D.ops[1])
  BY <1>1 DEF SettledInv
<1>4. calls[s].answers[1].code = "ok" /\ doc # NoDoc
  BY <1>1, <1>2, <1>3 DEF Selling, SettledInv, Quiet
<1>5. doc' # NoDoc /\ doc'.status = "completed"
  BY <1>4, AfterCompleteDoes DEF LaneInv
<1>6. queue' \subseteq queue /\ \A o \in queue' : o.type # "checkout"
  BY <1>1, <1>2, Queued DEF Without
<1>7. Quiet'
  BY <1>1, <1>2, <1>5, <1>6 DEF SettledInv, Quiet, CheckoutQueued, Sold, Saving
<1> QED BY <1>1, <1>6, <1>7, DrainSettles DEF NoCalls

LEMMA FailCheckoutSettled ==
  ASSUME TillInv, LaneInv, SettledInv, FailCheckout(MainTab)
  PROVE  SettledInv'
<1>1. /\ D # Idle /\ D.at = "fail" /\ D.ops # <<>> /\ NoCalls'
      /\ queue' = Without(D.ops[1].id) /\ UNCHANGED <<serverVars, screen, save, told, ui>>
  BY FailCheckoutDoes DEF LaneInv
<1>2. ~Sold /\ UNCHANGED <<order, sales, keys>>
  BY <1>1 DEF SettledInv, serverVars
<1>3. queue' \subseteq queue /\ \A o \in queue' : o.type # "checkout"
  <2>1. ASSUME NEW o \in queue, o.type = "checkout" PROVE o \notin queue'
    <3>1. D.ops[1].type = "checkout"
      BY <1>1, LaneHere
    <3>2. D.ops[1] = o
      BY <1>1, <2>1, <3>1, Queued
    <3> QED BY <1>1, <3>2 DEF Without
  <2> QED BY <1>1, <2>1 DEF Without
<1>4. Quiet'
  BY <1>2, <1>3 DEF Quiet, CheckoutQueued, Sold
<1> QED BY <1>1, <1>2, <1>3, <1>4, DrainSettles DEF NoCalls

LEMMA ReopenDocSettled ==
  ASSUME TillInv, LaneInv, SettledInv, ReopenDoc(MainTab)
  PROVE  SettledInv'
<1>1. /\ D # Idle /\ D.at = "reopen" /\ NoCalls' /\ D'.at = "walk"
      /\ doc = NoDoc => doc' = NoDoc
      /\ doc # NoDoc => doc' # NoDoc /\ doc'.status = "open"
      /\ UNCHANGED <<serverVars, screen, queue, save, told, ui>>
  BY ReopenDocDoes DEF LaneInv
<1>2. ~Sold /\ UNCHANGED <<order, sales, keys>>
  BY <1>1 DEF SettledInv, serverVars
<1>3. Quiet'
  BY <1>1, <1>2 DEF SettledInv, Quiet, CheckoutQueued, Sold, Saving
<1>4. \A o \in queue' : o.type = "checkout" => keys[o.id] = Unknown
  BY <1>1 DEF SettledInv, Submitted
<1> QED BY <1>1, <1>2, <1>3, <1>4, DrainSettles DEF NoCalls

LEMMA DrainSettled ==
  ASSUME TillInv, LaneInv, SettledInv, ~amiss', DrainStep(MainTab)
  PROVE  SettledInv'
<1>1. CASE FinishDrain(MainTab)
  <2>1. /\ D # Idle /\ D.at = "walk" /\ D.ops = <<>> /\ D' = Idle
        /\ UNCHANGED <<serverVars, screen, doc, queue, save, told>> /\ (ui = "idle" <=> ui' = "idle")
    BY <1>1, FinishDrainDoes
  <2>2. UNCHANGED <<order, sales, keys, calls>>
    BY <2>1 DEF serverVars
  <2>3. Quiet'
    BY <2>1, <2>2, QuietKept DEF SettledInv
  <2>4. \A o \in queue' : o.type = "checkout" => keys[o.id] = Unknown
    BY <2>1 DEF SettledInv, Submitted
  <2>5. NoCalls'
    BY <2>1, <2>2, Silent DEF LaneInv, NoCalls
  <2> QED BY <2>1, <2>2, <2>3, <2>4, <2>5, DrainSettles DEF NoCalls
<1>2. CASE SendBatch(MainTab)
  <2>1. /\ D # Idle /\ D.at = "walk" /\ D.ops # <<>> /\ D.ops[1].type # "checkout"
        /\ D' # Idle /\ D'.at = "wait"
        /\ UNCHANGED <<order, sales, keys, screen, doc, queue, save, told, ui>>
    BY <1>2, SendBatchDoes DEF LaneInv
  <2>2. \A s \in Slots : calls'[s] # NoCall => calls'[s].kind = "sync"
    BY <1>2, SendBatchDoes DEF LaneInv
  <2>3. Quiet'
    BY <2>1, QuietKept DEF SettledInv
  <2>4. \A o \in queue' : o.type = "checkout" => keys[o.id] = Unknown
    BY <2>1 DEF SettledInv, Submitted
  <2> QED BY <2>1, <2>2, <2>3, <2>4, DrainSettles
<1>3. ASSUME NEW s \in Slots, ReceiveBatch(MainTab, s) PROVE SettledInv'
  <2>1. /\ calls[s] # NoCall /\ calls[s].kind = "sync" /\ D'.at = "ack" /\ NoCalls'
        /\ UNCHANGED <<order, sales, keys, screen, doc, queue, save, told, ui>>
    BY <1>3, ReceiveBatchDoes DEF LaneInv
  <2>2. Quiet'
    BY <2>1, QuietKept DEF SettledInv
  <2>3. \A o \in queue' : o.type = "checkout" => keys[o.id] = Unknown
    BY <2>1, NoSubmitYet
  <2> QED BY <2>1, <2>2, <2>3, DrainSettles DEF NoCalls
<1>4. ASSUME NEW s \in Slots, AfterReopen(MainTab, s) PROVE SettledInv'
  <2>1. /\ D # Idle /\ calls[s] # NoCall /\ calls[s].kind = "reopen" /\ NoCalls'
        /\ D' # Idle /\ D'.at = "fail" /\ D'.ops = D.ops /\ D'.batch = D.batch
        /\ UNCHANGED <<order, sales, keys, screen, doc, queue, save, told, ui>>
    BY <1>4, AfterReopenDoes DEF LaneInv
  <2>2. Quiet'
    BY <2>1, QuietKept DEF SettledInv
  <2>3. ~Sold
    BY <2>1 DEF SettledInv, Selling
  <2>4. \A o \in queue' : o.type = "checkout" /\ keys[o.id] # Unknown =>
          D.batch = <<>> /\ D.ops # <<>> /\ D.ops[1] = o
    BY <2>1 DEF SettledInv, Submitted
  <2> QED BY <2>1, <2>2, <2>3, <2>4, DrainSettles DEF NoCalls
<1> QED BY <1>1, <1>2, <1>3, <1>4, StartDrainSettled, StartCheckoutOpSettled, AckOpSettled,
       PutVersionSettled, AfterSubmitSettled, AfterSaleSettled, AfterCompleteSettled,
       FailCheckoutSettled, ReopenDocSettled DEF DrainStep

LEMMA CrashSettled ==
  ASSUME TillInv, LaneInv, SettledInv, CrashServer
  PROVE  SettledInv'
<1>1. /\ NoCalls' /\ UNCHANGED <<order, sales, keys, screen, doc, queue, save, told>>
      /\ ui = "idle" <=> ui' = "idle"
  BY CrashServerDoes DEF LaneInv
<1>2. Quiet'
  BY <1>1, QuietKept DEF SettledInv
<1>3. \A o \in queue' : o.type = "checkout" /\ keys[o.id] # Unknown =>
        (D # Idle => /\ D.batch = <<>> /\ D.ops # <<>> /\ D.ops[1] = o
                     /\ D.at \in {"walk", "wait", "fail"} /\ (D.at = "walk" => ~D.failed))
  BY <1>1 DEF SettledInv, Submitted
<1>4. CASE (D = Idle \/ D.at # "wait") /\ D' = D
  <2>1. \A o \in queue' : o.type = "checkout" /\ keys[o.id].state = "done" =>
          order.status \in Taken \/ (D # Idle /\ D.at = "fail")
    BY <1>1, <1>4, TakenBetween
  <2>2. D # Idle /\ D.at \in {"fail", "reopen"} => ~Sold
    BY DEF SettledInv
  <2> QED BY <1>1, <1>2, <1>3, <1>4, <2>1, <2>2, DrainSettles DEF NoCalls
<1>5. CASE /\ D # Idle /\ D.at = "wait" /\ D' = Idle
           /\ \A s \in Slots : calls[s] # NoCall => calls[s].kind # "reopen"
  <2>1. \A o \in queue' : o.type = "checkout" /\ keys[o.id].state = "done" =>
          order.status \in Taken
    BY <1>1, <1>5, StillTaken
  <2> QED BY <1>1, <1>2, <1>5, <2>1, DrainSettles DEF NoCalls
<1>6. ASSUME /\ D # Idle /\ D.at = "wait" /\ D' # Idle /\ D'.at = "fail" /\ D'.ops = D.ops
             /\ D'.batch = D.batch,
             NEW s \in Slots, calls[s] # NoCall /\ calls[s].kind = "reopen"
      PROVE  SettledInv'
  <2>1. ~Sold
    BY <1>6 DEF SettledInv, Selling
  <2> QED BY <1>1, <1>2, <1>3, <1>6, <2>1, DrainSettles DEF NoCalls
<1> QED BY <1>4, <1>5, <1>6, CrashServerDoes DEF LaneInv

-----------------------------------------------------------------------------
(* The settled checkout at the server.                                      *)

\* What the steps of the server do to the call they serve.
CallAt(s, stage) ==
  /\ calls[s] # NoCall /\ calls[s].stage = stage /\ calls[s] \in Calls /\ GoodCall(calls[s])
  /\ CurrentOp(calls[s]) \in WireOps /\ CurrentOp(calls[s]).id \in OpIds

AnsweredWith(s, answer) ==
  /\ calls' = [calls EXCEPT ![s] = Answered(calls[s], answer)]
  /\ calls'[s] # NoCall /\ calls'[s].kind = calls[s].kind /\ calls'[s].ops = calls[s].ops
  /\ calls'[s].answers = Append(calls[s].answers, answer)
  /\ calls'[s].stage = IF Len(calls[s].answers) + 1 < Len(calls[s].ops) THEN "begin" ELSE "done"
  /\ calls[s].kind # "sync" => calls'[s].stage = "done" /\ calls'[s].answers[1] = answer

LEMMA Serving ==
  ASSUME TillInv, NEW s \in Slots, NEW stage \in {"begin", "work", "store"}, AtStage(s, stage)
  PROVE  CallAt(s, stage)
<1>1. calls[s] # NoCall /\ calls[s].stage = stage /\ calls[s].stage # "done"
  BY DEF AtStage
<1>2. calls[s] \in Calls /\ GoodCall(calls[s])
  BY <1>1, CallRow DEF TillInv
<1> QED BY <1>1, <1>2, CurrentOpKnown DEF CallAt

LEMMA AnswerDoes ==
  ASSUME TillInv, NEW s \in Slots, NEW stage \in {"begin", "work", "store"}, CallAt(s, stage),
         NEW a \in Answers, calls' = [calls EXCEPT ![s] = Answered(calls[s], a)]
  PROVE  AnsweredWith(s, a)
<1>1. PICK c : c = Answered(calls[s], a)
  OBVIOUS
<1>2. calls'[s] = c
  BY <1>1 DEF TillInv, ServerInv, TypeOKServer
<1>3. /\ c.answers = Append(calls[s].answers, a) /\ c.kind = calls[s].kind
      /\ c.ops = calls[s].ops
      /\ c.stage = IF Len(calls[s].answers) + 1 < Len(calls[s].ops) THEN "begin" ELSE "done"
      /\ calls[s].kind # "sync" => c.stage = "done" /\ c.answers[1] = a
  BY <1>1, AnsweredDoes DEF CallAt
<1>4. c # NoCall
  BY <1>3 DEF CallAt, Calls, Kinds, NoCall
<1> QED BY <1>2, <1>3, <1>4 DEF AnsweredWith

LEMMA ReserveDoes ==
  ASSUME TillInv, NEW s \in Slots, Reserve(s)
  PROVE  LET op == CurrentOp(calls[s]) IN
         /\ CallAt(s, "begin") /\ UNCHANGED <<order, sales>>
         /\ \/ /\ keys[op.id] = Unknown /\ keys'[op.id] = [state |-> "running", op |-> op]
               /\ calls'[s] # NoCall /\ calls'[s].kind = calls[s].kind
               /\ calls'[s].ops = calls[s].ops /\ calls'[s].answers = calls[s].answers
               /\ calls'[s].stage = "work"
            \/ /\ keys[op.id] # Unknown /\ keys[op.id].state = "done" /\ keys[op.id].op = op
               /\ keys' = keys /\ AnsweredWith(s, keys[op.id].answer)
            \/ /\ keys[op.id] # Unknown /\ ~(keys[op.id].state = "done" /\ keys[op.id].op = op)
               /\ keys' = keys /\ AnsweredWith(s, Error("IDEMPOTENCY_CONFLICT"))
<1>1. CallAt(s, "begin")
  BY Serving DEF Reserve
<1>2. PICK op : op = CurrentOp(calls[s])
  OBVIOUS
<1>3. op.id \in OpIds /\ keys \in [OpIds -> KeyRows \cup {Unknown}]
      /\ calls \in [Slots -> Calls \cup {NoCall}]
  BY <1>1, <1>2 DEF CallAt, TillInv, ServerInv, TypeOKServer
<1>4. UNCHANGED <<order, sales>>
  BY DEF Reserve
<1>5. CASE keys[op.id] = Unknown
  <2>1. /\ keys' = [keys EXCEPT ![op.id] = [state |-> "running", op |-> op]]
        /\ calls' = [calls EXCEPT ![s].stage = "work"]
    BY <1>2, <1>5 DEF Reserve
  <2>2. PICK c : c = [calls[s] EXCEPT !.stage = "work"]
    OBVIOUS
  <2>3. calls'[s] = c
    BY <1>3, <2>1, <2>2
  <2>4. /\ c.kind = calls[s].kind /\ c.ops = calls[s].ops /\ c.answers = calls[s].answers
        /\ c.stage = "work" /\ c # NoCall
    BY <1>1, <2>2 DEF CallAt, Calls, Kinds, NoCall
  <2> QED BY <1>1, <1>2, <1>3, <1>4, <1>5, <2>1, <2>3, <2>4
<1>6. CASE keys[op.id] # Unknown
  <2>1. PICK a : a = IF keys[op.id].state = "done" /\ keys[op.id].op = op
                     THEN keys[op.id].answer ELSE Error("IDEMPOTENCY_CONFLICT")
    OBVIOUS
  <2>2. keys' = keys /\ calls' = [calls EXCEPT ![s] = Answered(calls[s], a)]
    BY <1>2, <1>6, <2>1 DEF Reserve
  <2>3. a \in Answers
    BY <1>3, <1>6, <2>1, AnswerTypes DEF KeyRows, Codes
  <2>4. AnsweredWith(s, a)
    BY <1>1, <2>2, <2>3, AnswerDoes
  <2> QED BY <1>1, <1>2, <1>4, <1>6, <2>1, <2>2, <2>4
<1> QED BY <1>5, <1>6

LEMMA HandleDoes ==
  ASSUME TillInv, NEW s \in Slots, Handle(s)
  PROVE  LET op      == CurrentOp(calls[s])
             outcome == Handler(calls[s].kind, op)
         IN  /\ CallAt(s, "work") /\ calls[s].kind # "sale" /\ sales' = sales
             /\ order' = outcome.row
             /\ \/ /\ calls[s].kind \in Keyed /\ outcome.answer.code = "ok" /\ keys' = keys
                   /\ calls'[s] # NoCall /\ calls'[s].kind = calls[s].kind
                   /\ calls'[s].ops = calls[s].ops /\ calls'[s].answers = calls[s].answers
                   /\ calls'[s].stage = "store" /\ calls'[s].pending = outcome.answer
                \/ /\ calls[s].kind \in Keyed /\ outcome.answer.code # "ok"
                   /\ keys' = Aborted(op) /\ keys'[op.id] = Unknown
                   /\ AnsweredWith(s, outcome.answer)
                \/ /\ calls[s].kind \notin Keyed /\ keys' = keys
                   /\ AnsweredWith(s, outcome.answer)
<1>1. CallAt(s, "work") /\ calls[s].kind # "sale"
  BY Serving DEF Handle
<1>2. PICK op : op = CurrentOp(calls[s])
  OBVIOUS
<1>3. op.id \in OpIds /\ keys \in [OpIds -> KeyRows \cup {Unknown}]
      /\ calls \in [Slots -> Calls \cup {NoCall}]
  BY <1>1, <1>2 DEF CallAt, TillInv, ServerInv, TypeOKServer
<1>4. PICK outcome : outcome = Handler(calls[s].kind, op)
  OBVIOUS
<1>5. PICK a : a = outcome.answer
  OBVIOUS
<1>6. order' = outcome.row /\ sales' = sales
  BY <1>2, <1>4 DEF Handle
<1>7. a \in Answers
  BY <1>1, <1>2, <1>4, <1>5, HandlerGood DEF CallAt, GoodOutcome, TillInv
<1>8. CASE calls[s].kind \in Keyed /\ a.code = "ok"
  <2>1. keys' = keys /\ calls' = [calls EXCEPT ![s].stage = "store", ![s].pending = a]
    BY <1>2, <1>4, <1>5, <1>8 DEF Handle
  <2>2. PICK c : c = [calls[s] EXCEPT !.stage = "store", !.pending = a]
    OBVIOUS
  <2>3. calls'[s] = c
    BY <1>3, <2>1, <2>2
  <2>4. /\ c.kind = calls[s].kind /\ c.ops = calls[s].ops /\ c.answers = calls[s].answers
        /\ c.stage = "store" /\ c.pending = a /\ c # NoCall
    BY <1>1, <2>2 DEF CallAt, Calls, Kinds, NoCall
  <2> QED BY <1>1, <1>2, <1>4, <1>5, <1>6, <1>8, <2>1, <2>3, <2>4
<1>9. CASE ~(calls[s].kind \in Keyed /\ a.code = "ok")
  <2>1. /\ calls' = [calls EXCEPT ![s] = Answered(calls[s], a)]
        /\ keys' = IF calls[s].kind \in Keyed THEN Aborted(op) ELSE keys
    BY <1>2, <1>4, <1>5, <1>9 DEF Handle
  <2>2. AnsweredWith(s, a)
    BY <1>1, <1>7, <2>1, AnswerDoes
  <2>3. calls[s].kind \in Keyed => keys'[op.id] = Unknown
    BY <1>3, <2>1 DEF Aborted
  <2> QED BY <1>1, <1>2, <1>4, <1>5, <1>6, <1>9, <2>1, <2>2, <2>3
<1> QED BY <1>8, <1>9

LEMMA StoreDoes ==
  ASSUME TillInv, NEW s \in Slots, Store(s)
  PROVE  LET op == CurrentOp(calls[s]) IN
         /\ CallAt(s, "store") /\ UNCHANGED <<order, sales>>
         /\ keys'[op.id] = [state |-> "done", op |-> op, answer |-> calls[s].pending]
         /\ AnsweredWith(s, calls[s].pending)
<1>1. CallAt(s, "store") /\ UNCHANGED <<order, sales>>
  BY Serving DEF Store
<1>2. PICK op : op = CurrentOp(calls[s])
  OBVIOUS
<1>3. op.id \in OpIds /\ keys \in [OpIds -> KeyRows \cup {Unknown}]
  BY <1>1, <1>2 DEF CallAt, TillInv, ServerInv, TypeOKServer
<1>4. PICK row : row = [state |-> "done", op |-> op, answer |-> calls[s].pending]
  OBVIOUS
<1>5. keys' = [keys EXCEPT ![op.id] = row]
  BY <1>2, <1>4 DEF Store
<1>6. calls[s].pending \in Answers /\ calls' = [calls EXCEPT ![s] = Answered(calls[s], calls[s].pending)]
  BY <1>1 DEF Store, CallAt, Calls
<1>7. AnsweredWith(s, calls[s].pending)
  BY <1>1, <1>6, AnswerDoes
<1> QED BY <1>1, <1>2, <1>3, <1>4, <1>5, <1>7

LEMMA SellDoes ==
  ASSUME TillInv, NEW s \in Slots, Sell(s)
  PROVE  /\ CallAt(s, "work") /\ calls[s].kind = "sale" /\ UNCHANGED <<order, keys>>
         /\ \/ /\ sales' = (IF Sold THEN sales ELSE Append(sales, CurrentOp(calls[s]).cart))
               /\ AnsweredWith(s, Ok(0))
            \/ ~Sold /\ sales' = sales /\ AnsweredWith(s, Refused)
<1>1. CallAt(s, "work") /\ calls[s].kind = "sale" /\ UNCHANGED <<order, keys>>
  BY Serving DEF Sell
<1>2. Ok(0) \in Answers /\ Refused \in Answers
  BY AnswerTypes
<1>3. CASE /\ sales' = IF AlreadySold THEN sales ELSE Append(sales, CurrentOp(calls[s]).cart)
           /\ calls' = [calls EXCEPT ![s] = Answered(calls[s], Ok(0))]
  <2>1. AnsweredWith(s, Ok(0))
    BY <1>1, <1>2, <1>3, AnswerDoes
  <2> QED BY <1>1, <1>3, <2>1 DEF AlreadySold, Sold
<1>4. CASE /\ ~AlreadySold /\ sales' = sales
           /\ calls' = [calls EXCEPT ![s] = Answered(calls[s], Refused)]
  <2>1. AnsweredWith(s, Refused)
    BY <1>1, <1>2, <1>4, AnswerDoes
  <2> QED BY <1>1, <1>4, <2>1 DEF AlreadySold, Sold
<1> QED BY <1>3, <1>4 DEF Sell

\* A submit that is accepted takes the order as it is.
LEMMA SubmitTakes ==
  ASSUME order \in OrderRows, NEW op
  PROVE  /\ DoSubmit(op).answer.code = "ok" =>
              /\ DoSubmit(op).row.status = "submitted" /\ DoSubmit(op).row.cart = order.cart
              /\ DoSubmit(op).answer.cart = order.cart
         /\ DoSubmit(op).answer.code # "ok" => DoSubmit(op).row = order
<1>1. PICK row : row = [order EXCEPT !.status = "submitted"]
  OBVIOUS
<1>2. row \in OrderRows /\ row.status = "submitted" /\ row.cart = order.cart
  BY <1>1 DEF OrderRows, OrderStatuses
<1>3. PICK m : m = Moved(row)
  OBVIOUS
<1>4. /\ m.row.status = "submitted" /\ m.row.cart = order.cart /\ m.answer \in Answers
      /\ m = [row |-> m.row, answer |-> m.answer]
  BY <1>2, <1>3, MovedRow DEF Moved
<1>5. PICK o : o = [m EXCEPT !.answer.cart = order.cart]
  OBVIOUS
<1>6. o.row = m.row /\ o.answer = [m.answer EXCEPT !.cart = order.cart]
  BY <1>4, <1>5
<1>7. o.answer.cart = order.cart
  BY <1>4, <1>6 DEF Answers
<1>8. CASE order.status # "open" \/ Total[order.cart] # Total[op.cart]
  <2>1. DoSubmit(op) = Kept(Refused)
    BY <1>8 DEF DoSubmit
  <2> QED BY <2>1, AnswerTypes DEF Kept
<1>9. CASE ~(order.status # "open" \/ Total[order.cart] # Total[op.cart])
  <2>1. DoSubmit(op) = o
    BY <1>1, <1>3, <1>5, <1>9 DEF DoSubmit
  <2>2. o.answer.code = "ok"
    <3>1. m.answer.code = "ok"
      BY <1>2, <1>3, MovedRow
    <3> QED BY <1>4, <1>6, <3>1 DEF Answers
  <2> QED BY <1>4, <1>6, <1>7, <2>1, <2>2
<1> QED BY <1>8, <1>9

LEMMA CompleteTakes ==
  ASSUME order \in OrderRows, order.status \in Taken
  PROVE  /\ DoComplete.answer.code = "ok" /\ DoComplete.row.status = "completed"
         /\ DoComplete.row.cart = order.cart
<1>1. CASE order.status = "completed"
  <2>1. DoComplete = Kept(Ok(order.version))
    BY <1>1 DEF DoComplete
  <2> QED BY <1>1, <2>1, AnswerTypes DEF Kept, OrderRows
<1>2. CASE order.status = "submitted"
  <2>1. PICK row : row = [order EXCEPT !.status = "completed"]
    OBVIOUS
  <2>2. row \in OrderRows /\ row.status = "completed" /\ row.cart = order.cart
    BY <2>1 DEF OrderRows, OrderStatuses
  <2>3. DoComplete = Moved(row)
    BY <1>2, <2>1 DEF DoComplete
  <2> QED BY <2>2, <2>3, MovedRow
<1> QED BY <1>1, <1>2 DEF Taken

\* A batch at the server has nothing to do with the checkout queued.
LEMMA SyncServed ==
  ASSUME TillInv, LaneInv, SettledInv, NEW s \in Slots, ServerStep(s), UNCHANGED tillVars,
         calls[s].kind = "sync"
  PROVE  SettledInv' /\ sales' = sales
<1>1. /\ calls[s] # NoCall /\ calls[s].stage # "done" /\ SameCalls
      /\ \A x \in Slots : x # s => calls'[x] = NoCall
      /\ \A k \in OpIds : k # CurrentOp(calls[s]).id => keys'[k] = keys[k]
  BY ServerDoes DEF LaneInv
<1>2. D' = D /\ UNCHANGED <<screen, doc, queue, save, told, ui>>
  BY DEF D, tillVars
<1>3. sales' = sales
  <2>1. ~Sell(s)
    BY SellDoes
  <2> QED BY <2>1, ReserveDoes, HandleDoes, StoreDoes DEF ServerStep
<1>4. Quiet'
  BY <1>2, <1>3, QuietKept DEF SettledInv
<1>5. ASSUME NEW o \in queue', o.type = "checkout" PROVE Submitted(o)'
  <2>1. keys[o.id] = Unknown /\ ~Sold /\ o.id \in OpIds /\ o.id \in Nat
    BY <1>1, <1>2, <1>5, NoSubmitYet, Queued
  <2>2. CurrentOp(calls[s]).id # o.id
    <3>1. PICK n \in 1..Len(D.batch) : CurrentOp(calls[s]).id = D.batch[n].id
      BY <1>1, OpAhead
    <3>2. D # Idle
      BY <1>1, OnlyCall DEF LaneInv
    <3>3. Below(D.batch, o.id)
      BY <1>2, <1>5, <3>2, Queued
    <3>4. D.batch[n].id < o.id
      BY <3>1, <3>3 DEF Below
    <3> QED BY <2>1, <3>1, <3>4
  <2>3. keys'[o.id] = Unknown
    BY <1>1, <2>1, <2>2
  <2> QED BY <1>3, <2>1, <2>3 DEF Submitted, Unknown, Sold
<1>6. D # Idle /\ D.at = "wait"
  BY <1>1, OnlyCall DEF LaneInv
<1>7. \A x \in Slots : calls'[x] # NoCall => calls'[x].kind = "sync"
  BY <1>1 DEF SameCalls
<1> QED BY <1>2, <1>3, <1>4, <1>5, <1>6, <1>7 DEF SettledInv

\* A call of the checkout queued, as it is served.
LEMMA CheckoutServed ==
  ASSUME TillInv, LaneInv, SettledInv, NEW s \in Slots, ServerStep(s), UNCHANGED tillVars,
         calls[s].kind # "sync", Submitted(D.ops[1])', Selling(calls[s], D.ops[1])'
  PROVE  SettledInv'
<1>1. /\ calls[s] # NoCall /\ \A x \in Slots : x # s => calls'[x] = NoCall
  BY ServerDoes DEF LaneInv
<1>2. D' = D /\ UNCHANGED <<screen, doc, queue, save, told, ui>>
  BY DEF D, tillVars
<1>3. /\ D # Idle /\ D.at = "wait" /\ D.ops[1] \in queue /\ D.ops[1].type = "checkout"
      /\ CheckoutQueued
  BY <1>1, Checking
<1>4. Quiet'
  BY <1>2, <1>3 DEF SettledInv, Quiet, CheckoutQueued, Saving
<1>5. \A o \in queue : o.type = "checkout" => o = D.ops[1]
  BY <1>3, Queued
<1>6. \A o \in queue' : o.type = "checkout" => Submitted(o)'
  BY <1>2, <1>5
<1>7. \A x \in Slots : calls'[x] # NoCall => x = s
  BY <1>1
<1> QED BY <1>2, <1>3, <1>4, <1>6, <1>7 DEF SettledInv

\* What a call of the checkout is at.
LEMMA CheckoutAtServer ==
  ASSUME TillInv, LaneInv, SettledInv, NEW s \in Slots, ServerStep(s), calls[s].kind # "sync"
  PROVE  LET o == D.ops[1] IN
         /\ calls[s] # NoCall /\ D # Idle /\ D.at = "wait" /\ D.ops # <<>> /\ D.batch = <<>>
         /\ o \in queue /\ o.type = "checkout" /\ CurrentOp(calls[s]).id = o.id
         /\ calls[s].kind = "submit" => CurrentOp(calls[s]) = Sent(o, 0)
         /\ \A p \in queue : p.id >= o.id
         /\ Submitted(o) /\ Selling(calls[s], o)
         /\ keys[o.id].state = "done" /\ calls[s].kind # "reopen" => order.status \in Taken
<1>1. calls[s] # NoCall /\ calls[s].stage # "done"
  BY ServerDoes DEF LaneInv
<1>2. /\ D # Idle /\ D.at = "wait" /\ D.ops # <<>> /\ D.batch = <<>>
      /\ D.ops[1] \in queue /\ D.ops[1].type = "checkout"
      /\ calls[s].kind = "submit" => calls[s].ops[1] = Sent(D.ops[1], 0)
  BY <1>1, Checking
<1>3. CurrentOp(calls[s]).id = D.ops[1].id /\ CurrentOp(calls[s]) = calls[s].ops[1]
  BY <1>1, OpAhead
<1>4. \A p \in queue : p.id >= D.ops[1].id
  BY <1>2, Queued
<1>5. Submitted(D.ops[1]) /\ Selling(calls[s], D.ops[1])
  BY <1>1, <1>2 DEF SettledInv
<1>6. keys[D.ops[1].id].state = "done" /\ calls[s].kind # "reopen" => order.status \in Taken
  BY <1>1, <1>2, TakenDuring
<1> QED BY <1>1, <1>2, <1>3, <1>4, <1>5, <1>6

LEMMA ReserveSettled ==
  ASSUME TillInv, LaneInv, SettledInv, NEW s \in Slots, Reserve(s), UNCHANGED tillVars,
         calls[s].kind # "sync"
  PROVE  SettledInv'
<1>1. ServerStep(s) /\ D' = D /\ queue' = queue
  BY DEF ServerStep, D, tillVars
<1>2. PICK o : o = D.ops[1]
  OBVIOUS
<1>3. /\ D # Idle /\ D.at = "wait" /\ D.ops # <<>> /\ D.batch = <<>> /\ o \in queue
      /\ CurrentOp(calls[s]).id = o.id
      /\ calls[s].kind = "submit" => CurrentOp(calls[s]) = Sent(o, 0)
      /\ \A p \in queue : p.id >= o.id
      /\ Submitted(o) /\ Selling(calls[s], o)
      /\ keys[o.id].state = "done" => order.status \in Taken \/ calls[s].kind = "reopen"
  BY <1>1, <1>2, CheckoutAtServer
<1>4. CallAt(s, "begin") /\ UNCHANGED <<order, sales>>
  BY ReserveDoes
<1>5. calls[s].kind = "submit"
  BY <1>4 DEF CallAt, GoodCall, Keyed
<1>6. (Sold' <=> Sold) /\ Unknown.state = "free"
  BY <1>4 DEF Sold, Unknown
<1>7. CASE /\ keys[o.id] = Unknown /\ keys'[o.id].state = "running"
           /\ calls'[s].kind = "submit" /\ calls'[s].stage = "work"
  <2>1. ~Sold /\ keys'[o.id] # Unknown
    BY <1>3, <1>6, <1>7 DEF Submitted
  <2>2. Submitted(o)'
    BY <1>1, <1>2, <1>3, <1>6, <1>7, <2>1 DEF Submitted
  <2>3. Selling(calls[s], o)'
    BY <1>7, <2>1 DEF Selling
  <2> QED BY <1>1, <1>2, <1>5, <2>2, <2>3, CheckoutServed
<1>8. CASE /\ keys' = keys /\ calls'[s].kind = "submit" /\ calls'[s].stage = "done"
           /\ keys[o.id].state = "done" /\ calls'[s].answers[1].code = "ok"
  <2>1. Submitted(o)'
    BY <1>1, <1>2, <1>3, <1>4, <1>5, <1>6, <1>8 DEF Submitted
  <2>2. Selling(calls[s], o)'
    BY <1>8 DEF Selling
  <2> QED BY <1>1, <1>2, <1>5, <2>1, <2>2, CheckoutServed
<1>9. CASE /\ keys' = keys /\ calls'[s].kind = "submit" /\ calls'[s].stage = "done"
           /\ keys[o.id].state # "done" /\ calls'[s].answers[1].code # "ok"
  <2>1. ~Sold
    BY <1>3, <1>9 DEF Submitted
  <2>2. Submitted(o)'
    BY <1>1, <1>2, <1>3, <1>4, <1>6, <1>9 DEF Submitted
  <2>3. Selling(calls[s], o)'
    BY <1>6, <1>9, <2>1 DEF Selling
  <2> QED BY <1>1, <1>2, <1>5, <2>2, <2>3, CheckoutServed
<1>10. PICK op : op = CurrentOp(calls[s])
  OBVIOUS
<1>11. op.id = o.id /\ op = Sent(o, 0)
  BY <1>3, <1>5, <1>10
<1>12. \/ /\ keys[op.id] = Unknown /\ keys'[op.id] = [state |-> "running", op |-> op]
          /\ calls'[s].kind = calls[s].kind /\ calls'[s].stage = "work"
       \/ /\ keys[op.id].state = "done" /\ keys[op.id].op = op
          /\ keys' = keys /\ AnsweredWith(s, keys[op.id].answer)
       \/ /\ ~(keys[op.id].state = "done" /\ keys[op.id].op = op)
          /\ keys' = keys /\ AnsweredWith(s, Error("IDEMPOTENCY_CONFLICT"))
  BY <1>10, ReserveDoes
<1>13. \A a : AnsweredWith(s, a) =>
         calls'[s].kind = "submit" /\ calls'[s].stage = "done" /\ calls'[s].answers[1] = a
  BY <1>5 DEF AnsweredWith
<1>14. Error("IDEMPOTENCY_CONFLICT").code # "ok"
  BY DEF Error
<1>15. keys[o.id].state = "done" => keys[o.id].op = op /\ keys[o.id].answer.code = "ok"
  BY <1>3, <1>11 DEF Submitted
<1> QED BY <1>5, <1>7, <1>8, <1>9, <1>11, <1>12, <1>13, <1>14, <1>15

LEMMA HandleSettled ==
  ASSUME TillInv, LaneInv, SettledInv, NEW s \in Slots, Handle(s), UNCHANGED tillVars,
         calls[s].kind # "sync"
  PROVE  SettledInv'
<1>1. ServerStep(s) /\ D' = D /\ queue' = queue
  BY DEF ServerStep, D, tillVars
<1>2. PICK o : o = D.ops[1]
  OBVIOUS
<1>3. /\ D # Idle /\ D.at = "wait" /\ D.ops # <<>> /\ D.batch = <<>> /\ o \in queue
      /\ CurrentOp(calls[s]).id = o.id
      /\ \A p \in queue : p.id >= o.id
      /\ Submitted(o) /\ Selling(calls[s], o)
      /\ keys[o.id].state = "done" => order.status \in Taken \/ calls[s].kind = "reopen"
  BY <1>1, <1>2, CheckoutAtServer
<1>4. CallAt(s, "work") /\ sales' = sales /\ calls[s].kind # "sale"
  BY HandleDoes
<1>5. (Sold' <=> Sold) /\ Unknown.state = "free"
  BY <1>4 DEF Sold, Unknown
<1>6. order \in OrderRows
  BY DEF TillInv, ServerInv, TypeOKServer, OrderRows
<1>7. PICK op : op = CurrentOp(calls[s])
  OBVIOUS
<1>8. PICK outcome : outcome = Handler(calls[s].kind, op)
  OBVIOUS
<1>9. /\ order' = outcome.row
      /\ \/ /\ calls[s].kind \in Keyed /\ outcome.answer.code = "ok" /\ keys' = keys
            /\ calls'[s] # NoCall /\ calls'[s].kind = calls[s].kind
            /\ calls'[s].stage = "store" /\ calls'[s].pending = outcome.answer
         \/ /\ calls[s].kind \in Keyed /\ outcome.answer.code # "ok"
            /\ keys'[op.id] = Unknown /\ AnsweredWith(s, outcome.answer)
         \/ /\ calls[s].kind \notin Keyed /\ keys' = keys /\ AnsweredWith(s, outcome.answer)
  BY <1>7, <1>8, HandleDoes
<1>10. AnsweredWith(s, outcome.answer) =>
         /\ calls'[s] # NoCall /\ calls'[s].kind = calls[s].kind /\ calls'[s].stage = "done"
         /\ calls'[s].answers[1] = outcome.answer
  BY DEF AnsweredWith
<1>11. CASE calls[s].kind = "submit"
  <2>1. keys[o.id] # Unknown /\ keys[o.id].state = "running" /\ ~Sold
    BY <1>3, <1>4, <1>11 DEF Selling, CallAt, Submitted
  <2>2. outcome = DoSubmit(op) /\ calls[s].kind \in Keyed
    BY <1>8, <1>11 DEF Handler, Keyed
  <2>3. CASE outcome.answer.code = "ok"
    <3>1. order'.status = "submitted"
      BY <1>6, <1>9, <2>2, <2>3, SubmitTakes
    <3>2. Submitted(o)'
      BY <1>1, <1>2, <1>3, <1>5, <1>9, <2>1, <2>2, <2>3 DEF Submitted
    <3>3. Selling(calls[s], o)'
      BY <1>9, <1>11, <2>1, <2>2, <2>3, <3>1 DEF Selling
    <3> QED BY <1>1, <1>2, <1>11, <3>2, <3>3, CheckoutServed
  <2>4. CASE outcome.answer.code # "ok"
    <3>1. keys'[o.id] = Unknown /\ AnsweredWith(s, outcome.answer)
      BY <1>3, <1>7, <1>9, <2>2, <2>4
    <3>2. Submitted(o)'
      BY <1>5, <2>1, <3>1 DEF Submitted
    <3>3. Selling(calls[s], o)'
      BY <1>5, <1>10, <1>11, <2>1, <2>4, <3>1 DEF Selling
    <3> QED BY <1>1, <1>2, <1>11, <3>2, <3>3, CheckoutServed
  <2> QED BY <2>3, <2>4
<1>12. CASE calls[s].kind = "complete"
  <2>1. keys[o.id].state = "done" /\ order.status \in Taken
    BY <1>3, <1>12 DEF Selling
  <2>2. outcome = DoComplete /\ calls[s].kind \notin Keyed
    BY <1>8, <1>12 DEF Handler, Keyed
  <2>3. order'.status = "completed" /\ outcome.answer.code = "ok"
    BY <1>6, <1>9, <2>1, <2>2, CompleteTakes
  <2>4. keys' = keys /\ AnsweredWith(s, outcome.answer)
    BY <1>9, <2>2
  <2>5. Submitted(o)'
    BY <1>1, <1>2, <1>3, <1>5, <2>1, <2>3, <2>4 DEF Submitted, Taken
  <2>6. Selling(calls[s], o)'
    BY <1>10, <1>12, <2>1, <2>3, <2>4 DEF Selling
  <2> QED BY <1>1, <1>2, <1>12, <2>5, <2>6, CheckoutServed
<1>13. CASE calls[s].kind = "reopen"
  <2>1. ~Sold
    BY <1>3, <1>13 DEF Selling
  <2>2. keys' = keys /\ AnsweredWith(s, outcome.answer)
    BY <1>9, <1>13 DEF Keyed
  <2>3. Reopens'
    BY <1>10, <1>13, <2>2 DEF Reopens
  <2>4. Submitted(o)'
    BY <1>1, <1>2, <1>3, <1>5, <2>1, <2>2, <2>3 DEF Submitted
  <2>5. Selling(calls[s], o)'
    BY <1>5, <1>10, <1>13, <2>1, <2>2 DEF Selling
  <2> QED BY <1>1, <1>2, <1>13, <2>4, <2>5, CheckoutServed
<1>14. calls[s].kind \in Kinds
  BY <1>4 DEF CallAt, Calls
<1> QED BY <1>4, <1>11, <1>12, <1>13, <1>14 DEF Kinds

LEMMA StoreSettled ==
  ASSUME TillInv, LaneInv, SettledInv, NEW s \in Slots, Store(s), UNCHANGED tillVars,
         calls[s].kind # "sync"
  PROVE  SettledInv'
<1>1. ServerStep(s) /\ D' = D /\ queue' = queue
  BY DEF ServerStep, D, tillVars
<1>2. PICK o : o = D.ops[1]
  OBVIOUS
<1>3. /\ D # Idle /\ D.at = "wait" /\ D.ops # <<>> /\ D.batch = <<>> /\ o \in queue
      /\ CurrentOp(calls[s]).id = o.id
      /\ calls[s].kind = "submit" => CurrentOp(calls[s]) = Sent(o, 0)
      /\ \A p \in queue : p.id >= o.id
      /\ Submitted(o) /\ Selling(calls[s], o)
  BY <1>1, <1>2, CheckoutAtServer
<1>4. CallAt(s, "store") /\ UNCHANGED <<order, sales>> /\ AnsweredWith(s, calls[s].pending)
  BY StoreDoes
<1>5. calls[s].kind = "submit"
  BY <1>4 DEF CallAt, GoodCall, Keyed
<1>6. (Sold' <=> Sold) /\ Unknown.state = "free"
  BY <1>4 DEF Sold, Unknown
<1>7. PICK row : row = [state |-> "done", op |-> Sent(o, 0), answer |-> calls[s].pending]
  OBVIOUS
<1>8. keys'[o.id] = row
  BY <1>3, <1>5, <1>7, StoreDoes
<1>9. row.state = "done" /\ row.op = Sent(o, 0) /\ row.answer = calls[s].pending
  BY <1>7
<1>10. keys[o.id].state = "running" /\ calls[s].pending.code = "ok" /\ order.status = "submitted"
  BY <1>3, <1>4, <1>5 DEF Selling, CallAt
<1>11. ~Sold
  BY <1>3, <1>10 DEF Submitted
<1>12. Submitted(o)'
  BY <1>1, <1>2, <1>3, <1>4, <1>6, <1>8, <1>9, <1>10, <1>11 DEF Submitted, Taken
<1>13. calls'[s].kind = "submit" /\ calls'[s].stage = "done"
  BY <1>4, <1>5 DEF AnsweredWith
<1>14. Selling(calls[s], o)'
  BY <1>6, <1>8, <1>9, <1>11, <1>13 DEF Selling
<1> QED BY <1>1, <1>2, <1>5, <1>12, <1>14, CheckoutServed

LEMMA SellSettled ==
  ASSUME TillInv, LaneInv, SettledInv, NEW s \in Slots, Sell(s), UNCHANGED tillVars
  PROVE  SettledInv'
<1>1. ServerStep(s) /\ D' = D /\ queue' = queue
  BY DEF ServerStep, D, tillVars
<1>2. CallAt(s, "work") /\ calls[s].kind = "sale" /\ UNCHANGED <<order, keys>>
  BY SellDoes
<1>3. PICK o : o = D.ops[1]
  OBVIOUS
<1>4. /\ D # Idle /\ D.at = "wait" /\ D.ops # <<>> /\ D.batch = <<>> /\ o \in queue
      /\ \A p \in queue : p.id >= o.id
      /\ Submitted(o) /\ Selling(calls[s], o)
      /\ keys[o.id].state = "done" => order.status \in Taken
  BY <1>1, <1>2, <1>3, CheckoutAtServer
<1>5. keys[o.id].state = "done" /\ order.status \in Taken
  BY <1>2, <1>4 DEF Selling
<1>6. Submitted(o)'
  BY <1>1, <1>2, <1>3, <1>4, <1>5 DEF Submitted
<1>7. \A a : AnsweredWith(s, a) =>
        calls'[s].kind = "sale" /\ calls'[s].stage = "done" /\ calls'[s].answers[1] = a
  BY <1>2 DEF AnsweredWith
<1>8. calls'[s].answers[1].code # "ok" => ~Sold'
  BY <1>7, SellDoes, AnswerTypes DEF Sold
<1>9. Selling(calls[s], o)'
  BY <1>2, <1>5, <1>7, <1>8, SellDoes DEF Selling
<1> QED BY <1>1, <1>2, <1>3, <1>6, <1>9, CheckoutServed

LEMMA SettledStep ==
  ASSUME TillInv, LaneInv, SettledInv, ~amiss', CalmNext
  PROVE  SettledInv'
<1>1. ASSUME NEW s \in Slots, ServerStep(s), UNCHANGED tillVars PROVE SettledInv'
  BY <1>1, SyncServed, ReserveSettled, HandleSettled, StoreSettled, SellSettled DEF ServerStep
<1>2. ASSUME NEW s \in Slots PROVE ~Forget(s)
  BY TillAssumption, ServerAssumption DEF Forget, LaneInv, Alone
<1>3. CASE UNCHANGED vars
  <2>1. UNCHANGED <<serverVars, queue, drain, sales, screen, doc, save, told, ui>>
    BY <1>3 DEF vars, tillVars, serverVars
  <2>2. Quiet'
    BY <2>1, QuietKept DEF SettledInv
  <2> QED BY <2>1, <2>2, SettledKept
<1> QED BY <1>1, <1>2, <1>3, CashierSettled, EngineSettled, CrashSettled, DrainSettled
    DEF CalmNext

-----------------------------------------------------------------------------
(* No checkout that sold is reported as failed.                             *)

LEMMA LaneAtStart ==
  ASSUME Init
  PROVE  LaneInv /\ SettledInv
<1>1. /\ queue = {} /\ doc = NoDoc /\ told = "nothing" /\ sales = <<>>
      /\ \A s \in Slots : calls[s] = NoCall
      /\ \A k \in OpIds : keys[k] = Unknown
      /\ D = Idle
  BY TillAssumption DEF Init, InitServer, D
<1>2. LaneInv
  BY <1>1 DEF LaneInv, Alone, Fresh
<1>3. ~CheckoutQueued /\ ~Sold
  BY <1>1 DEF CheckoutQueued, Sold
<1>4. Quiet
  BY <1>3 DEF Quiet
<1> QED BY <1>1, <1>2, <1>4 DEF SettledInv

\* An undisturbed till never reports as failed a checkout that sold, for any
\* number of ops, retries and stops of the server (runCheckoutOp,
\* offline.ts:1060-1067; rejectIfCheckedOut, offline.ts:721-726).
THEOREM FailedStaysUnsold == Spec => []UnsoldUnlessAmiss
<1> DEFINE Calm == Undisturbed => LaneInv /\ SettledInv
<1>1. Init => TillInv /\ Calm
  BY TillStarts, LaneAtStart
<1>2. TillInv /\ Calm /\ [Next]_vars => TillInv' /\ Calm'
  <2> SUFFICES ASSUME TillInv, Calm, [Next]_vars PROVE TillInv' /\ Calm'
    OBVIOUS
  <2>1. TillInv'
    BY TillStep
  <2>2. ASSUME Undisturbed' PROVE LaneInv' /\ SettledInv'
    <3>1. Undisturbed /\ CalmNext /\ ~amiss'
      BY <2>2, UndisturbedBefore DEF Undisturbed
    <3> QED BY <2>1, <3>1, LaneStep, SettledStep
  <2> QED BY <2>1, <2>2
<1>3. Calm => UnsoldUnlessAmiss
  BY DEF SettledInv, Quiet, UnsoldUnlessAmiss, FailedMeansUnsold, Sold
<1> QED BY <1>1, <1>2, <1>3, PTL DEF Spec

-----------------------------------------------------------------------------
(* What makes the sale that of the cart paid for.                           *)

\* Nothing of the order comes before this checkout any more.
AtHead(o) ==
  /\ \A p \in queue : p.id >= o.id
  /\ D # Idle => /\ D.batch = <<>> /\ D.ops # <<>> /\ D.ops[1] = o
                 /\ D.at \in {"walk", "wait", "put", "fail"}

\* The final upsert of a checkout is queued, has landed, or fails it.
Final(o)  == Op(o.id - 1, "upsert", o.cart)
Landed(o) == AtHead(o) /\ order.cart = o.cart
Fails(o)  == AtHead(o) /\ D # Idle /\ (D.at = "fail" \/ (D.at = "walk" /\ D.failed))

\* The batch that ends with the final upsert, and its expectedVersions: the
\* same at every try, for the queue and the version stay as they are.
FinalBatch  == NextBatch(BySeq(queue))
Expected(n) == VersionCursor(FinalBatch, doc.version, n - 1)

\* No earlier upsert of the batch can be executed once the final one was.
Outdated ==
  /\ order.status # "none"
  /\ \A n \in 1..Len(FinalBatch) :
       n < Len(FinalBatch) /\ FinalBatch[n].type = "upsert" =>
         Expected(n) < order.version \/ keys[FinalBatch[n].id] # Unknown

Executed(o) ==
  \/ keys[o.id - 1].state = "done"
  \/ \E s \in Slots : /\ calls[s] # NoCall /\ calls[s].stage = "store"
                      /\ calls[s].kind = "sync" /\ CurrentOp(calls[s]).id = o.id - 1
ExecutedLast(o) == Executed(o) => order.cart = o.cart /\ Outdated

\* The call that brings the final upsert.
FinalSent(c, o) ==
  /\ \A n \in 1..Len(FinalBatch) : c.ops[n] = Sent(FinalBatch[n], Expected(n))
  /\ c.stage = "work" /\ CurrentOp(c).type = "upsert" /\ Len(c.answers) + 1 < Len(c.ops)
       /\ Executed(o) => CurrentOp(c).expected < order.version
  /\ c.stage = "done" /\ c.answers[Len(c.ops)].code = "ok" => order.cart = o.cart
  /\ order.status = "none" =>
       \A n \in 1..Len(c.answers) : c.ops[n].type = "upsert" => keys[c.ops[n].id] # Unknown

\* A drain without the checkout has not sent its final upsert either; one
\* with it goes through the whole queue.
Landing(o) ==
  /\ D # Idle /\ ~Has(D.ops, o) => keys[o.id - 1] = Unknown
  /\ D # Idle /\ Has(D.ops, o) /\ D.at = "walk" => D.ops = BySeq(queue) /\ D.cursor = doc.version
  /\ D # Idle /\ Has(D.ops, o) /\ D.at = "wait" =>
       D.batch = FinalBatch /\ \A s \in Slots : calls[s] # NoCall => FinalSent(calls[s], o)
  /\ D # Idle /\ Has(D.ops, o) /\ D.at \in {"ack", "put"} =>
       (D.answers[Len(D.answers)].code = "ok" => order.cart = o.cart)
  /\ D = Idle \/ (Has(D.ops, o) /\ D.at \in {"walk", "wait"}) => ExecutedLast(o)

Delivered(o) == IF Final(o) \in queue THEN Landing(o) ELSE Landed(o) \/ Fails(o)

\* The cart a call of the checkout brings.
Carries(c, o) ==
  /\ c.kind = "submit" /\ c.stage = "store" => c.pending.cart = o.cart
  /\ c.kind = "submit" /\ c.stage = "done" /\ c.answers[1].code = "ok" =>
       c.answers[1].cart = o.cart
  /\ c.kind = "sale" => c.ops[1].cart = o.cart

PaidInv ==
  /\ Sold => sales[1] = paidFor
  /\ \A o \in queue : o.type = "checkout" =>
       /\ o.cart = paidFor /\ Delivered(o)
       /\ keys[o.id].state = "done" => keys[o.id].answer.cart = o.cart
  /\ \A s \in Slots : calls[s] # NoCall /\ calls[s].kind # "sync" => Carries(calls[s], D.ops[1])

\* A queued final upsert is the last op of a batch, ahead of its checkout.
LEMMA FinalAhead ==
  ASSUME TillInv, LaneInv, NEW o \in queue, o.type = "checkout", Final(o) \in queue,
         D # Idle, Has(D.ops, o), D.at # "walk"
  PROVE  /\ D.ops # <<>> /\ D.ops[1] = o /\ D.at \in {"wait", "ack", "put"}
         /\ Len(D.batch) \in Nat /\ Len(D.batch) \in 1..Len(D.batch) /\ D.batch # <<>>
         /\ D.batch[Len(D.batch)] = Final(o)
         /\ \A s \in Slots : calls[s] # NoCall => calls[s].kind = "sync"
<1>1. Lane(D, queue, nextId) /\ LaneTypes(D, queue, nextId) /\ D \in Drains
  BY LaneHere
<1>2. D.ops # <<>> /\ D.ops[1] = o /\ o.id \in Nat /\ Below(D.batch, o.id)
  BY Queued
<1>3. Final(o).id = o.id - 1 /\ Final(o).id < o.id
  BY <1>2 DEF Final, Op
<1>4. /\ Len(D.ops) \in Nat /\ Len(D.batch) \in Nat
      /\ \A n \in 1..Len(D.ops) : D.ops[n].id \in Nat
      /\ \A n \in 1..Len(D.batch) : D.batch[n].id \in Nat
  BY <1>1, LaneIds
<1>5. 1 \in 1..Len(D.ops)
  BY <1>1, <1>2, <1>4, LaneIds, EmptySeq
<1>6. \A n \in 1..Len(D.ops) : D.ops[n].id >= o.id
  BY <1>1, <1>2, <1>4, <1>5 DEF Lane, Sorted, Increasing
<1>7. ~Has(D.ops, Final(o)) /\ ~Below(D.ops, Final(o).id)
  BY <1>2, <1>3, <1>5, <1>6 DEF Has, Below
<1>8. PICK n \in 1..Len(D.batch) : D.batch[n] = Final(o)
  BY <1>1, <1>7 DEF Lane, Covered, Has
<1>9. Len(D.batch) \in 1..Len(D.batch) /\ D.batch # <<>>
  BY <1>4, <1>8, EmptySeq
<1>10. n = Len(D.batch)
  <2>1. ASSUME n < Len(D.batch) PROVE FALSE
    <3>1. D.batch[n].id < D.batch[Len(D.batch)].id
      BY <1>1, <1>9, <2>1 DEF Lane, Sorted, Increasing
    <3>2. D.batch[Len(D.batch)].id < o.id
      BY <1>2, <1>9 DEF Below
    <3> QED BY <1>2, <1>3, <1>4, <1>8, <1>9, <3>1, <3>2
  <2> QED BY <1>4, <2>1
<1>11. D.at \in {"wait", "ack", "put"}
  BY <1>1, <1>9 DEF Lane, Sorted, Drains
<1>12. \A s \in Slots : calls[s] # NoCall => calls[s].kind = "sync"
  BY <1>9, Checking
<1> QED BY <1>2, <1>4, <1>8, <1>9, <1>10, <1>11, <1>12

\* A submit is only at work once the final upsert has landed.
LEMMA SubmittedCart ==
  ASSUME TillInv, LaneInv, PaidInv, NEW s \in Slots, calls[s] # NoCall, calls[s].kind # "sync"
  PROVE  /\ D.ops[1] \in queue /\ D.ops[1].type = "checkout" /\ D.ops[1].cart = paidFor
         /\ Final(D.ops[1]) \notin queue /\ Landed(D.ops[1])
         /\ Carries(calls[s], D.ops[1])
<1>1. /\ D # Idle /\ D.at = "wait" /\ D.ops # <<>> /\ D.batch = <<>>
      /\ D.ops[1] \in queue /\ D.ops[1].type = "checkout"
  BY Checking
<1>2. Has(D.ops, D.ops[1])
  <2>1. 1 \in 1..Len(D.ops)
    BY <1>1, LaneHere, LaneIds, EmptySeq
  <2> QED BY <2>1 DEF Has
<1>3. Final(D.ops[1]) \notin queue
  BY <1>1, <1>2, FinalAhead
<1>4. ~Fails(D.ops[1])
  BY <1>1 DEF Fails
<1> QED BY <1>1, <1>3, <1>4 DEF PaidInv, Delivered

-----------------------------------------------------------------------------
(* The cashier and the engine.                                              *)

LEMMA PaidKept ==
  ASSUME PaidInv, UNCHANGED <<serverVars, drain, queue, doc, paidFor>>
  PROVE  PaidInv'
<1>1. D' = D /\ UNCHANGED <<order, sales, keys, calls>>
  BY DEF D, serverVars
<1>2. FinalBatch' = FinalBatch /\ \A n : Expected(n)' = Expected(n)
  BY DEF FinalBatch, Expected
<1>3. Outdated' <=> Outdated
  BY <1>1, <1>2 DEF Outdated
<1>4. \A o : Executed(o)' <=> Executed(o)
  BY <1>1 DEF Executed
<1>5. \A o : Landing(o)' <=> Landing(o)
  <2>1. \A o : \A s \in Slots : FinalSent(calls[s], o)' <=> FinalSent(calls[s], o)
    BY <1>1, <1>2, <1>4 DEF FinalSent
  <2> QED BY <1>1, <1>2, <1>3, <1>4, <2>1 DEF Landing, ExecutedLast
<1>6. \A o : (Landed(o)' <=> Landed(o)) /\ (Fails(o)' <=> Fails(o))
  BY <1>1 DEF Landed, Fails, AtHead
<1>7. \A o : Delivered(o)' <=> Delivered(o)
  BY <1>5, <1>6 DEF Delivered, Final
<1>8. Sold' <=> Sold
  BY <1>1 DEF Sold
<1>9. \A s \in Slots : Carries(calls[s], D.ops[1])' <=> Carries(calls[s], D.ops[1])
  BY <1>1 DEF Carries
<1> QED BY <1>1, <1>7, <1>8, <1>9 DEF PaidInv

\* With no checkout queued there is only the sale to look at.
LEMMA NothingPaid ==
  ASSUME TillInv, LaneInv, PaidInv, ~CheckoutQueued, ~CheckoutQueued', UNCHANGED serverVars,
         UNCHANGED paidFor \/ ~Sold
  PROVE  PaidInv'
<1>1. calls' = calls /\ sales' = sales
  BY DEF serverVars
<1>2. \A s \in Slots : ~(calls'[s] # NoCall /\ calls'[s].kind # "sync")
  BY <1>1, Checking
<1>3. \A o \in queue' : o.type # "checkout"
  BY DEF CheckoutQueued
<1>4. Sold' => sales'[1] = paidFor'
  BY <1>1 DEF PaidInv, Sold
<1> QED BY <1>2, <1>3, <1>4 DEF PaidInv

LEMMA CheckoutPaid ==
  ASSUME TillInv, LaneInv, SettledInv, PaidInv, NEW online \in BOOLEAN, Checkout(online)
  PROVE  PaidInv'
<1>1. ~CheckoutQueued /\ ~Sold
  BY CashierWaits DEF Checkout, HasLines
<1>2. UNCHANGED <<serverVars, drain>>
  BY DEF Checkout
<1>3. D' = D /\ UNCHANGED <<order, sales, keys, calls>>
  BY <1>2 DEF D, serverVars
<1>4. CASE CheckedOut
  <2>1. queue' = queue
    BY <1>4 DEF Checkout
  <2> QED BY <1>1, <1>2, <2>1, NothingPaid DEF CheckoutQueued
<1>5. CASE ~CheckedOut
  <2>1. PICK cart :
          /\ queue' = WithoutTrailingUpsert(queue)
               \cup {Op(nextId, "upsert", cart), Op(nextId + 1, "checkout", cart)}
          /\ paidFor' = cart
    BY <1>5 DEF Checkout
  <2>2. nextId \in OpIds /\ nextId + 1 \in OpIds /\ nextId \in Nat
    BY DEF Checkout, CanAppend, TillInv, GoodQueue
  <2>3. keys[nextId] = Unknown /\ keys[nextId + 1] = Unknown /\ Unknown.state = "free"
    BY <2>2 DEF LaneInv, Fresh, Unknown
  <2>4. ASSUME NEW o \in queue', o.type = "checkout"
        PROVE  /\ o.cart = paidFor' /\ Delivered(o)' /\ keys'[o.id].state # "done"
    <3>1. o = Op(nextId + 1, "checkout", cart)
      BY <1>1, <2>1, <2>4 DEF Op, CheckoutQueued, WithoutTrailingUpsert
    <3>2. o.id = nextId + 1 /\ o.cart = cart /\ o.id - 1 = nextId
      BY <2>2, <3>1 DEF Op
    <3>3. Final(o) \in queue'
      BY <2>1, <3>2 DEF Final
    <3>4. D # Idle => ~Has(D.ops, o)
      <4>1. ASSUME D # Idle, NEW n \in 1..Len(D.ops), D.ops[n] = o PROVE FALSE
        <5>1. Lane(D, queue, nextId)
          BY <4>1, LaneHere
        <5>2. D.ops[n].id < nextId
          BY <4>1, <5>1 DEF Lane, Below
        <5> QED BY <2>2, <3>2, <4>1, <5>2
      <4> QED BY <4>1 DEF Has
    <3>5. D = Idle => ~Executed(o)'
      <4>1. D = Idle => NoCalls
        BY Silent DEF LaneInv
      <4> QED BY <1>3, <2>3, <3>2, <4>1 DEF Executed, NoCalls
    <3>6. Landing(o)'
      BY <1>3, <2>3, <3>2, <3>4, <3>5 DEF Landing, ExecutedLast
    <3> QED BY <1>3, <2>1, <2>3, <3>2, <3>3, <3>6 DEF Delivered, Final
  <2>5. \A s \in Slots : ~(calls'[s] # NoCall /\ calls'[s].kind # "sync")
    BY <1>1, <1>3, Checking
  <2> QED BY <1>1, <1>3, <2>4, <2>5 DEF PaidInv, Sold
<1> QED BY <1>4, <1>5

LEMMA CashierPaid ==
  ASSUME TillInv, LaneInv, SettledInv, PaidInv, Cashier
  PROVE  PaidInv'
<1>1. CASE \E online \in BOOLEAN : Checkout(online)
  BY <1>1, CheckoutPaid
<1>2. CASE ~\E online \in BOOLEAN : Checkout(online)
  <2>1. UNCHANGED <<serverVars, paidFor>>
    BY <1>2 DEF Cashier, EditCart, HoldOrder, ResumeOrder, VoidOrder
  <2>2. ~CheckoutQueued
    BY <1>2, CashierWaits DEF Cashier, EditCart, HoldOrder, VoidOrder, HasLines, ResumeOrder,
                              SettledInv, Quiet
  <2>3. \A id, cart : /\ Op(id, "upsert", cart).type # "checkout"
                      /\ Op(id, "hold", cart).type # "checkout"
                      /\ Op(id, "resume", cart).type # "checkout"
                      /\ Op(id, "void", cart).type # "checkout"
    BY DEF Op
  <2>4. queue' = queue \/ \E id, cart :
          \/ queue' = WithoutTrailingUpsert(queue)
                        \cup {Op(nextId, "upsert", cart), Op(id, "hold", NoCart)}
          \/ queue' = queue \cup {Op(id, "resume", NoCart)}
          \/ queue' = queue \cup {Op(id, "void", NoCart)}
    <3>1. CASE HoldOrder
      BY <2>2, <3>1 DEF HoldOrder
    <3>2. CASE ~HoldOrder
      BY <1>2, <3>2 DEF Cashier, EditCart, ResumeOrder, VoidOrder
    <3> QED BY <3>1, <3>2
  <2>5. WithoutTrailingUpsert(queue) \subseteq queue
    BY DEF WithoutTrailingUpsert
  <2>6. ~CheckoutQueued'
    BY <2>2, <2>3, <2>4, <2>5 DEF CheckoutQueued
  <2> QED BY <2>1, <2>2, <2>6, NothingPaid
<1> QED BY <1>1, <1>2

LEMMA EnginePaid ==
  ASSUME TillInv, LaneInv, SettledInv, PaidInv, Engine
  PROVE  PaidInv'
<1>1. UNCHANGED <<serverVars, drain, paidFor>>
  BY DEF Engine, SaveCart, FireDebounce, AppendUpsert, TellCashier
<1>2. CASE SaveCart
  <2>1. ~CheckoutQueued /\ queue' = queue
    BY <1>2 DEF SaveCart, SettledInv, Quiet
  <2> QED BY <1>1, <2>1, NothingPaid DEF CheckoutQueued
<1>3. CASE AppendUpsert /\ MayAppendUpsert
  <2>1. ~CheckoutQueued
    BY <1>3 DEF MayAppendUpsert
  <2>2. queue' = WithoutTrailingUpsert(queue) \cup {Op(nextId, "upsert", fired)}
    BY <1>3 DEF AppendUpsert
  <2>3. ~CheckoutQueued'
    BY <2>1, <2>2 DEF CheckoutQueued, WithoutTrailingUpsert, Op
  <2> QED BY <1>1, <2>1, <2>3, NothingPaid
<1>4. CASE ~SaveCart /\ ~(AppendUpsert /\ MayAppendUpsert)
  <2>1. UNCHANGED <<doc, queue>>
    BY <1>4 DEF Engine, FireDebounce, AppendUpsert, TellCashier
  <2> QED BY <1>1, <2>1, PaidKept
<1> QED BY <1>2, <1>3, <1>4

-----------------------------------------------------------------------------
(* The paid cart through the steps of the drain.                            *)

\* A step of the drain that leaves the rows of the server as they are.
LEMMA DrainPays ==
  ASSUME PaidInv, UNCHANGED <<order, sales, keys, paidFor>>, queue' \subseteq queue,
         \A o \in queue' : o.type = "checkout" => Delivered(o)',
         \A s \in Slots : calls'[s] # NoCall /\ calls'[s].kind # "sync" =>
           Carries(calls[s], D.ops[1])'
  PROVE  PaidInv'
BY DEF PaidInv, Sold

\* The checkout stays at the head.
LEMMA HeadMoves ==
  ASSUME NEW o, AtHead(o), D # Idle, queue' = queue,
         D' = Idle \/ (/\ D'.ops = D.ops /\ D'.batch = D.batch
                       /\ D'.at \in {"walk", "wait", "put", "fail"})
  PROVE  AtHead(o)'
BY DEF AtHead

\* A drain without the checkout goes on or ends.
LEMMA BehindMoves ==
  ASSUME NEW o, Landing(o), D # Idle, ~Has(D.ops, o), keys' = keys,
         (D' = Idle /\ NoCalls') \/ (D' # Idle /\ ~Has(D'.ops, o))
  PROVE  Landing(o)'
<1>1. keys'[o.id - 1] = Unknown /\ Unknown.state = "free"
  BY DEF Landing, Unknown
<1>2. NoCalls' => ~Executed(o)'
  BY <1>1 DEF Executed, NoCalls
<1> QED BY <1>1, <1>2 DEF Landing, ExecutedLast

\* What was executed is as it was while no call stores an answer.
LEMMA ExecutedKept ==
  ASSUME NEW o, ExecutedLast(o), UNCHANGED <<order, keys, queue, doc>>,
         \A s \in Slots : calls'[s] # NoCall => calls'[s] = calls[s] \/ calls'[s].stage # "store"
  PROVE  ExecutedLast(o)'
<1>1. Executed(o)' => Executed(o)
  BY DEF Executed
<1>2. FinalBatch' = FinalBatch /\ \A n : Expected(n)' = Expected(n)
  BY DEF FinalBatch, Expected
<1>3. Outdated => Outdated'
  BY <1>2 DEF Outdated
<1> QED BY <1>1, <1>3 DEF ExecutedLast

LEMMA HasRest ==
  ASSUME NEW ops \in Seq(Ops), ops # <<>>, NEW o
  PROVE  Has(Tail(ops), o) => Has(ops, o)
<1>1. Len(ops) \in Nat /\ Len(ops) # 0 /\ Len(Tail(ops)) = Len(ops) - 1
  BY EmptySeq
<1>2. \A n \in 1..Len(Tail(ops)) : Tail(ops)[n] = ops[n + 1] /\ n + 1 \in 1..Len(ops)
  BY <1>1
<1> QED BY <1>2 DEF Has

LEMMA StartDrainPaid ==
  ASSUME TillInv, LaneInv, SettledInv, PaidInv, StartDrain(MainTab)
  PROVE  PaidInv'
<1>1. /\ D = Idle /\ D' # Idle /\ D'.at = "walk" /\ D'.ops = BySeq(queue) /\ D'.batch = <<>>
      /\ doc # NoDoc => D'.cursor = doc.version
      /\ UNCHANGED <<serverVars, doc, queue, paidFor>>
  BY StartDrainDoes
<1>2. UNCHANGED <<order, sales, keys, calls>>
  BY <1>1 DEF serverVars
<1>3. NoCalls
  BY <1>1, Silent DEF LaneInv
<1>4. ASSUME NEW o \in queue, o.type = "checkout" PROVE Delivered(o)'
  <2>1. Delivered(o) /\ doc # NoDoc
    BY <1>4 DEF PaidInv, SettledInv, Quiet, CheckoutQueued
  <2>2. CASE Final(o) \in queue
    <3>1. Landing(o)
      BY <2>1, <2>2 DEF Delivered
    <3>2. Has(D'.ops, o)
      BY <1>1, BySeqOrdered DEF TillInv
    <3>3. ExecutedLast(o)
      BY <1>1, <3>1 DEF Landing
    <3>4. ExecutedLast(o)'
      BY <1>1, <1>2, <3>3, ExecutedKept
    <3>5. Landing(o)'
      BY <1>1, <2>1, <3>2, <3>4 DEF Landing
    <3> QED BY <1>1, <2>2, <3>5 DEF Delivered, Final
  <2>3. CASE Final(o) \notin queue
    <3>1. Landed(o)
      BY <1>1, <2>1, <2>3 DEF Delivered, Fails
    <3>2. AtHead(o)'
      BY <1>1, <3>1, HeadOfQueue DEF Landed, AtHead
    <3> QED BY <1>1, <1>2, <2>3, <3>1, <3>2 DEF Landed, Delivered, Final
  <2> QED BY <2>2, <2>3
<1> QED BY <1>1, <1>2, <1>3, <1>4, DrainPays DEF NoCalls

LEMMA SendBatchPaid ==
  ASSUME TillInv, LaneInv, SettledInv, PaidInv, SendBatch(MainTab)
  PROVE  PaidInv'
<1>1. /\ D # Idle /\ D.at = "walk" /\ D.ops # <<>> /\ D.ops[1].type # "checkout"
      /\ Head(D.ops).type # "checkout" /\ NoCalls
      /\ D' # Idle /\ D'.at = "wait" /\ D'.batch = NextBatch(D.ops)
      /\ D'.ops = SubSeq(D.ops, Len(D'.batch) + 1, Len(D.ops))
      /\ UNCHANGED <<order, sales, keys, doc, queue, paidFor>>
  BY SendBatchDoes DEF LaneInv
<1>2. \A s \in Slots : calls'[s] # NoCall =>
        /\ calls'[s].kind = "sync" /\ calls'[s].stage = "begin" /\ calls'[s].answers = <<>>
        /\ calls'[s].ops = [n \in DOMAIN D'.batch |->
             Sent(D'.batch[n], VersionCursor(D'.batch, D.cursor, n - 1))]
  BY SendBatchDoes DEF LaneInv
<1>3. LaneTypes(D, queue, nextId)
  BY <1>1, LaneHere
<1>4. /\ D'.batch \in Seq(Ops) /\ Len(D'.batch) \in 1..Len(D.ops)
      /\ \A n \in 1..Len(D'.batch) : D'.batch[n] = D.ops[n] /\ D.ops[n].type # "checkout"
  BY <1>1, <1>3, NextBatchIsFirst DEF LaneTypes
<1>5. PICK m : m = Len(D'.batch)
  OBVIOUS
<1>6. Len(D.ops) \in Nat /\ D.ops \in Seq(Ops) /\ m \in 1..Len(D.ops)
  BY <1>3, <1>4, <1>5, LaneIds
<1>7. /\ Len(D'.ops) = Len(D.ops) - m
      /\ \A n \in 1..(Len(D.ops) - m) : D'.ops[n] = D.ops[m + n]
  <2>1. D'.ops = SubSeq(D.ops, m + 1, Len(D.ops))
    BY <1>1, <1>5
  <2> QED BY <1>6, <2>1
<1>8. ASSUME NEW o, o.type = "checkout" PROVE Has(D'.ops, o) <=> Has(D.ops, o)
  <2>1. ASSUME NEW n \in 1..Len(D'.ops), D'.ops[n] = o PROVE Has(D.ops, o)
    <3>1. m + n \in 1..Len(D.ops) /\ D.ops[m + n] = o
      BY <1>6, <1>7, <2>1
    <3> QED BY <3>1 DEF Has
  <2>2. ASSUME NEW n \in 1..Len(D.ops), D.ops[n] = o PROVE Has(D'.ops, o)
    <3>1. ~(n \in 1..m)
      BY <1>4, <1>5, <1>8, <2>2
    <3>2. n - m \in 1..Len(D'.ops) /\ m + (n - m) = n
      BY <1>6, <1>7, <3>1
    <3>3. D'.ops[n - m] = o
      BY <1>7, <2>2, <3>2
    <3> QED BY <3>2, <3>3 DEF Has
  <2> QED BY <2>1, <2>2 DEF Has
<1>9. ASSUME NEW o \in queue, o.type = "checkout" PROVE Delivered(o)'
  <2>1. Delivered(o) /\ Final(o)' = Final(o)
    BY <1>9 DEF PaidInv, Final
  <2>2. CASE Final(o) \in queue /\ Has(D.ops, o)
    <3>1. Landing(o) /\ Has(D'.ops, o)
      BY <1>8, <1>9, <2>1, <2>2 DEF Delivered
    <3>2. D.ops = BySeq(queue) /\ D.cursor = doc.version /\ ExecutedLast(o)
      BY <1>1, <2>2, <3>1 DEF Landing
    <3>3. /\ FinalBatch' = D'.batch
          /\ \A n : Expected(n)' = VersionCursor(D'.batch, D.cursor, n - 1)
      BY <1>1, <3>2 DEF FinalBatch, Expected
    <3>4. ExecutedLast(o)'
      BY <1>1, <1>2, <3>2, ExecutedKept
    <3>5. DOMAIN D'.batch = 1..Len(D'.batch) /\ Len(<<>>) = 0
      BY <1>4
    <3>6. ASSUME NEW s \in Slots, calls'[s] # NoCall PROVE FinalSent(calls[s], o)'
      <4>1. /\ calls'[s].stage = "begin" /\ calls'[s].answers = <<>>
            /\ calls'[s].ops = [n \in DOMAIN D'.batch |->
                 Sent(D'.batch[n], VersionCursor(D'.batch, D.cursor, n - 1))]
        BY <1>2, <3>6
      <4>2. \A n \in 1..Len(D'.batch) : calls'[s].ops[n] = Sent(D'.batch[n], Expected(n)')
        BY <3>3, <3>5, <4>1
      <4>3. 1..Len(calls'[s].answers) = {}
        BY <3>5, <4>1
      <4> QED BY <3>3, <4>1, <4>2, <4>3 DEF FinalSent
    <3>7. Landing(o)'
      BY <1>1, <3>1, <3>3, <3>4, <3>6 DEF Landing
    <3> QED BY <1>1, <2>1, <2>2, <3>7 DEF Delivered
  <2>3. CASE Final(o) \in queue /\ ~Has(D.ops, o)
    <3>1. Landing(o)'
      BY <1>1, <1>8, <1>9, <2>1, <2>3, BehindMoves DEF Delivered
    <3> QED BY <1>1, <2>1, <2>3, <3>1 DEF Delivered
  <2>4. CASE Final(o) \notin queue
    BY <1>1, <1>9, <2>1, <2>4 DEF Delivered, Landed, Fails, AtHead
  <2> QED BY <2>2, <2>3, <2>4
<1> QED BY <1>1, <1>2, <1>9, DrainPays

LEMMA StartCheckoutOpPaid ==
  ASSUME TillInv, LaneInv, SettledInv, PaidInv, StartCheckoutOp(MainTab)
  PROVE  PaidInv'
<1>1. /\ D # Idle /\ D.at = "walk" /\ D.ops # <<>> /\ D.ops[1].type = "checkout"
      /\ D' # Idle /\ D'.ops = D.ops /\ D'.batch = D.batch
      /\ UNCHANGED <<order, sales, keys, doc, queue, paidFor>>
  BY StartCheckoutOpDoes DEF LaneInv
<1>2. (D.failed /\ D'.at = "fail") \/ (~D.failed /\ D'.at = "wait")
  BY StartCheckoutOpDoes DEF LaneInv
<1>3. \A s \in Slots : calls'[s] # NoCall => calls'[s].kind = "submit" /\ calls'[s].stage = "begin"
  BY StartCheckoutOpDoes DEF LaneInv, NoCalls
<1>4. ASSUME NEW o \in queue, o.type = "checkout" PROVE Delivered(o)'
  <2>1. Delivered(o) /\ Final(o)' = Final(o)
    BY <1>4 DEF PaidInv, Final
  <2>2. o.id \in Nat /\ \A p \in queue : p.id >= o.id
    BY <1>1, <1>4, Queued, LaneHere
  <2>3. Final(o) \notin queue
    BY <2>2 DEF Final, Op
  <2>4. AtHead(o) /\ AtHead(o)'
    BY <1>1, <1>2, <2>1, <2>3, HeadMoves DEF Delivered, Landed, Fails
  <2>5. Landed(o)' \/ Fails(o)'
    BY <1>1, <1>2, <2>1, <2>3, <2>4 DEF Delivered, Landed, Fails
  <2> QED BY <1>1, <2>1, <2>3, <2>5 DEF Delivered
<1>5. \A s \in Slots : calls'[s] # NoCall => Carries(calls[s], D.ops[1])'
  BY <1>3 DEF Carries
<1> QED BY <1>1, <1>4, <1>5, DrainPays

LEMMA ReceiveBatchPaid ==
  ASSUME TillInv, LaneInv, SettledInv, PaidInv, NEW s \in Slots, ReceiveBatch(MainTab, s)
  PROVE  PaidInv'
<1>1. /\ D # Idle /\ D.at = "wait"
      /\ calls[s] # NoCall /\ calls[s].kind = "sync" /\ calls[s].stage = "done"
      /\ D' # Idle /\ D'.at = "ack" /\ D'.answers = calls[s].answers
      /\ D'.ops = D.ops /\ D'.batch = D.batch /\ NoCalls'
      /\ UNCHANGED <<order, sales, keys, doc, queue, paidFor>>
  BY ReceiveBatchDoes DEF LaneInv
<1>2. calls[s] \in Calls /\ GoodCall(calls[s]) /\ WaitsFor(D, calls[s])
  BY <1>1, OnlyCall DEF LaneInv
<1>3. Len(calls[s].answers) = Len(calls[s].ops)
  BY <1>1, <1>2 DEF GoodCall
<1>4. D.batch # <<>>
  <2>1. Len(calls[s].ops) = Len(D.batch) /\ calls[s].ops # <<>> /\ calls[s].ops \in Seq(WireOps)
    BY <1>1, <1>2 DEF WaitsFor, GoodCall, Calls
  <2> QED BY <2>1, EmptySeq
<1>5. ASSUME NEW o \in queue, o.type = "checkout" PROVE Delivered(o)'
  <2>1. Delivered(o) /\ Final(o)' = Final(o)
    BY <1>5 DEF PaidInv, Final
  <2>2. CASE Final(o) \in queue /\ Has(D.ops, o)
    <3>1. FinalSent(calls[s], o)
      BY <1>1, <2>1, <2>2 DEF Delivered, Landing
    <3>2. Landing(o)'
      BY <1>1, <1>3, <2>2, <3>1 DEF Landing, FinalSent
    <3> QED BY <1>1, <2>1, <2>2, <3>2 DEF Delivered
  <2>3. CASE Final(o) \in queue /\ ~Has(D.ops, o)
    <3>1. Landing(o)'
      BY <1>1, <2>1, <2>3, BehindMoves DEF Delivered
    <3> QED BY <1>1, <2>1, <2>3, <3>1 DEF Delivered
  <2>4. CASE Final(o) \notin queue
    BY <1>1, <1>4, <2>1, <2>4 DEF Delivered, Landed, Fails, AtHead
  <2> QED BY <2>2, <2>3, <2>4
<1> QED BY <1>1, <1>5, DrainPays DEF NoCalls

\* What a drain that goes on is known to be.
LEMMA LaneNext ==
  ASSUME TillInv', LaneInv', D' # Idle
  PROVE  Lane(D', queue', nextId') /\ LaneTypes(D', queue', nextId') /\ GoodDrain(D)'
<1>1. GoodDrain(D)' /\ D' \in Drains
  <2>1. DrainInv'
    BY DEF TillInv
  <2> QED BY <2>1, TillAssumption DEF DrainInv, D
<1>2. GoodQueue(queue', nextId') /\ Lane(D', queue', nextId')
  BY DEF TillInv, LaneInv
<1> QED BY <1>1, <1>2 DEF LaneTypes, GoodDrain, CartOps, Drains

LEMMA AckOpPaid ==
  ASSUME TillInv, TillInv', LaneInv, LaneInv', SettledInv, PaidInv, AckOp(MainTab), ~amiss'
  PROVE  PaidInv'
<1>1. /\ D # Idle /\ D.at = "ack" /\ D.batch # <<>> /\ NoCalls'
      /\ queue' = Without(D.batch[1].id)
      /\ D' # Idle /\ D'.ops = D.ops /\ D'.batch = Tail(D.batch) /\ D'.answers = Tail(D.answers)
      /\ D'.at \in {"walk", "ack", "put"} /\ (D'.at = "walk" => D'.batch = <<>>)
      /\ D.answers[1].code = "ok" \/ (D'.failed = TRUE /\ D'.at # "put")
      /\ UNCHANGED <<order, sales, keys, paidFor>>
  BY AckOpDoes DEF LaneInv, serverVars
<1>2. /\ Lane(D, queue, nextId) /\ LaneTypes(D, queue, nextId) /\ GoodDrain(D) /\ D \in Drains
      /\ Lane(D', queue', nextId') /\ LaneTypes(D', queue', nextId') /\ GoodDrain(D)'
  BY <1>1, LaneHere, TheDrain, LaneNext
<1>3. /\ D.answers \in Seq(Answers) /\ D.batch \in Seq(Ops) /\ Len(D.answers) = Len(D.batch)
      /\ \A n \in 1..Len(D.batch) : D.batch[n].id \in Nat
  BY <1>1, <1>2, LaneIds DEF GoodDrain, Drains, LaneTypes
<1>4. PICK m \in Nat : m = Len(D.batch)
  BY <1>3
<1>5. 1 \in 1..m /\ Len(D'.batch) = m - 1 /\ Len(D'.answers) = m - 1
      /\ \A n \in 1..(m - 1) : D'.answers[n] = D.answers[n + 1]
  <2>1. m # 0
    BY <1>1, <1>3, <1>4, EmptySeq
  <2> QED BY <1>1, <1>3, <1>4, <2>1
<1>6. ASSUME NEW o \in queue', o.type = "checkout" PROVE Delivered(o)'
  <2>1. o \in queue /\ Delivered(o) /\ Final(o)' = Final(o)
    BY <1>1, <1>6 DEF PaidInv, Final, Without
  <2>2. o.id \in Nat
    BY <1>6, <2>1, Queued
  <2>3. CASE Final(o) \in queue /\ Has(D.ops, o) /\ m = 1
    <3>1. /\ D.ops # <<>> /\ D.ops[1] = o /\ D.batch[1] = Final(o) /\ Landing(o)
      BY <1>1, <1>4, <1>6, <2>1, <2>3, FinalAhead DEF Delivered
    <3>2. Final(o) \notin queue'
      BY <1>1, <3>1 DEF Without
    <3>3. D'.batch = <<>>
      BY <1>1, <1>3, <1>5, <2>3, EmptySeq
    <3>4. D'.at \in {"walk", "put"}
      BY <1>1, <1>2, <3>3 DEF GoodDrain
    <3>5. \A p \in queue' : p.id >= o.id
      BY <1>1, <1>2, <1>6, <3>1, <3>3, CheckoutAhead
    <3>6. AtHead(o)'
      BY <1>1, <3>1, <3>3, <3>4, <3>5 DEF AtHead
    <3>7. CASE D.answers[1].code = "ok"
      <4>1. order.cart = o.cart
        BY <1>1, <1>3, <1>4, <2>3, <3>1, <3>7 DEF Landing
      <4> QED BY <1>1, <2>1, <3>2, <3>6, <4>1 DEF Delivered, Landed
    <3>8. CASE D.answers[1].code # "ok"
      BY <1>1, <2>1, <3>2, <3>4, <3>6, <3>8 DEF Delivered, Fails
    <3> QED BY <3>7, <3>8
  <2>4. CASE Final(o) \in queue /\ Has(D.ops, o) /\ m # 1
    <3>1. D.batch[m] = Final(o) /\ Landing(o)
      BY <1>1, <1>4, <1>6, <2>1, <2>4, FinalAhead DEF Delivered
    <3>2. m \in 1..m /\ 1 < m /\ m - 1 \in 1..(m - 1)
      BY <1>5, <2>4
    <3>3. D.batch[1].id < D.batch[m].id
      BY <1>2, <1>4, <1>5, <3>2 DEF Lane, Sorted, Increasing
    <3>4. Final(o) \in queue'
      BY <1>1, <1>3, <1>4, <1>5, <2>4, <3>1, <3>2, <3>3 DEF Without
    <3>5. D'.at \in {"ack", "put"}
      <4>1. ASSUME D'.batch = <<>> PROVE FALSE
        <5>1. Len(D'.batch) = 0
          BY <4>1
        <5>2. m - 1 = 0
          BY <1>5, <5>1
        <5> QED BY <3>2, <5>2
      <4> QED BY <1>1, <4>1
    <3>6. D'.answers[Len(D'.answers)] = D.answers[Len(D.answers)]
      <4>1. D'.answers[m - 1] = D.answers[m]
        BY <1>5, <3>2
      <4> QED BY <1>3, <1>4, <1>5, <4>1
    <3>7. Landing(o)'
      BY <1>1, <2>4, <3>1, <3>5, <3>6 DEF Landing
    <3> QED BY <2>1, <3>4, <3>7 DEF Delivered
  <2>5. CASE Final(o) \in queue /\ ~Has(D.ops, o)
    <3>1. D.batch[1].id # o.id - 1
      BY <1>2, <1>4, <1>5, <1>6, <2>1, <2>5 DEF Lane, Covered
    <3>2. Final(o) \in queue'
      BY <1>1, <2>2, <2>5, <3>1 DEF Without, Final, Op
    <3>3. Landing(o)'
      BY <1>1, <2>1, <2>5, BehindMoves DEF Delivered
    <3> QED BY <2>1, <3>2, <3>3 DEF Delivered
  <2>6. CASE Final(o) \notin queue
    BY <1>1, <2>1, <2>6 DEF Delivered, Landed, Fails, AtHead
  <2> QED BY <2>3, <2>4, <2>5, <2>6
<1>7. queue' \subseteq queue
  BY <1>1 DEF Without
<1> QED BY <1>1, <1>6, <1>7, DrainPays DEF NoCalls

LEMMA PutVersionPaid ==
  ASSUME TillInv, LaneInv, SettledInv, PaidInv, PutVersion(MainTab), ~amiss'
  PROVE  PaidInv'
<1>1. /\ D # Idle /\ D.at = "put" /\ NoCalls'
      /\ D' # Idle /\ D'.at = (IF D.batch = <<>> THEN "walk" ELSE "ack")
      /\ D'.ops = D.ops /\ D'.batch = D.batch /\ D'.answers = D.answers
      /\ UNCHANGED <<order, sales, keys, queue, paidFor>>
  BY PutVersionDoes DEF LaneInv, serverVars
<1>2. ASSUME NEW o \in queue', o.type = "checkout" PROVE Delivered(o)'
  <2>1. o \in queue /\ Delivered(o) /\ Final(o)' = Final(o)
    BY <1>1, <1>2 DEF PaidInv, Final
  <2>2. CASE Final(o) \in queue /\ Has(D.ops, o)
    <3>1. D'.at = "ack" /\ Landing(o)
      BY <1>1, <1>2, <2>1, <2>2, FinalAhead DEF Delivered
    <3>2. Landing(o)'
      BY <1>1, <2>2, <3>1 DEF Landing
    <3> QED BY <1>1, <2>1, <2>2, <3>2 DEF Delivered
  <2>3. CASE Final(o) \in queue /\ ~Has(D.ops, o)
    <3>1. Landing(o)'
      BY <1>1, <2>1, <2>3, BehindMoves DEF Delivered
    <3> QED BY <1>1, <2>1, <2>3, <3>1 DEF Delivered
  <2>4. CASE Final(o) \notin queue
    <3>1. AtHead(o) /\ order.cart = o.cart
      BY <1>1, <2>1, <2>4 DEF Delivered, Landed, Fails
    <3>2. D'.at = "walk"
      BY <1>1, <3>1 DEF AtHead
    <3>3. AtHead(o)'
      BY <1>1, <3>1, <3>2, HeadMoves
    <3> QED BY <1>1, <2>1, <2>4, <3>1, <3>3 DEF Delivered, Landed
  <2> QED BY <2>2, <2>3, <2>4
<1> QED BY <1>1, <1>2, DrainPays DEF NoCalls

\* The calls of a checkout, between the server's steps.
LEMMA CheckoutPays ==
  ASSUME TillInv, LaneInv, PaidInv, UNCHANGED <<order, sales, keys, queue, paidFor>>,
         NEW s \in Slots, calls[s] # NoCall, calls[s].kind # "sync",
         D' = Idle \/ (/\ D'.ops = D.ops /\ D'.batch = D.batch
                       /\ D'.at \in {"walk", "wait", "put", "fail"}),
         \A x \in Slots : calls'[x] # NoCall /\ calls'[x].kind # "sync" =>
           Carries(calls[x], D.ops[1])'
  PROVE  PaidInv'
<1>1. /\ D # Idle /\ D.ops[1] \in queue /\ D.ops[1].type = "checkout"
      /\ Final(D.ops[1]) \notin queue /\ Landed(D.ops[1])
  BY Checking, SubmittedCart
<1>2. ASSUME NEW o \in queue', o.type = "checkout" PROVE Delivered(o)'
  <2>1. o = D.ops[1] /\ Final(o)' = Final(o)
    BY <1>1, <1>2, Queued DEF Final
  <2>2. AtHead(o) /\ order.cart = o.cart /\ Final(o) \notin queue
    BY <1>1, <2>1 DEF Landed
  <2>3. AtHead(o)'
    BY <1>1, <2>2, HeadMoves
  <2> QED BY <2>1, <2>2, <2>3 DEF Delivered, Landed
<1> QED BY <1>2, DrainPays

LEMMA AfterSubmitPaid ==
  ASSUME TillInv, LaneInv, PaidInv, NEW s \in Slots, AfterSubmit(MainTab, s)
  PROVE  PaidInv'
<1>1. /\ D # Idle /\ calls[s] # NoCall /\ calls[s].kind = "submit" /\ calls[s].stage = "done"
      /\ UNCHANGED <<order, sales, keys, queue, paidFor>>
  BY AfterSubmitDoes DEF LaneInv
<1>2. Carries(calls[s], D.ops[1])
  BY <1>1 DEF PaidInv
<1>3. CASE /\ calls[s].answers[1].code = "ok" /\ D' # Idle /\ D'.at = "wait"
           /\ D'.ops = D.ops /\ D'.batch = D.batch /\ NextCall("sale", calls[s].answers[1].cart)
  <2>1. calls[s].answers[1].cart = D.ops[1].cart
    BY <1>1, <1>2, <1>3 DEF Carries
  <2>2. \A x \in Slots : calls'[x] # NoCall => Carries(calls[x], D.ops[1])'
    BY <1>3, <2>1 DEF NextCall, Carries
  <2> QED BY <1>1, <1>3, <2>2, CheckoutPays
<1>4. CASE /\ NoCalls'
           /\ D' = Idle \/ (D'.at = "fail" /\ D'.ops = D.ops /\ D'.batch = D.batch)
  BY <1>1, <1>4, CheckoutPays DEF NoCalls
<1> QED BY <1>3, <1>4, AfterSubmitDoes DEF LaneInv

LEMMA AfterSalePaid ==
  ASSUME TillInv, LaneInv, PaidInv, NEW s \in Slots, AfterSale(MainTab, s)
  PROVE  PaidInv'
<1>1. /\ D # Idle /\ D.at = "wait" /\ calls[s] # NoCall /\ calls[s].kind = "sale"
      /\ UNCHANGED <<order, sales, keys, tillVars>>
      /\ NextCall("complete", NoCart) \/ NextCall("reopen", NoCart)
  BY AfterSaleDoes DEF LaneInv
<1>2. D' = D /\ UNCHANGED <<queue, paidFor>>
  BY <1>1 DEF D, tillVars
<1>3. \A x \in Slots : calls'[x] # NoCall => Carries(calls[x], D.ops[1])'
  BY <1>1 DEF NextCall, Carries
<1> QED BY <1>1, <1>2, <1>3, CheckoutPays

LEMMA AfterReopenPaid ==
  ASSUME TillInv, LaneInv, PaidInv, NEW s \in Slots, AfterReopen(MainTab, s)
  PROVE  PaidInv'
<1>1. /\ calls[s] # NoCall /\ calls[s].kind = "reopen" /\ NoCalls'
      /\ D'.at = "fail" /\ D'.ops = D.ops /\ D'.batch = D.batch
      /\ UNCHANGED <<order, sales, keys, queue, paidFor>>
  BY AfterReopenDoes DEF LaneInv
<1> QED BY <1>1, CheckoutPays DEF NoCalls

\* A checkout that is over leaves none queued.
LEMMA CheckoutLeaves ==
  ASSUME TillInv, LaneInv, PaidInv, UNCHANGED <<order, sales, keys, paidFor>>,
         D # Idle, D.ops # <<>>, D.ops[1].type = "checkout", D.at # "reopen",
         queue' = Without(D.ops[1].id), NoCalls'
  PROVE  PaidInv'
<1>1. queue' \subseteq queue
  BY DEF Without
<1>2. \A o \in queue' : o.type # "checkout"
  <2>1. ASSUME NEW o \in queue, o.type = "checkout" PROVE o = D.ops[1]
    BY <2>1, Queued
  <2> QED BY <2>1 DEF Without
<1> QED BY <1>1, <1>2, DrainPays DEF NoCalls

LEMMA AfterCompletePaid ==
  ASSUME TillInv, LaneInv, PaidInv, NEW s \in Slots, AfterComplete(MainTab, s)
  PROVE  PaidInv'
<1>1. /\ D # Idle /\ D.at = "wait" /\ D.ops # <<>>
      /\ calls[s] # NoCall /\ calls[s].kind = "complete" /\ NoCalls'
      /\ queue' = Without(D.ops[1].id) /\ UNCHANGED <<order, sales, keys, paidFor>>
  BY AfterCompleteDoes DEF LaneInv
<1>2. D.ops[1].type = "checkout"
  BY <1>1, Checking
<1> QED BY <1>1, <1>2, CheckoutLeaves

LEMMA FailCheckoutPaid ==
  ASSUME TillInv, LaneInv, PaidInv, FailCheckout(MainTab)
  PROVE  PaidInv'
<1>1. /\ D # Idle /\ D.at = "fail" /\ D.ops # <<>> /\ NoCalls'
      /\ queue' = Without(D.ops[1].id) /\ UNCHANGED <<serverVars, paidFor>>
  BY FailCheckoutDoes DEF LaneInv
<1>2. D.ops[1].type = "checkout" /\ UNCHANGED <<order, sales, keys>>
  BY <1>1, LaneHere DEF serverVars
<1> QED BY <1>1, <1>2, CheckoutLeaves

LEMMA ReopenDocPaid ==
  ASSUME TillInv, LaneInv, PaidInv, ReopenDoc(MainTab)
  PROVE  PaidInv'
<1>1. /\ D # Idle /\ D.at = "reopen" /\ D.ops # <<>> /\ NoCalls'
      /\ D' # Idle /\ D'.ops = Tail(D.ops)
      /\ UNCHANGED <<order, sales, keys, queue, paidFor>>
  BY ReopenDocDoes DEF LaneInv, serverVars
<1>2. ASSUME NEW o \in queue', o.type = "checkout" PROVE Delivered(o)'
  <2>1. o \in queue /\ Delivered(o) /\ Final(o)' = Final(o) /\ ~Has(D.ops, o)
    BY <1>1, <1>2, Queued DEF PaidInv, Final
  <2>2. Final(o) \in queue
    BY <1>1, <2>1 DEF Delivered, Landed, Fails, AtHead
  <2>3. ~Has(D'.ops, o)
    BY <1>1, <2>1, HasRest, LaneHere, LaneIds
  <2>4. Landing(o)'
    BY <1>1, <2>1, <2>2, <2>3, BehindMoves DEF Delivered
  <2> QED BY <1>1, <2>1, <2>2, <2>4 DEF Delivered
<1> QED BY <1>1, <1>2, DrainPays DEF NoCalls

LEMMA FinishDrainPaid ==
  ASSUME TillInv, LaneInv, PaidInv, FinishDrain(MainTab)
  PROVE  PaidInv'
<1>1. /\ D # Idle /\ D.at = "walk" /\ D.ops = <<>> /\ D' = Idle
      /\ UNCHANGED <<order, sales, keys, calls, queue, paidFor>>
  BY FinishDrainDoes DEF serverVars
<1>2. NoCalls'
  BY <1>1, Silent DEF LaneInv, NoCalls
<1>3. ASSUME NEW o \in queue', o.type = "checkout" PROVE Delivered(o)'
  <2>1. o \in queue /\ Delivered(o) /\ Final(o)' = Final(o)
    BY <1>1, <1>3 DEF PaidInv, Final
  <2>2. ~Has(D.ops, o)
    BY <1>1, EmptySeq DEF Has
  <2>3. Final(o) \in queue
    BY <1>1, <2>1 DEF Delivered, Landed, Fails, AtHead
  <2>4. Landing(o)'
    BY <1>1, <1>2, <2>1, <2>2, <2>3, BehindMoves DEF Delivered
  <2> QED BY <1>1, <2>1, <2>3, <2>4 DEF Delivered
<1> QED BY <1>1, <1>2, <1>3, DrainPays DEF NoCalls

LEMMA CrashPaid ==
  ASSUME TillInv, LaneInv, PaidInv, CrashServer
  PROVE  PaidInv'
<1>1. NoCalls' /\ UNCHANGED <<order, sales, keys, doc, queue, paidFor>>
  BY CrashServerDoes DEF LaneInv
<1>2. \A s \in Slots : calls'[s] = NoCall
  BY <1>1 DEF NoCalls
<1>3. CASE (D = Idle \/ D.at # "wait") /\ D' = D
  <2>1. ASSUME NEW o \in queue', o.type = "checkout" PROVE Delivered(o)'
    <3>1. o \in queue /\ Delivered(o) /\ Final(o)' = Final(o)
      BY <1>1, <2>1 DEF PaidInv, Final
    <3>2. CASE Final(o) \in queue
      <4>1. Landing(o)
        BY <3>1, <3>2 DEF Delivered
      <4>2. ExecutedLast(o) => ExecutedLast(o)'
        BY <1>1, <1>2, ExecutedKept
      <4>3. Landing(o)'
        BY <1>1, <1>3, <4>1, <4>2 DEF Landing
      <4> QED BY <1>1, <3>1, <3>2, <4>3 DEF Delivered
    <3>3. CASE Final(o) \notin queue
      BY <1>1, <1>3, <3>1, <3>3 DEF Delivered, Landed, Fails, AtHead
    <3> QED BY <3>2, <3>3
  <2> QED BY <1>1, <1>2, <2>1, DrainPays
<1>4. CASE D # Idle /\ D.at = "wait" /\ D' = Idle
  <2>1. ASSUME NEW o \in queue', o.type = "checkout" PROVE Delivered(o)'
    <3>1. o \in queue /\ Delivered(o) /\ Final(o)' = Final(o)
      BY <1>1, <2>1 DEF PaidInv, Final
    <3>2. CASE Final(o) \in queue /\ Has(D.ops, o)
      <4>1. ExecutedLast(o)
        BY <1>4, <3>1, <3>2 DEF Delivered, Landing
      <4>2. ExecutedLast(o)'
        BY <1>1, <1>2, <4>1, ExecutedKept
      <4>3. Landing(o)'
        BY <1>4, <4>2 DEF Landing
      <4> QED BY <1>1, <3>1, <3>2, <4>3 DEF Delivered
    <3>3. CASE Final(o) \in queue /\ ~Has(D.ops, o)
      <4>1. Landing(o)'
        BY <1>1, <1>4, <3>1, <3>3, BehindMoves DEF Delivered
      <4> QED BY <1>1, <3>1, <3>3, <4>1 DEF Delivered
    <3>4. CASE Final(o) \notin queue
      <4>1. AtHead(o) /\ order.cart = o.cart
        BY <1>4, <3>1, <3>4 DEF Delivered, Landed, Fails
      <4>2. AtHead(o)'
        BY <1>1, <1>4, <4>1, HeadMoves
      <4> QED BY <1>1, <3>1, <3>4, <4>1, <4>2 DEF Delivered, Landed
    <3> QED BY <3>2, <3>3, <3>4
  <2> QED BY <1>1, <1>2, <2>1, DrainPays
<1>5. ASSUME D'.at = "fail" /\ D'.ops = D.ops /\ D'.batch = D.batch,
             NEW s \in Slots, calls[s] # NoCall /\ calls[s].kind = "reopen"
      PROVE  PaidInv'
  BY <1>1, <1>2, <1>5, CheckoutPays
<1> QED BY <1>3, <1>4, <1>5, CrashServerDoes DEF LaneInv

LEMMA DrainPaid ==
  ASSUME TillInv, TillInv', LaneInv, LaneInv', SettledInv, PaidInv, ~amiss', DrainStep(MainTab)
  PROVE  PaidInv'
BY StartDrainPaid, FinishDrainPaid, SendBatchPaid, StartCheckoutOpPaid, ReceiveBatchPaid,
   AckOpPaid, PutVersionPaid, AfterSubmitPaid, AfterSalePaid, AfterReopenPaid,
   AfterCompletePaid, FailCheckoutPaid, ReopenDocPaid, FinishDrainPaid DEF DrainStep

-----------------------------------------------------------------------------
(* The server.                                                              *)

LEMMA MovedMoves ==
  ASSUME NEW row \in OrderRows
  PROVE  /\ Moved(row).row.status = row.status /\ Moved(row).row.cart = row.cart
         /\ Moved(row).row.version = row.version + 1 /\ Moved(row).answer.code = "ok"
BY DEF Moved, OrderRows, Ok

\* An upsert that is accepted brings its cart, and one that is not found an
\* order.
LEMMA UpsertTakes ==
  ASSUME order \in OrderRows, NEW op \in WireOps
  PROVE  /\ DoUpsert(op).answer.code = "ok" =>
              /\ DoUpsert(op).row.status # "none" /\ DoUpsert(op).row.cart = op.cart
              /\ order.status = "none" \/ (/\ order.version = op.expected
                                           /\ DoUpsert(op).row.version = order.version + 1)
         /\ DoUpsert(op).answer.code # "ok" =>
              DoUpsert(op).row = order /\ order.status # "none"
<1>1. CASE order.status = "none"
  <2>1. PICK row : row = [status |-> "open", cart |-> op.cart, version |-> 0]
    OBVIOUS
  <2>2. row \in OrderRows /\ row.status = "open" /\ row.cart = op.cart
    BY <2>1 DEF OrderRows, OrderStatuses, WireOps
  <2>3. DoUpsert(op) = Moved(row)
    BY <1>1, <2>1 DEF DoUpsert
  <2> QED BY <1>1, <2>2, <2>3, MovedMoves
<1>2. CASE order.status # "none"
  <2>1. PICK row : row = [order EXCEPT !.cart = op.cart]
    OBVIOUS
  <2>2. row \in OrderRows /\ row.status = order.status /\ row.cart = op.cart
        /\ row.version = order.version
    BY <2>1 DEF OrderRows, WireOps
  <2>3. \/ DoUpsert(op) = Kept(Refused)
        \/ DoUpsert(op) = Kept(Error("VERSION_CONFLICT"))
        \/ order.version = op.expected /\ DoUpsert(op) = Moved(row)
    BY <1>2, <2>1 DEF DoUpsert
  <2>4. Refused.code # "ok" /\ Error("VERSION_CONFLICT").code # "ok"
    BY DEF Refused, Error
  <2>5. \A a : Kept(a).row = order /\ Kept(a).answer = a
    BY DEF Kept
  <2> QED BY <1>2, <2>2, <2>3, <2>4, <2>5, MovedMoves
<1> QED BY <1>1, <1>2

\* A transition leaves the lines.
LEMMA TransitionTakes ==
  ASSUME order \in OrderRows, NEW action \in {"hold", "resume", "reopen", "void"}, NEW op
  PROVE  /\ DoTransition(action, op).row.cart = order.cart
         /\ DoTransition(action, op).answer.code = "ok" =>
              /\ order.status # "none" /\ DoTransition(action, op).row.status # "none"
              /\ DoTransition(action, op).row.version = order.version + 1
         /\ DoTransition(action, op).answer.code # "ok" => DoTransition(action, op).row = order
<1>1. PICK row : row = [order EXCEPT !.status = To[action]]
  OBVIOUS
<1>2. To[action] \in {"held", "open", "voided"} /\ "none" \notin From[action]
  BY DEF To, From
<1>3. row \in OrderRows /\ row.status # "none" /\ row.cart = order.cart
      /\ row.version = order.version
  BY <1>1, <1>2 DEF OrderRows, OrderStatuses
<1>4. \/ DoTransition(action, op) = Kept(Refused)
      \/ DoTransition(action, op) = Kept(Error("VERSION_CONFLICT"))
      \/ order.status \in From[action] /\ DoTransition(action, op) = Moved(row)
  BY <1>1 DEF DoTransition
<1>5. Refused.code # "ok" /\ Error("VERSION_CONFLICT").code # "ok"
  BY DEF Refused, Error
<1>6. \A a : Kept(a).row = order /\ Kept(a).answer = a
  BY DEF Kept
<1> QED BY <1>2, <1>3, <1>4, <1>5, <1>6, MovedMoves

\* The expectedVersions of a batch do not decrease.
LEMMA CursorGrows ==
  ASSUME NEW batch, NEW start \in Nat, NEW m \in Nat, NEW n \in Nat, m <= n
  PROVE  /\ VersionCursor(batch, start, m) \in Nat /\ VersionCursor(batch, start, n) \in Nat
         /\ VersionCursor(batch, start, m) <= VersionCursor(batch, start, n)
<1> DEFINE moved(i) == {k \in 1..i : start # 0 \/ \E j \in 1..k : batch[j].type = "upsert"}
<1>1. moved(m) \in SUBSET moved(n) /\ moved(n) \in SUBSET (1..n)
  OBVIOUS
<1>2. IsFiniteSet(1..n)
  BY FS_Interval
<1>3. IsFiniteSet(moved(n)) /\ IsFiniteSet(moved(m))
  BY <1>1, <1>2, FS_Subset
<1>4. /\ Cardinality(moved(m)) \in Nat /\ Cardinality(moved(n)) \in Nat
      /\ Cardinality(moved(m)) <= Cardinality(moved(n))
  BY <1>1, <1>3, FS_Subset, FS_CardinalityType
<1>5. \A i : VersionCursor(batch, start, i) = start + Cardinality(moved(i))
  BY DEF VersionCursor
<1> HIDE DEF moved
<1> QED BY <1>4, <1>5

\* A call of the checkout queued, as it is served.
LEMMA CheckoutServedPaid ==
  ASSUME TillInv, LaneInv, SettledInv, PaidInv, NEW s \in Slots, ServerStep(s),
         UNCHANGED tillVars, calls[s].kind # "sync",
         order'.cart = order.cart, Sold' => sales'[1] = paidFor,
         keys'[D.ops[1].id].state = "done" => keys'[D.ops[1].id].answer.cart = D.ops[1].cart,
         Carries(calls[s], D.ops[1])'
  PROVE  PaidInv'
<1>1. calls[s] # NoCall /\ \A x \in Slots : x # s => calls'[x] = NoCall
  BY ServerDoes DEF LaneInv
<1>2. D' = D /\ UNCHANGED <<queue, paidFor>>
  BY DEF D, tillVars
<1>3. /\ D.ops[1] \in queue /\ D.ops[1].type = "checkout" /\ D.ops[1].cart = paidFor
      /\ Final(D.ops[1]) \notin queue /\ Landed(D.ops[1])
  BY <1>1, SubmittedCart
<1>4. ASSUME NEW o \in queue', o.type = "checkout"
      PROVE  /\ o.cart = paidFor' /\ Delivered(o)'
             /\ keys'[o.id].state = "done" => keys'[o.id].answer.cart = o.cart
  <2>1. o = D.ops[1]
    BY <1>2, <1>3, <1>4, Queued
  <2>2. Landed(o)' /\ Final(o)' = Final(o)
    BY <1>2, <1>3, <2>1 DEF Landed, AtHead, Final
  <2> QED BY <1>2, <1>3, <2>1, <2>2 DEF Delivered
<1>5. \A x \in Slots : calls'[x] # NoCall => x = s
  BY <1>1
<1> QED BY <1>2, <1>4, <1>5 DEF PaidInv

LEMMA ReservePaid ==
  ASSUME TillInv, LaneInv, SettledInv, PaidInv, NEW s \in Slots, Reserve(s),
         UNCHANGED tillVars, calls[s].kind # "sync"
  PROVE  PaidInv'
<1>1. ServerStep(s) /\ paidFor' = paidFor /\ D' = D
  BY DEF ServerStep, tillVars, D
<1>2. PICK o : o = D.ops[1]
  OBVIOUS
<1>3. calls[s] # NoCall /\ o \in queue /\ o.type = "checkout" /\ CurrentOp(calls[s]).id = o.id
  BY <1>1, <1>2, CheckoutAtServer
<1>4. CallAt(s, "begin") /\ UNCHANGED <<order, sales>>
  BY ReserveDoes
<1>5. calls[s].kind = "submit"
  BY <1>4 DEF CallAt, GoodCall, Keyed
<1>6. Sold' => sales'[1] = paidFor
  BY <1>4 DEF PaidInv, Sold
<1>7. keys[o.id].state = "done" => keys[o.id].answer.cart = o.cart
  BY <1>3 DEF PaidInv
<1>8. PICK op : op = CurrentOp(calls[s]) /\ op.id = o.id
  BY <1>3
<1>9. \/ /\ keys'[o.id] = [state |-> "running", op |-> op]
         /\ calls'[s].kind = calls[s].kind /\ calls'[s].stage = "work"
      \/ /\ keys[o.id].state = "done" /\ keys' = keys /\ AnsweredWith(s, keys[o.id].answer)
      \/ /\ keys' = keys /\ AnsweredWith(s, Error("IDEMPOTENCY_CONFLICT"))
  BY <1>8, ReserveDoes
<1>10. \A a : AnsweredWith(s, a) =>
         calls'[s].kind = "submit" /\ calls'[s].stage = "done" /\ calls'[s].answers[1] = a
  BY <1>5 DEF AnsweredWith
<1>11. Error("IDEMPOTENCY_CONFLICT").code # "ok" /\ [state |-> "running", op |-> op].state # "done"
  BY DEF Error
<1>12. keys'[o.id].state = "done" => keys'[o.id].answer.cart = o.cart
  BY <1>7, <1>9, <1>11
<1>13. Carries(calls[s], o)'
  BY <1>5, <1>7, <1>9, <1>10, <1>11 DEF Carries
<1> QED BY <1>1, <1>2, <1>4, <1>5, <1>6, <1>12, <1>13, CheckoutServedPaid

LEMMA HandlePaid ==
  ASSUME TillInv, LaneInv, SettledInv, PaidInv, NEW s \in Slots, Handle(s),
         UNCHANGED tillVars, calls[s].kind # "sync"
  PROVE  PaidInv'
<1>1. ServerStep(s) /\ paidFor' = paidFor /\ D' = D
  BY DEF ServerStep, tillVars, D
<1>2. PICK o : o = D.ops[1]
  OBVIOUS
<1>3. /\ calls[s] # NoCall /\ o \in queue /\ o.type = "checkout"
      /\ CurrentOp(calls[s]).id = o.id /\ Selling(calls[s], o)
      /\ keys[o.id].state = "done" /\ calls[s].kind # "reopen" => order.status \in Taken
  BY <1>1, <1>2, CheckoutAtServer
<1>4. order.cart = o.cart /\ Carries(calls[s], o)
  BY <1>2, <1>3, SubmittedCart DEF Landed
<1>5. CallAt(s, "work") /\ sales' = sales /\ calls[s].kind # "sale"
  BY HandleDoes
<1>6. Sold' => sales'[1] = paidFor
  BY <1>5 DEF PaidInv, Sold
<1>7. keys[o.id].state = "done" => keys[o.id].answer.cart = o.cart
  BY <1>3 DEF PaidInv
<1>8. order \in OrderRows
  BY DEF TillInv, ServerInv, TypeOKServer, OrderRows
<1>9. PICK op : op = CurrentOp(calls[s]) /\ op.id = o.id
  BY <1>3
<1>10. PICK outcome : outcome = Handler(calls[s].kind, op)
  OBVIOUS
<1>11. /\ order' = outcome.row
       /\ \/ /\ calls[s].kind \in Keyed /\ outcome.answer.code = "ok" /\ keys' = keys
             /\ calls'[s].kind = calls[s].kind
             /\ calls'[s].stage = "store" /\ calls'[s].pending = outcome.answer
          \/ /\ calls[s].kind \in Keyed /\ outcome.answer.code # "ok"
             /\ keys'[op.id] = Unknown /\ AnsweredWith(s, outcome.answer)
          \/ /\ calls[s].kind \notin Keyed /\ keys' = keys /\ AnsweredWith(s, outcome.answer)
  BY <1>9, <1>10, HandleDoes
<1>12. AnsweredWith(s, outcome.answer) =>
         /\ calls'[s].kind = calls[s].kind /\ calls'[s].stage = "done"
         /\ calls'[s].answers[1] = outcome.answer
  BY DEF AnsweredWith
<1>13. keys'[o.id].state = "done" => keys'[o.id].answer.cart = o.cart
  BY <1>7, <1>9, <1>11 DEF Unknown
<1>14. CASE calls[s].kind = "submit"
  <2>1. outcome = DoSubmit(op) /\ calls[s].kind \in Keyed
    BY <1>10, <1>14 DEF Handler, Keyed
  <2>2. order'.cart = order.cart /\ (outcome.answer.code = "ok" => outcome.answer.cart = o.cart)
    BY <1>4, <1>8, <1>11, <2>1, SubmitTakes
  <2>3. Carries(calls[s], o)'
    BY <1>11, <1>12, <1>14, <2>1, <2>2 DEF Carries
  <2> QED BY <1>1, <1>2, <1>6, <1>13, <1>14, <2>2, <2>3, CheckoutServedPaid
<1>15. CASE calls[s].kind # "submit"
  <2>1. calls[s].kind \in {"complete", "reopen"} /\ calls[s].kind \notin Keyed
    BY <1>5, <1>15 DEF CallAt, Calls, Kinds, Keyed
  <2>2. CASE calls[s].kind = "complete"
    <3>1. order.status \in Taken
      BY <1>3, <2>2 DEF Selling
    <3>2. outcome = DoComplete
      BY <1>10, <2>2 DEF Handler
    <3> QED BY <1>1, <1>2, <1>6, <1>8, <1>11, <1>12, <1>13, <2>1, <2>2, <3>1, <3>2,
               CompleteTakes, CheckoutServedPaid DEF Carries
  <2>3. CASE calls[s].kind = "reopen"
    <3>1. outcome = DoTransition("reopen", op)
      BY <1>10, <2>3 DEF Handler
    <3>2. order'.cart = order.cart
      BY <1>8, <1>11, <3>1, TransitionTakes
    <3>3. Carries(calls[s], o)'
      BY <1>11, <1>12, <2>1, <2>3 DEF Carries
    <3> QED BY <1>1, <1>2, <1>6, <1>13, <2>3, <3>2, <3>3, CheckoutServedPaid
  <2> QED BY <2>1, <2>2, <2>3
<1> QED BY <1>14, <1>15

LEMMA StorePaid ==
  ASSUME TillInv, LaneInv, SettledInv, PaidInv, NEW s \in Slots, Store(s),
         UNCHANGED tillVars, calls[s].kind # "sync"
  PROVE  PaidInv'
<1>1. ServerStep(s) /\ paidFor' = paidFor /\ D' = D
  BY DEF ServerStep, tillVars, D
<1>2. PICK o : o = D.ops[1]
  OBVIOUS
<1>3. calls[s] # NoCall /\ CurrentOp(calls[s]).id = o.id
  BY <1>1, <1>2, CheckoutAtServer
<1>4. Carries(calls[s], o)
  BY <1>2, <1>3, SubmittedCart
<1>5. CallAt(s, "store") /\ UNCHANGED <<order, sales>> /\ AnsweredWith(s, calls[s].pending)
  BY StoreDoes
<1>6. calls[s].kind = "submit"
  BY <1>5 DEF CallAt, GoodCall, Keyed
<1>7. calls[s].pending.cart = o.cart
  BY <1>4, <1>5, <1>6 DEF Carries, CallAt
<1>8. keys'[o.id].answer.cart = o.cart
  <2>1. PICK op : op = CurrentOp(calls[s]) /\ op.id = o.id
    BY <1>3
  <2>2. PICK row : row = [state |-> "done", op |-> op, answer |-> calls[s].pending]
    OBVIOUS
  <2>3. keys'[o.id] = row /\ row.answer = calls[s].pending
    BY <2>1, <2>2, StoreDoes
  <2> QED BY <1>7, <2>3
<1>9. Carries(calls[s], o)'
  BY <1>5, <1>6, <1>7 DEF Carries, AnsweredWith
<1>10. Sold' => sales'[1] = paidFor
  BY <1>5 DEF PaidInv, Sold
<1> QED BY <1>1, <1>2, <1>5, <1>6, <1>8, <1>9, <1>10, CheckoutServedPaid

LEMMA SellPaid ==
  ASSUME TillInv, LaneInv, SettledInv, PaidInv, NEW s \in Slots, Sell(s), UNCHANGED tillVars
  PROVE  PaidInv'
<1>1. ServerStep(s) /\ paidFor' = paidFor /\ D' = D
  BY DEF ServerStep, tillVars, D
<1>2. CallAt(s, "work") /\ calls[s].kind = "sale" /\ UNCHANGED <<order, keys>>
  BY SellDoes
<1>3. PICK o : o = D.ops[1]
  OBVIOUS
<1>4. calls[s] # NoCall /\ o \in queue /\ o.type = "checkout"
  BY <1>1, <1>2, <1>3, CheckoutAtServer
<1>5. Carries(calls[s], o) /\ o.cart = paidFor
  BY <1>2, <1>3, <1>4, SubmittedCart
<1>6. CurrentOp(calls[s]) = calls[s].ops[1]
  BY <1>2, <1>4, OpAhead DEF CallAt
<1>7. calls[s].ops[1].cart = paidFor
  BY <1>2, <1>5 DEF Carries
<1>8. Sold' => sales'[1] = paidFor
  <2>1. CASE Sold
    BY <2>1, SellDoes DEF PaidInv
  <2>2. CASE ~Sold
    <3>1. sales = <<>>
      BY <2>2 DEF Sold
    <3>2. sales' = Append(<<>>, calls[s].ops[1].cart) \/ sales' = <<>>
      BY <1>6, <2>2, <3>1, SellDoes
    <3> QED BY <1>7, <3>2 DEF Sold
  <2> QED BY <2>1, <2>2
<1>9. calls'[s].kind = "sale" /\ calls'[s].ops = calls[s].ops
  BY <1>2, SellDoes DEF AnsweredWith
<1>10. Carries(calls[s], o)'
  BY <1>2, <1>5, <1>9 DEF Carries
<1>11. keys'[o.id].state = "done" => keys'[o.id].answer.cart = o.cart
  BY <1>2, <1>4 DEF PaidInv
<1> QED BY <1>1, <1>2, <1>3, <1>8, <1>10, <1>11, CheckoutServedPaid

\* A batch at the server is ahead of the checkout queued.
LEMMA OpBehind ==
  ASSUME TillInv, LaneInv, NEW s \in Slots, calls[s] # NoCall, calls[s].kind = "sync",
         calls[s].stage # "done", NEW o \in queue, o.type = "checkout"
  PROVE  /\ D # Idle /\ D.at = "wait" /\ D.batch # <<>>
         /\ CurrentOp(calls[s]).id < o.id /\ CurrentOp(calls[s]).id # o.id
         /\ \E n \in 1..Len(D.batch) : CurrentOp(calls[s]).id = D.batch[n].id
<1>1. D # Idle /\ D.at = "wait"
  BY OnlyCall DEF LaneInv
<1>2. PICK n \in 1..Len(D.batch) : CurrentOp(calls[s]).id = D.batch[n].id
  BY OpAhead
<1>3. D.batch[n].id < o.id
  BY <1>1, Queued DEF Below
<1>4. D.batch[n].id \in Nat /\ o.id \in Nat
  BY <1>1, LaneHere, LaneIds, Queued
<1>5. D.batch # <<>>
  BY <1>2, EmptySeq
<1> QED BY <1>1, <1>2, <1>3, <1>4, <1>5

\* The batch with the final upsert, at the server.
LEMMA FinalAt ==
  ASSUME TillInv, LaneInv, SettledInv, PaidInv, NEW s \in Slots, ServerStep(s),
         UNCHANGED tillVars, calls[s].kind = "sync", NEW o \in queue, o.type = "checkout",
         Final(o) \in queue, Has(D.ops, o), NEW n, n = Len(calls[s].answers) + 1
  PROVE  /\ calls[s] # NoCall /\ calls[s].stage # "done" /\ D # Idle /\ D.at = "wait"
         /\ Len(FinalBatch) \in Nat /\ n \in 1..Len(FinalBatch)
         /\ Len(calls[s].ops) = Len(FinalBatch)
         /\ CurrentOp(calls[s]) = Sent(FinalBatch[n], Expected(n))
         /\ CurrentOp(calls[s]).id = FinalBatch[n].id
         /\ CurrentOp(calls[s]).type = FinalBatch[n].type
         /\ CurrentOp(calls[s]).cart = FinalBatch[n].cart
         /\ CurrentOp(calls[s]).expected = Expected(n)
         /\ \A k \in 1..Len(FinalBatch) :
              /\ calls[s].ops[k] = Sent(FinalBatch[k], Expected(k))
              /\ calls[s].ops[k].id = FinalBatch[k].id
              /\ calls[s].ops[k].type = FinalBatch[k].type
              /\ FinalBatch[k].id \in OpIds /\ FinalBatch[k].type \in SyncTypes
              /\ k # n => FinalBatch[k].id # FinalBatch[n].id
         /\ FinalBatch[Len(FinalBatch)] = Final(o) /\ o.id - 1 \in OpIds
         /\ n # Len(FinalBatch) => FinalBatch[n].id # o.id - 1
         /\ n = Len(FinalBatch) => /\ FinalBatch[n].id = o.id - 1 /\ FinalBatch[n].type = "upsert"
                                   /\ FinalBatch[n].cart = o.cart
         /\ \A k \in 1..n : Expected(k) \in Nat /\ Expected(k) <= Expected(n)
         /\ FinalSent(calls[s], o) /\ ExecutedLast(o)
<1>1. calls[s] # NoCall /\ calls[s].stage # "done"
  BY ServerDoes DEF LaneInv
<1>2. D # Idle /\ D.at = "wait" /\ D.batch # <<>>
  BY <1>1, OpBehind
<1>3. Landing(o)
  BY DEF PaidInv, Delivered
<1>4. D.batch = FinalBatch /\ FinalSent(calls[s], o) /\ ExecutedLast(o)
  BY <1>1, <1>2, <1>3 DEF Landing
<1>5. FinalBatch[Len(FinalBatch)] = Final(o) /\ Len(FinalBatch) \in 1..Len(FinalBatch)
  BY <1>2, <1>4, FinalAhead
<1>6. /\ CurrentOp(calls[s]) = calls[s].ops[n] /\ n \in 1..Len(FinalBatch)
      /\ Len(calls[s].ops) = Len(FinalBatch)
  BY <1>1, <1>4, OpAhead
<1>7. PICK b : b = FinalBatch
  OBVIOUS
<1>8. /\ Len(b) \in Nat /\ Increasing(b)
      /\ \A k \in 1..Len(b) : b[k] \in Ops /\ b[k].id \in Nat /\ b[k].type # "checkout"
  BY <1>2, <1>4, <1>7, LaneHere, LaneIds DEF Lane, Sorted
<1>9. \A k \in 1..Len(b) : b[k].id \in OpIds /\ b[k].type \in SyncTypes
  BY <1>8 DEF Ops, SyncTypes
<1>10. \A j, k \in 1..Len(b) : j # k => b[j].id # b[k].id
  <2>1. ASSUME NEW j \in 1..Len(b), NEW k \in 1..Len(b), j # k PROVE b[j].id # b[k].id
    <3>1. j < k \/ k < j
      BY <1>8, <2>1
    <3>2. b[j].id < b[k].id \/ b[k].id < b[j].id
      BY <1>8, <3>1 DEF Increasing
    <3> QED BY <1>8, <3>2
  <2> QED BY <2>1
<1>11. \A k \in 1..Len(b) :
         /\ calls[s].ops[k] = Sent(b[k], Expected(k))
         /\ calls[s].ops[k].id = b[k].id /\ calls[s].ops[k].type = b[k].type
         /\ calls[s].ops[k].cart = b[k].cart /\ calls[s].ops[k].expected = Expected(k)
  BY <1>4, <1>7 DEF FinalSent, Sent
<1>12. b[Len(b)].id = o.id - 1 /\ b[Len(b)].type = "upsert" /\ b[Len(b)].cart = o.cart
  BY <1>5, <1>7 DEF Final, Op
<1>13. \A k \in 1..n : Expected(k) \in Nat /\ Expected(k) <= Expected(n)
  <2>1. doc \in Docs
    BY DEF SettledInv, Quiet, CheckoutQueued, TillInv, TillTypes
  <2>2. doc.version \in Nat
    BY <2>1 DEF Docs
  <2>3. ASSUME NEW k \in 1..n PROVE Expected(k) \in Nat /\ Expected(k) <= Expected(n)
    <3>1. k - 1 \in Nat /\ n - 1 \in Nat /\ k - 1 <= n - 1
      BY <1>6, <1>7, <1>8
    <3> QED BY <2>2, <3>1, CursorGrows DEF Expected
  <2> QED BY <2>3
<1>14. n \in 1..Len(b) /\ Len(b) \in 1..Len(b) /\ b[Len(b)] = Final(o)
  BY <1>5, <1>6, <1>7
<1>15. /\ CurrentOp(calls[s]) = Sent(b[n], Expected(n)) /\ CurrentOp(calls[s]).id = b[n].id
       /\ CurrentOp(calls[s]).type = b[n].type /\ CurrentOp(calls[s]).cart = b[n].cart
       /\ CurrentOp(calls[s]).expected = Expected(n)
  BY <1>6, <1>11, <1>14
<1>16. o.id - 1 \in OpIds
  BY <1>9, <1>12, <1>14
<1>17. n # Len(b) => b[n].id # o.id - 1
  BY <1>10, <1>12, <1>14
<1>18. n = Len(b) => b[n].id = o.id - 1 /\ b[n].type = "upsert" /\ b[n].cart = o.cart
  BY <1>12
<1>19. \A k \in 1..Len(b) :
          /\ calls[s].ops[k] = Sent(b[k], Expected(k))
          /\ calls[s].ops[k].id = b[k].id /\ calls[s].ops[k].type = b[k].type
          /\ b[k].id \in OpIds /\ b[k].type \in SyncTypes
          /\ k # n => b[k].id # b[n].id
  BY <1>9, <1>10, <1>11, <1>14
<1>20. b = FinalBatch /\ Len(calls[s].ops) = Len(b) /\ Len(b) \in Nat
  BY <1>6, <1>7, <1>8
<1> QED BY <1>1, <1>2, <1>4, <1>13, <1>14, <1>15, <1>16, <1>17, <1>18, <1>19, <1>20, Zenon

\* When the final upsert can be executed after a step of the server.
LEMMA ExecutedBefore ==
  ASSUME TillInv, LaneInv, SettledInv, PaidInv, NEW s \in Slots, ServerStep(s),
         UNCHANGED tillVars, calls[s].kind = "sync", NEW o \in queue, o.type = "checkout",
         Final(o) \in queue, Has(D.ops, o), NEW n, n = Len(calls[s].answers) + 1,
         calls'[s].stage # "store"
           \/ (calls'[s].ops = calls[s].ops /\ calls'[s].answers = calls[s].answers)
  PROVE  /\ Executed(o)' => keys'[o.id - 1].state = "done"
                              \/ (calls'[s].stage = "store" /\ n = Len(FinalBatch))
         /\ keys[o.id - 1].state = "done" => Executed(o)
         /\ n # Len(FinalBatch) => keys'[o.id - 1] = keys[o.id - 1]
<1>1. /\ \A x \in Slots : x # s => calls'[x] = NoCall
      /\ \A k \in OpIds : k # CurrentOp(calls[s]).id => keys'[k] = keys[k]
  BY ServerDoes DEF LaneInv
<1>2. /\ CurrentOp(calls[s]).id = FinalBatch[n].id /\ o.id - 1 \in OpIds
      /\ n # Len(FinalBatch) => FinalBatch[n].id # o.id - 1
  BY FinalAt
<1>3. CurrentOp(calls'[s]).id = o.id - 1 /\ calls'[s].stage = "store" => n = Len(FinalBatch)
  BY <1>2 DEF CurrentOp
<1> QED BY <1>1, <1>2, <1>3 DEF Executed, CurrentOp

\* What is left to show of a batch with the final upsert.
LEMMA FinalServed ==
  ASSUME TillInv, LaneInv, SettledInv, PaidInv, NEW s \in Slots, ServerStep(s),
         UNCHANGED tillVars, calls[s].kind = "sync", NEW o \in queue, o.type = "checkout",
         Final(o) \in queue, Has(D.ops, o), FinalSent(calls[s], o)', ExecutedLast(o)'
  PROVE  Delivered(o)'
<1>1. D' = D /\ queue' = queue /\ D # Idle /\ D.at = "wait"
  <2>1. calls[s] # NoCall /\ calls[s].stage # "done"
    BY ServerDoes DEF LaneInv
  <2> QED BY <2>1, OpBehind DEF D, tillVars
<1>2. FinalBatch' = FinalBatch /\ Final(o)' = Final(o)
  BY <1>1 DEF FinalBatch, Final
<1>3. \A x \in Slots : calls'[x] # NoCall => x = s
  BY ServerDoes DEF LaneInv
<1>4. Landing(o)
  BY DEF PaidInv, Delivered
<1>5. Landing(o)'
  BY <1>1, <1>2, <1>3, <1>4 DEF Landing
<1> QED BY <1>1, <1>2, <1>5 DEF Delivered

\* A batch with the final upsert, as the server goes on with it.
FinalStep(s, o, n) ==
  /\ ServerStep(s) /\ UNCHANGED tillVars /\ calls[s].kind = "sync"
  /\ o \in queue /\ o.type = "checkout" /\ Final(o) \in queue /\ Has(D.ops, o)
  /\ n = Len(calls[s].answers) + 1

\* What such a step must keep, said of the batch and the versions as they are.
LEMMA FinalKept ==
  ASSUME TillInv, LaneInv, SettledInv, PaidInv, NEW s \in Slots, NEW o, NEW n,
         FinalStep(s, o, n), calls'[s].ops = calls[s].ops,
         /\ calls'[s].stage = "work" /\ CurrentOp(calls'[s]).type = "upsert"
              /\ Len(calls'[s].answers) + 1 < Len(calls'[s].ops)
              /\ Executed(o)' => CurrentOp(calls'[s]).expected < order'.version,
         calls'[s].stage = "done" /\ calls'[s].answers[Len(calls'[s].ops)].code = "ok" =>
           order'.cart = o.cart,
         order'.status = "none" =>
           \A k \in 1..Len(calls'[s].answers) :
             calls[s].ops[k].type = "upsert" => keys'[calls[s].ops[k].id] # Unknown,
         Executed(o)' =>
           /\ order'.cart = o.cart /\ order'.status # "none"
           /\ \A k \in 1..Len(FinalBatch) :
                k < Len(FinalBatch) /\ FinalBatch[k].type = "upsert" =>
                  Expected(k) < order'.version \/ keys'[FinalBatch[k].id] # Unknown
  PROVE  Delivered(o)'
<1>1. FinalBatch' = FinalBatch /\ \A k : Expected(k)' = Expected(k)
  BY DEF FinalBatch, Expected, FinalStep, tillVars
<1>2. FinalSent(calls[s], o)
  BY FinalAt DEF FinalStep
<1>3. \A k \in 1..Len(FinalBatch') : calls'[s].ops[k] = Sent(FinalBatch'[k], Expected(k)')
  BY <1>1, <1>2 DEF FinalSent
<1>4. FinalSent(calls[s], o)'
  BY <1>3 DEF FinalSent
<1>5. Executed(o)' => Outdated'
  BY <1>1 DEF Outdated
<1>6. ExecutedLast(o)'
  BY <1>5 DEF ExecutedLast
<1> QED BY <1>4, <1>6, FinalServed DEF FinalStep

\* The op the server is at, in a batch with the final upsert.
LEMMA FinalHere ==
  ASSUME TillInv, LaneInv, SettledInv, PaidInv, NEW s \in Slots, NEW o, NEW n,
         FinalStep(s, o, n)
  PROVE  /\ Len(FinalBatch) \in Nat /\ n \in 1..Len(FinalBatch)
         /\ Len(calls[s].ops) = Len(FinalBatch)
         /\ Len(calls[s].answers) = n - 1 /\ calls[s].answers \in Seq(Answers)
         /\ CurrentOp(calls[s]).id = FinalBatch[n].id
         /\ CurrentOp(calls[s]).type = FinalBatch[n].type
         /\ CurrentOp(calls[s]).cart = FinalBatch[n].cart
         /\ CurrentOp(calls[s]).expected = Expected(n)
         /\ \A k \in 1..Len(FinalBatch) :
              /\ calls[s].ops[k].id = FinalBatch[k].id
              /\ calls[s].ops[k].type = FinalBatch[k].type
              /\ FinalBatch[k].type \in SyncTypes
              /\ k # n => keys'[FinalBatch[k].id] = keys[FinalBatch[k].id]
         /\ n # Len(FinalBatch) => FinalBatch[n].id # o.id - 1
         /\ n = Len(FinalBatch) => /\ FinalBatch[n].id = o.id - 1 /\ FinalBatch[n].type = "upsert"
                                   /\ FinalBatch[n].cart = o.cart
         /\ \A k \in 1..n : Expected(k) \in Nat /\ Expected(k) <= Expected(n)
         /\ order.status = "none" =>
              \A k \in 1..n - 1 : FinalBatch[k].type = "upsert" => keys[FinalBatch[k].id] # Unknown
         /\ calls[s].stage = "work" /\ n < Len(FinalBatch) /\ FinalBatch[n].type = "upsert"
              /\ Executed(o) => Expected(n) < order.version
         /\ Executed(o) =>
              /\ order.cart = o.cart /\ order.status # "none"
              /\ \A k \in 1..Len(FinalBatch) :
                   k < Len(FinalBatch) /\ FinalBatch[k].type = "upsert" =>
                     Expected(k) < order.version \/ keys[FinalBatch[k].id] # Unknown
         /\ keys[o.id - 1].state = "done" => Executed(o)
<1> DEFINE b == FinalBatch
<1> DEFINE e(k) == Expected(k)
<1>1. /\ Len(b) \in Nat /\ n \in 1..Len(b) /\ Len(calls[s].ops) = Len(b)
      /\ CurrentOp(calls[s]).id = b[n].id /\ CurrentOp(calls[s]).type = b[n].type
      /\ CurrentOp(calls[s]).cart = b[n].cart /\ CurrentOp(calls[s]).expected = e(n)
      /\ \A k \in 1..Len(b) : /\ calls[s].ops[k].id = b[k].id /\ calls[s].ops[k].type = b[k].type
                              /\ b[k].id \in OpIds /\ b[k].type \in SyncTypes
                              /\ (k # n => b[k].id # b[n].id)
      /\ n # Len(b) => b[n].id # o.id - 1
      /\ n = Len(b) => b[n].id = o.id - 1 /\ b[n].type = "upsert" /\ b[n].cart = o.cart
      /\ \A k \in 1..n : e(k) \in Nat /\ e(k) <= e(n)
      /\ FinalSent(calls[s], o) /\ ExecutedLast(o)
  BY FinalAt DEF FinalStep
<1>2. n = Len(calls[s].answers) + 1
  BY DEF FinalStep
<1>3. calls[s].answers \in Seq(Answers)
  <2>1. calls[s] # NoCall
    BY ServerDoes DEF LaneInv, FinalStep
  <2> QED BY <2>1 DEF TillInv, ServerInv, TypeOKServer, Calls
<1>4. Len(calls[s].answers) = n - 1
  BY <1>2, <1>3
<1>5. \A k \in 1..Len(b) : k # n => keys'[b[k].id] = keys[b[k].id]
  BY <1>1, ServerDoes DEF LaneInv, FinalStep
<1>6. order.status = "none" =>
        \A k \in 1..n - 1 : b[k].type = "upsert" => keys[b[k].id] # Unknown
  <2>1. ASSUME order.status = "none", NEW k \in 1..n - 1, b[k].type = "upsert"
        PROVE  keys[b[k].id] # Unknown
    <3>1. k \in 1..Len(calls[s].answers) /\ k \in 1..Len(b)
      BY <1>1, <1>4
    <3>2. calls[s].ops[k].id = b[k].id /\ calls[s].ops[k].type = b[k].type
      BY <1>1, <3>1
    <3>3. FinalSent(calls[s], o)
      BY <1>1
    <3> QED BY <2>1, <3>1, <3>2, <3>3 DEF FinalSent
  <2> QED BY <2>1
<1>7. calls[s].stage = "work" /\ n < Len(b) /\ b[n].type = "upsert" /\ Executed(o) =>
        e(n) < order.version
  BY <1>1, <1>2 DEF FinalSent
<1>8. Executed(o) =>
        /\ order.cart = o.cart /\ order.status # "none"
        /\ \A k \in 1..Len(b) : k < Len(b) /\ b[k].type = "upsert" =>
             e(k) < order.version \/ keys[b[k].id] # Unknown
  BY <1>1 DEF ExecutedLast, Outdated
<1>9. keys[o.id - 1].state = "done" => Executed(o)
  BY DEF Executed
<1> QED BY <1>1, <1>3, <1>4, <1>5, <1>6, <1>7, <1>8, <1>9

\* The final upsert can be executed after a step when its key is done, or
\* when the step has just executed it.
LEMMA ExecutedNow ==
  ASSUME TillInv, LaneInv, SettledInv, PaidInv, NEW s \in Slots, NEW o, NEW n,
         FinalStep(s, o, n),
         calls'[s].stage # "store"
           \/ (calls'[s].ops = calls[s].ops /\ calls'[s].answers = calls[s].answers),
         Executed(o)'
  PROVE  /\ keys'[o.id - 1].state = "done"
              \/ (calls'[s].stage = "store" /\ n = Len(FinalBatch))
         /\ n # Len(FinalBatch) => Executed(o)
<1>1. keys'[o.id - 1].state = "done" \/ (calls'[s].stage = "store" /\ n = Len(FinalBatch))
  BY ExecutedBefore DEF FinalStep
<1>2. n # Len(FinalBatch) => keys'[o.id - 1] = keys[o.id - 1]
  BY ExecutedBefore DEF FinalStep
<1> QED BY <1>1, <1>2 DEF Executed

LEMMA FinalReserve ==
  ASSUME TillInv, LaneInv, SettledInv, PaidInv, NEW s \in Slots, NEW o, NEW n,
         FinalStep(s, o, n), Reserve(s)
  PROVE  Delivered(o)'
<1> DEFINE b == FinalBatch
<1> DEFINE e(k) == Expected(k)
<1>1. /\ Len(b) \in Nat /\ n \in 1..Len(b) /\ Len(calls[s].ops) = Len(b)
      /\ CurrentOp(calls[s]).id = b[n].id /\ CurrentOp(calls[s]).type = b[n].type
      /\ CurrentOp(calls[s]).expected = e(n)
      /\ \A k \in 1..Len(b) : calls[s].ops[k].id = b[k].id /\ calls[s].ops[k].type = b[k].type
      /\ n # Len(b) => b[n].id # o.id - 1
      /\ n = Len(b) => b[n].id = o.id - 1
  BY FinalHere
<1>2. /\ UNCHANGED <<order, sales>>
      /\ Len(calls[s].answers) = n - 1 /\ calls[s].answers \in Seq(Answers)
  <2>1. UNCHANGED <<order, sales>>
    BY ReserveDoes
  <2> QED BY <2>1, FinalHere
<1>3. \A k \in 1..Len(b) : k # n => keys'[b[k].id] = keys[b[k].id]
  BY FinalHere
<1>4. order.status = "none" =>
        \A k \in 1..n - 1 : b[k].type = "upsert" => keys[b[k].id] # Unknown
  BY FinalHere
<1>5. calls'[s].stage # "store" /\ Executed(o)' =>
        keys'[o.id - 1].state = "done" /\ (n # Len(b) => Executed(o))
  BY ExecutedNow
<1>6. /\ keys[o.id - 1].state = "done" => Executed(o)
      /\ Executed(o) =>
           /\ order.cart = o.cart /\ order.status # "none"
           /\ \A k \in 1..Len(b) : k < Len(b) /\ b[k].type = "upsert" =>
                e(k) < order.version \/ keys[b[k].id] # Unknown
  BY FinalHere
<1> HIDE DEF b, e
<1>7. CASE /\ keys[b[n].id] = Unknown
           /\ keys'[b[n].id] = [state |-> "running", op |-> CurrentOp(calls[s])]
           /\ calls'[s].ops = calls[s].ops /\ calls'[s].answers = calls[s].answers
           /\ calls'[s].stage = "work"
  <2>1. keys'[b[n].id].state # "done" /\ keys'[b[n].id] # Unknown
    BY <1>7 DEF Unknown
  <2>2. CurrentOp(calls'[s]) = CurrentOp(calls[s])
    BY <1>7 DEF CurrentOp
  <2>3. Executed(o)' => n # Len(b) /\ Executed(o)
    BY <1>1, <1>5, <1>7, <2>1
  <2>4. n < Len(b) /\ b[n].type = "upsert" /\ Executed(o)' => e(n) < order'.version
    BY <1>1, <1>2, <1>6, <1>7, <2>3
  <2>5. order'.status = "none" =>
          \A k \in 1..Len(calls'[s].answers) :
            calls[s].ops[k].type = "upsert" => keys'[calls[s].ops[k].id] # Unknown
    <3>1. ASSUME order'.status = "none", NEW k \in 1..n - 1, calls[s].ops[k].type = "upsert"
          PROVE  keys'[calls[s].ops[k].id] # Unknown
      <4>1. k \in 1..Len(b) /\ k # n
        BY <1>1
      <4>2. calls[s].ops[k].id = b[k].id /\ b[k].type = "upsert"
        BY <1>1, <3>1, <4>1
      <4>3. keys'[b[k].id] = keys[b[k].id] /\ order.status = "none"
        BY <1>2, <1>3, <3>1, <4>1
      <4> QED BY <1>4, <4>2, <4>3
    <3>2. Len(calls'[s].answers) = n - 1
      BY <1>2, <1>7
    <3> QED BY <3>1, <3>2
  <2>6. Executed(o)' =>
          /\ order'.cart = o.cart /\ order'.status # "none"
          /\ \A k \in 1..Len(b) : k < Len(b) /\ b[k].type = "upsert" =>
               e(k) < order'.version \/ keys'[b[k].id] # Unknown
    BY <1>2, <1>3, <1>6, <2>1, <2>3
  <2>7. /\ CurrentOp(calls'[s]).type = b[n].type /\ CurrentOp(calls'[s]).expected = e(n)
        /\ Len(calls'[s].answers) + 1 = n /\ Len(calls'[s].ops) = Len(b)
    BY <1>1, <1>2, <1>7, <2>2
  <2> QED BY <1>7, <2>4, <2>5, <2>6, <2>7, FinalKept DEF b, e
<1>8. CASE \E a : /\ keys[b[n].id] # Unknown /\ keys' = keys /\ AnsweredWith(s, a)
                  /\ a.code = "ok" => keys[b[n].id].state = "done"
  <2>1. PICK a : /\ keys[b[n].id] # Unknown /\ keys' = keys /\ AnsweredWith(s, a)
                 /\ a.code = "ok" => keys[b[n].id].state = "done"
    BY <1>8
  <2>2. /\ calls'[s].ops = calls[s].ops /\ calls'[s].answers = Append(calls[s].answers, a)
        /\ calls'[s].stage = IF n < Len(b) THEN "begin" ELSE "done"
    BY <1>1, <1>2, <2>1 DEF AnsweredWith
  <2>3. calls[s].answers \in Seq(Answers)
    BY <1>2
  <2>4. Len(calls'[s].answers) = n /\ calls'[s].answers[n] = a
    BY <1>1, <1>2, <2>2, <2>3
  <2>5. calls'[s].stage # "work" /\ (calls'[s].stage = "done" => n = Len(b))
        /\ (calls'[s].stage = "begin" \/ calls'[s].stage = "done")
    BY <1>1, <2>2
  <2>6. Executed(o)' => Executed(o)
    BY <1>5, <1>6, <2>1, <2>5
  <2>7. calls'[s].stage = "done" /\ calls'[s].answers[Len(calls'[s].ops)].code = "ok" =>
          order'.cart = o.cart
    <3>1. ASSUME calls'[s].stage = "done", calls'[s].answers[Len(calls'[s].ops)].code = "ok"
          PROVE  keys[o.id - 1].state = "done"
      BY <1>1, <2>1, <2>2, <2>4, <2>5, <3>1
    <3> QED BY <1>2, <1>6, <3>1
  <2>8. order'.status = "none" =>
          \A k \in 1..Len(calls'[s].answers) :
            calls[s].ops[k].type = "upsert" => keys'[calls[s].ops[k].id] # Unknown
    <3>1. ASSUME order'.status = "none", NEW k \in 1..n, calls[s].ops[k].type = "upsert"
          PROVE  keys'[calls[s].ops[k].id] # Unknown
      <4>1. k \in 1..Len(b) /\ (k = n \/ k \in 1..n - 1)
        BY <1>1
      <4> QED BY <1>1, <1>2, <1>4, <2>1, <3>1, <4>1
    <3> QED BY <2>4, <3>1
  <2>9. Executed(o)' =>
          /\ order'.cart = o.cart /\ order'.status # "none"
          /\ \A k \in 1..Len(b) : k < Len(b) /\ b[k].type = "upsert" =>
               e(k) < order'.version \/ keys'[b[k].id] # Unknown
    BY <1>2, <1>6, <2>1, <2>6
  <2> QED BY <2>2, <2>5, <2>7, <2>8, <2>9, FinalKept DEF b, e
<1>9. \/ /\ keys[b[n].id] = Unknown
         /\ keys'[b[n].id] = [state |-> "running", op |-> CurrentOp(calls[s])]
         /\ calls'[s].ops = calls[s].ops /\ calls'[s].answers = calls[s].answers
         /\ calls'[s].stage = "work"
      \/ \E a : /\ keys[b[n].id] # Unknown /\ keys' = keys /\ AnsweredWith(s, a)
                /\ a.code = "ok" => keys[b[n].id].state = "done"
  <2>1. PICK op : op = CurrentOp(calls[s]) /\ op.id = b[n].id
    BY <1>1
  <2>2. Error("IDEMPOTENCY_CONFLICT").code # "ok"
    BY DEF Error
  <2>3. \/ /\ keys[op.id] = Unknown /\ keys'[op.id] = [state |-> "running", op |-> op]
           /\ calls'[s].ops = calls[s].ops /\ calls'[s].answers = calls[s].answers
           /\ calls'[s].stage = "work"
        \/ /\ keys[op.id] # Unknown /\ keys[op.id].state = "done"
           /\ keys' = keys /\ AnsweredWith(s, keys[op.id].answer)
        \/ /\ keys[op.id] # Unknown /\ keys' = keys
           /\ AnsweredWith(s, Error("IDEMPOTENCY_CONFLICT"))
    BY <2>1, ReserveDoes
  <2> QED BY <2>1, <2>2, <2>3
<1> QED BY <1>7, <1>8, <1>9

LEMMA ExpectedNat ==
  ASSUME TillInv, SettledInv, NEW o \in queue, o.type = "checkout", NEW k \in Nat, k # 0
  PROVE  Expected(k) \in Nat
<1>1. doc \in Docs
  BY DEF SettledInv, Quiet, CheckoutQueued, TillInv, TillTypes
<1>2. doc.version \in Nat
  BY <1>1 DEF Docs
<1>3. k - 1 \in Nat
  OBVIOUS
<1> QED BY <1>2, <1>3, CursorGrows DEF Expected

LEMMA FinalStore ==
  ASSUME TillInv, LaneInv, SettledInv, PaidInv, NEW s \in Slots, NEW o, NEW n,
         FinalStep(s, o, n), Store(s)
  PROVE  Delivered(o)'
<1> DEFINE b == FinalBatch
<1> DEFINE e(k) == Expected(k)
<1>1. /\ Len(b) \in Nat /\ n \in 1..Len(b) /\ Len(calls[s].ops) = Len(b)
      /\ CurrentOp(calls[s]).id = b[n].id
      /\ \A k \in 1..Len(b) : calls[s].ops[k].id = b[k].id /\ calls[s].ops[k].type = b[k].type
      /\ n = Len(b) => b[n].id = o.id - 1
      /\ Len(calls[s].answers) = n - 1 /\ calls[s].answers \in Seq(Answers)
  BY FinalHere
<1>2. \A k \in 1..Len(b) : k # n => keys'[b[k].id] = keys[b[k].id]
  BY FinalHere
<1>3. order.status = "none" =>
        \A k \in 1..n - 1 : b[k].type = "upsert" => keys[b[k].id] # Unknown
  BY FinalHere
<1>4. Executed(o) =>
        /\ order.cart = o.cart /\ order.status # "none"
        /\ \A k \in 1..Len(b) : k < Len(b) /\ b[k].type = "upsert" =>
             e(k) < order.version \/ keys[b[k].id] # Unknown
  BY FinalHere
<1>5. PICK a : a = calls[s].pending
  OBVIOUS
<1>6. CallAt(s, "store") /\ UNCHANGED <<order, sales>> /\ AnsweredWith(s, a)
  BY <1>5, StoreDoes
<1>7. keys'[b[n].id] # Unknown
  <2>1. PICK op : op = CurrentOp(calls[s]) /\ op.id = b[n].id
    BY <1>1
  <2>2. PICK row : row = [state |-> "done", op |-> op, answer |-> calls[s].pending]
    OBVIOUS
  <2>3. keys'[op.id] = row
    BY <2>1, <2>2, StoreDoes
  <2>4. row # Unknown
    BY <2>2 DEF Unknown
  <2> QED BY <2>1, <2>3, <2>4
<1>8. /\ calls'[s].ops = calls[s].ops /\ calls'[s].answers = Append(calls[s].answers, a)
      /\ calls'[s].stage = IF n < Len(b) THEN "begin" ELSE "done"
  <2>1. Len(calls[s].answers) + 1 = n
    BY <1>1
  <2> QED BY <1>1, <1>6, <2>1 DEF AnsweredWith
<1>9. Len(calls'[s].answers) = n
  BY <1>1, <1>8
<1>10. /\ calls'[s].stage # "work" /\ calls'[s].stage # "store"
       /\ calls'[s].stage = "done" => n = Len(b)
  BY <1>1, <1>8
<1>11. n = Len(b) => Executed(o)
  BY <1>1, <1>6 DEF Executed, CallAt, FinalStep
<1>12. Executed(o)' => Executed(o)
  BY <1>10, <1>11, ExecutedNow
<1> HIDE DEF b, e
<1>13. order'.status = "none" =>
        \A k \in 1..Len(calls'[s].answers) :
          calls[s].ops[k].type = "upsert" => keys'[calls[s].ops[k].id] # Unknown
  <2>1. ASSUME order'.status = "none", NEW k \in 1..n, calls[s].ops[k].type = "upsert"
        PROVE  keys'[calls[s].ops[k].id] # Unknown
    <3>1. k \in 1..Len(b) /\ (k = n \/ k \in 1..n - 1)
      BY <1>1
    <3> QED BY <1>1, <1>2, <1>3, <1>6, <1>7, <2>1, <3>1
  <2> QED BY <1>9, <2>1
<1>14. Executed(o)' =>
        /\ order'.cart = o.cart /\ order'.status # "none"
        /\ \A k \in 1..Len(b) : k < Len(b) /\ b[k].type = "upsert" =>
             e(k) < order'.version \/ keys'[b[k].id] # Unknown
  BY <1>2, <1>4, <1>6, <1>7, <1>12
<1>15. calls'[s].stage = "done" => order'.cart = o.cart
  BY <1>4, <1>6, <1>10, <1>11
<1> QED BY <1>8, <1>10, <1>13, <1>14, <1>15, FinalKept DEF b, e

LEMMA FinalUpsert ==
  ASSUME TillInv, LaneInv, SettledInv, PaidInv, NEW s \in Slots, NEW o, NEW n,
         FinalStep(s, o, n), Handle(s), FinalBatch[n].type = "upsert"
  PROVE  Delivered(o)'
<1> DEFINE b == FinalBatch
<1> DEFINE e(k) == Expected(k)
<1>1. /\ Len(b) \in Nat /\ n \in 1..Len(b) /\ Len(calls[s].ops) = Len(b)
      /\ CurrentOp(calls[s]).id = b[n].id /\ CurrentOp(calls[s]).type = b[n].type
      /\ CurrentOp(calls[s]).cart = b[n].cart /\ CurrentOp(calls[s]).expected = e(n)
      /\ \A k \in 1..Len(b) : calls[s].ops[k].id = b[k].id /\ calls[s].ops[k].type = b[k].type
      /\ n = Len(b) => b[n].id = o.id - 1 /\ b[n].cart = o.cart
      /\ \A k \in 1..n : e(k) \in Nat /\ e(k) <= e(n)
      /\ Len(calls[s].answers) = n - 1 /\ calls[s].answers \in Seq(Answers)
  BY FinalHere
<1>2. \A k \in 1..Len(b) : k # n => keys'[b[k].id] = keys[b[k].id]
  BY FinalHere
<1>3. order.status = "none" =>
        \A k \in 1..n - 1 : b[k].type = "upsert" => keys[b[k].id] # Unknown
  BY FinalHere
<1>4. Executed(o) =>
        /\ order.cart = o.cart /\ order.status # "none"
        /\ \A k \in 1..Len(b) : k < Len(b) /\ b[k].type = "upsert" =>
             e(k) < order.version \/ keys[b[k].id] # Unknown
  BY FinalHere
<1>5. PICK op : op = CurrentOp(calls[s]) /\ op.id = b[n].id
  BY <1>1
<1>6. PICK outcome : outcome = DoUpsert(op)
  OBVIOUS
<1>7. Handler(calls[s].kind, op) = outcome /\ calls[s].kind = "sync"
  BY <1>1, <1>5, <1>6 DEF Handler, FinalStep
<1>8. /\ CallAt(s, "work") /\ order' = outcome.row
      /\ \/ /\ outcome.answer.code = "ok" /\ keys' = keys
            /\ calls'[s].ops = calls[s].ops /\ calls'[s].answers = calls[s].answers
            /\ calls'[s].stage = "store"
         \/ /\ outcome.answer.code # "ok" /\ keys'[op.id] = Unknown
            /\ AnsweredWith(s, outcome.answer)
  BY <1>5, <1>7, HandleDoes DEF Keyed
<1>9. n < Len(b) /\ Executed(o) => e(n) < order.version
  BY <1>8, FinalHere DEF CallAt
<1>10. order \in OrderRows /\ op \in WireOps
  BY <1>5, <1>8 DEF TillInv, ServerInv, TypeOKServer, OrderRows, CallAt
<1>11. /\ outcome.answer.code = "ok" =>
            /\ order'.status # "none" /\ order'.cart = op.cart
            /\ order.status = "none" \/ (/\ order.version = e(n)
                                         /\ order'.version = order.version + 1)
       /\ outcome.answer.code # "ok" => order' = order /\ order.status # "none"
  BY <1>1, <1>5, <1>6, <1>8, <1>10, UpsertTakes
<1>12. order.version \in Nat
  BY <1>10 DEF OrderRows
<1>13. calls'[s].stage # "store" /\ Executed(o)' =>
         keys'[o.id - 1].state = "done" /\ (n # Len(b) => Executed(o))
  BY ExecutedNow
<1>14. n # Len(b) /\ Executed(o)' => Executed(o)
  <2>1. AnsweredWith(s, outcome.answer) => calls'[s].stage # "store"
    BY DEF AnsweredWith
  <2>2. calls'[s].stage # "store"
          \/ (calls'[s].ops = calls[s].ops /\ calls'[s].answers = calls[s].answers)
    BY <1>8, <2>1
  <2> QED BY <2>2, ExecutedNow
<1> HIDE DEF b, e
<1>15. CASE outcome.answer.code = "ok"
  <2>1. /\ keys' = keys /\ calls'[s].stage = "store"
        /\ calls'[s].ops = calls[s].ops /\ calls'[s].answers = calls[s].answers
        /\ order'.status # "none" /\ order'.cart = op.cart
    BY <1>8, <1>11, <1>15
  <2>2. ASSUME Executed(o)' PROVE n = Len(b)
    <3>1. ASSUME n # Len(b) PROVE FALSE
      <4>1. Executed(o) /\ n < Len(b)
        BY <1>1, <1>14, <2>2, <3>1
      <4>2. e(n) < order.version /\ order.status # "none"
        BY <1>4, <1>9, <4>1
      <4>3. order.version = e(n) /\ e(n) \in Nat
        BY <1>1, <1>11, <1>15, <4>2
      <4> QED BY <4>2, <4>3
    <3> QED BY <3>1
  <2>3. ASSUME Executed(o)'
        PROVE  /\ order'.cart = o.cart /\ order'.status # "none"
               /\ \A k \in 1..Len(b) : k < Len(b) /\ b[k].type = "upsert" =>
                    e(k) < order'.version \/ keys'[b[k].id] # Unknown
    <3>1. n = Len(b) /\ order'.cart = o.cart
      BY <1>1, <1>5, <2>1, <2>2, <2>3
    <3>2. ASSUME NEW k \in 1..Len(b), k < Len(b), b[k].type = "upsert"
          PROVE  e(k) < order'.version \/ keys'[b[k].id] # Unknown
      <4>1. k \in 1..n /\ k \in 1..n - 1
        BY <1>1, <3>1, <3>2
      <4>2. CASE order.status = "none"
        BY <1>3, <2>1, <3>2, <4>1, <4>2
      <4>3. CASE order.status # "none"
        <5>1. e(k) \in Nat /\ e(k) <= e(n) /\ e(n) \in Nat
          BY <1>1, <4>1
        <5>2. e(n) = order.version /\ order'.version = order.version + 1
          BY <1>11, <1>15, <4>3
        <5> QED BY <5>1, <5>2
      <4> QED BY <4>2, <4>3
    <3> QED BY <2>1, <3>1, <3>2
  <2> QED BY <2>1, <2>3, FinalKept DEF b, e
<1>16. CASE outcome.answer.code # "ok"
  <2>1. keys'[b[n].id] = Unknown /\ order' = order /\ order.status # "none"
    BY <1>5, <1>8, <1>11, <1>16
  <2>2. /\ calls'[s].ops = calls[s].ops
        /\ calls'[s].answers = Append(calls[s].answers, outcome.answer)
        /\ calls'[s].stage = IF n < Len(b) THEN "begin" ELSE "done"
    <3>1. Len(calls[s].answers) + 1 = n
      BY <1>1
    <3> QED BY <1>1, <1>8, <1>16, <3>1 DEF AnsweredWith
  <2>3. Len(calls'[s].answers) = n /\ calls'[s].answers[n] = outcome.answer
    BY <1>1, <2>2
  <2>4. calls'[s].stage # "work" /\ calls'[s].stage # "store"
    BY <2>2
  <2>5. ~(calls'[s].stage = "done" /\ calls'[s].answers[Len(calls'[s].ops)].code = "ok")
    <3>1. calls'[s].stage = "done" => n = Len(calls'[s].ops)
      BY <1>1, <2>2
    <3> QED BY <1>16, <2>3, <3>1
  <2>6. Executed(o)' => n # Len(b) /\ Executed(o)
    <3>1. n = Len(b) => keys'[o.id - 1] = Unknown
      BY <1>1, <2>1
    <3>2. Unknown.state # "done"
      BY DEF Unknown
    <3> QED BY <1>13, <2>4, <3>1, <3>2
  <2>7. Executed(o)' =>
          /\ order'.cart = o.cart /\ order'.status # "none"
          /\ \A k \in 1..Len(b) : k < Len(b) /\ b[k].type = "upsert" =>
               e(k) < order'.version \/ keys'[b[k].id] # Unknown
    <3>1. n # Len(b) => n < Len(b)
      BY <1>1
    <3> QED BY <1>2, <1>4, <1>9, <2>1, <2>6, <3>1
  <2>8. order'.status # "none"
    BY <2>1
  <2> QED BY <2>2, <2>4, <2>5, <2>7, <2>8, FinalKept DEF b, e
<1> QED BY <1>15, <1>16

LEMMA FinalTransition ==
  ASSUME TillInv, LaneInv, SettledInv, PaidInv, NEW s \in Slots, NEW o, NEW n,
         FinalStep(s, o, n), Handle(s), FinalBatch[n].type # "upsert"
  PROVE  Delivered(o)'
<1> DEFINE b == FinalBatch
<1> DEFINE e(k) == Expected(k)
<1>1. /\ Len(b) \in Nat /\ n \in 1..Len(b) /\ Len(calls[s].ops) = Len(b)
      /\ CurrentOp(calls[s]).id = b[n].id /\ CurrentOp(calls[s]).type = b[n].type
      /\ b[n].type \in SyncTypes /\ n # Len(b)
      /\ \A k \in 1..Len(b) : calls[s].ops[k].id = b[k].id /\ calls[s].ops[k].type = b[k].type
      /\ Len(calls[s].answers) = n - 1 /\ calls[s].answers \in Seq(Answers)
  <2>1. /\ Len(b) \in Nat /\ n \in 1..Len(b) /\ Len(calls[s].ops) = Len(b)
        /\ CurrentOp(calls[s]).id = b[n].id /\ CurrentOp(calls[s]).type = b[n].type
        /\ \A k \in 1..Len(b) : /\ calls[s].ops[k].id = b[k].id
                                /\ calls[s].ops[k].type = b[k].type
                                /\ b[k].type \in SyncTypes
        /\ Len(calls[s].answers) = n - 1 /\ calls[s].answers \in Seq(Answers)
    BY FinalHere
  <2>2. n = Len(b) => b[n].type = "upsert"
    BY FinalHere
  <2>3. b[n].type # "upsert"
    OBVIOUS
  <2> HIDE DEF b
  <2> QED BY <2>1, <2>2, <2>3
<1>2. n < Len(b)
  BY <1>1
<1>3. \A k \in 1..Len(b) : k # n => keys'[b[k].id] = keys[b[k].id]
  BY FinalHere
<1>4. order.status = "none" =>
        \A k \in 1..n - 1 : b[k].type = "upsert" => keys[b[k].id] # Unknown
  BY FinalHere
<1>5. Executed(o) =>
        /\ order.cart = o.cart /\ order.status # "none"
        /\ \A k \in 1..Len(b) : k < Len(b) /\ b[k].type = "upsert" =>
             e(k) < order.version \/ keys[b[k].id] # Unknown
  BY FinalHere
<1>6. PICK op : op = CurrentOp(calls[s]) /\ op.id = b[n].id /\ op.type = b[n].type
  BY <1>1
<1>7. op.type \in {"hold", "resume", "void"}
  BY <1>1, <1>6 DEF SyncTypes
<1>8. PICK outcome : outcome = DoTransition(op.type, op)
  OBVIOUS
<1>9. Handler(calls[s].kind, op) = outcome /\ calls[s].kind = "sync"
  BY <1>7, <1>8 DEF Handler, FinalStep
<1>10. /\ CallAt(s, "work") /\ order' = outcome.row
       /\ \/ /\ outcome.answer.code = "ok" /\ keys' = keys
             /\ calls'[s].ops = calls[s].ops /\ calls'[s].answers = calls[s].answers
             /\ calls'[s].stage = "store"
          \/ /\ outcome.answer.code # "ok" /\ AnsweredWith(s, outcome.answer)
  BY <1>6, <1>9, HandleDoes DEF Keyed
<1>11. order \in OrderRows
  BY DEF TillInv, ServerInv, TypeOKServer, OrderRows
<1>12. /\ order'.cart = order.cart
       /\ outcome.answer.code = "ok" => /\ order.status # "none" /\ order'.status # "none"
                                        /\ order'.version = order.version + 1
       /\ outcome.answer.code # "ok" => order' = order
  BY <1>7, <1>8, <1>10, <1>11, TransitionTakes
<1>13. order.version \in Nat /\ order'.version >= order.version
       /\ (order'.status = "none" => order.status = "none")
       /\ (order.status # "none" => order'.status # "none")
  BY <1>11, <1>12 DEF OrderRows
<1>14. \/ calls'[s].stage = "store" /\ calls'[s].answers = calls[s].answers
       \/ calls'[s].stage = "begin" /\ Len(calls'[s].answers) = n
  <2>1. Len(calls[s].answers) + 1 = n
    BY <1>1
  <2>2. AnsweredWith(s, outcome.answer) =>
          calls'[s].stage = "begin" /\ calls'[s].answers = Append(calls[s].answers, outcome.answer)
    BY <1>1, <1>2, <2>1 DEF AnsweredWith
  <2> QED BY <1>1, <1>10, <2>2
<1>15. calls'[s].ops = calls[s].ops
  BY <1>10 DEF AnsweredWith
<1>16. Executed(o)' => Executed(o)
  <2>1. calls'[s].stage # "store"
          \/ (calls'[s].ops = calls[s].ops /\ calls'[s].answers = calls[s].answers)
    BY <1>14, <1>15
  <2> QED BY <1>1, <2>1, ExecutedNow
<1> HIDE DEF b, e
<1>17. order'.status = "none" =>
        \A k \in 1..Len(calls'[s].answers) :
          calls[s].ops[k].type = "upsert" => keys'[calls[s].ops[k].id] # Unknown
  <2>1. ASSUME order'.status = "none", NEW k \in 1..n, calls[s].ops[k].type = "upsert"
        PROVE  keys'[calls[s].ops[k].id] # Unknown
    <3>1. k \in 1..Len(b) /\ k # n /\ k \in 1..n - 1
      BY <1>1, <1>6, <1>7, <2>1
    <3> QED BY <1>1, <1>3, <1>4, <1>13, <2>1, <3>1
  <2>2. 1..Len(calls'[s].answers) \subseteq 1..n
    BY <1>1, <1>14
  <2> QED BY <2>1, <2>2
<1>18. ASSUME Executed(o)'
       PROVE  /\ order'.cart = o.cart /\ order'.status # "none"
              /\ \A k \in 1..Len(b) : k < Len(b) /\ b[k].type = "upsert" =>
                   e(k) < order'.version \/ keys'[b[k].id] # Unknown
  <2>1. order'.cart = o.cart /\ order'.status # "none"
    BY <1>5, <1>12, <1>13, <1>16, <1>18
  <2>2. ASSUME NEW k \in 1..Len(b), k < Len(b), b[k].type = "upsert"
        PROVE  e(k) < order'.version \/ keys'[b[k].id] # Unknown
    <3>1. keys'[b[k].id] = keys[b[k].id]
      BY <1>3, <1>6, <1>7, <2>2
    <3>2. CASE e(k) < order.version
      <4>1. e(k) \in Nat
        BY <2>2, ExpectedNat DEF e, FinalStep
      <4>2. order'.version \in Nat
        BY <1>12, <1>13
      <4>3. e(k) < order'.version
        BY <1>13, <3>2, <4>1, <4>2
      <4> QED BY <4>3
    <3> QED BY <1>5, <1>16, <1>18, <2>2, <3>1, <3>2
  <2> QED BY <2>1, <2>2
<1>19. calls'[s].stage # "work" /\ calls'[s].stage # "done"
  BY <1>14
<1> QED BY <1>15, <1>17, <1>18, <1>19, FinalKept DEF b, e

-----------------------------------------------------------------------------
(* What is sold is the cart paid for.                                       *)

LEMMA SyncPaid ==
  ASSUME TillInv, LaneInv, SettledInv, PaidInv, NEW s \in Slots, ServerStep(s),
         UNCHANGED tillVars, calls[s].kind = "sync"
  PROVE  PaidInv'
<1>1. /\ calls[s] # NoCall /\ calls[s].stage # "done" /\ SameCalls
      /\ \A x \in Slots : x # s => calls'[x] = NoCall
      /\ \A k \in OpIds : k # CurrentOp(calls[s]).id => keys'[k] = keys[k]
  BY ServerDoes DEF LaneInv
<1>2. D' = D /\ UNCHANGED <<queue, paidFor>> /\ sales' = sales
  BY SyncServed DEF D, tillVars
<1>3. Sold' => sales'[1] = paidFor
  BY <1>2 DEF PaidInv, Sold
<1>4. \A x \in Slots : calls'[x] # NoCall => calls'[x].kind = "sync"
  BY <1>1 DEF SameCalls
<1>5. ASSUME NEW o \in queue, o.type = "checkout"
      PROVE  o.cart = paidFor /\ Delivered(o)' /\ keys'[o.id].state # "done"
  <2>1. /\ D # Idle /\ D.at = "wait" /\ D.batch # <<>> /\ CurrentOp(calls[s]).id # o.id
        /\ \E n \in 1..Len(D.batch) : CurrentOp(calls[s]).id = D.batch[n].id
    BY <1>1, <1>5, OpBehind
  <2>2. keys'[o.id].state # "done"
    <3>1. keys[o.id] = Unknown /\ o.id \in OpIds
      BY <1>1, <1>5, NoSubmitYet, Queued
    <3> QED BY <1>1, <2>1, <3>1 DEF Unknown
  <2>3. CASE Final(o) \in queue /\ Has(D.ops, o)
    <3>1. PICK n : n = Len(calls[s].answers) + 1
      OBVIOUS
    <3>2. FinalStep(s, o, n)
      BY <1>5, <2>3, <3>1 DEF FinalStep
    <3>3. ~Sell(s)
      BY SellDoes
    <3>4. Delivered(o)'
      BY <3>2, <3>3, FinalReserve, FinalStore, FinalUpsert, FinalTransition DEF ServerStep
    <3> QED BY <1>5, <2>2, <3>4 DEF PaidInv
  <2>4. CASE Final(o) \in queue /\ ~Has(D.ops, o)
    <3>1. Landing(o)
      BY <1>5, <2>4 DEF PaidInv, Delivered
    <3>2. Covered(D, queue)
      BY <2>1, LaneHere DEF Lane
    <3>3. CurrentOp(calls[s]).id # o.id - 1
      BY <1>5, <2>1, <2>4, <3>2 DEF Covered
    <3>4. keys[o.id - 1] = Unknown
      BY <2>1, <2>4, <3>1 DEF Landing
    <3>5. o.id - 1 \in OpIds
      <4>1. Final(o) \in Ops /\ Final(o).id = o.id - 1
        BY <2>1, <2>4, LaneHere, LaneIds DEF Final, Op
      <4> QED BY <4>1 DEF Ops
    <3>6. keys'[o.id - 1] = Unknown
      BY <1>1, <3>3, <3>4, <3>5
    <3>7. Landing(o)'
      BY <1>2, <2>1, <2>4, <3>6 DEF Landing
    <3> QED BY <1>2, <1>5, <2>2, <2>4, <3>7 DEF PaidInv, Delivered, Final
  <2>5. CASE Final(o) \notin queue
    BY <1>5, <2>1, <2>5 DEF PaidInv, Delivered, Landed, Fails, AtHead
  <2> QED BY <2>3, <2>4, <2>5
<1> QED BY <1>2, <1>3, <1>4, <1>5 DEF PaidInv

LEMMA PaidStep ==
  ASSUME TillInv, TillInv', LaneInv, LaneInv', SettledInv, PaidInv, ~amiss', CalmNext
  PROVE  PaidInv'
<1>1. ASSUME NEW s \in Slots, ServerStep(s), UNCHANGED tillVars PROVE PaidInv'
  BY <1>1, SyncPaid, ReservePaid, HandlePaid, StorePaid, SellPaid DEF ServerStep
<1>2. ASSUME NEW s \in Slots PROVE ~Forget(s)
  BY TillAssumption, ServerAssumption DEF Forget, LaneInv, Alone
<1>3. CASE UNCHANGED vars
  BY <1>3, PaidKept DEF vars, tillVars, serverVars
<1> QED BY <1>1, <1>2, <1>3, CashierPaid, EnginePaid, CrashPaid, DrainPaid DEF CalmNext

LEMMA PaidAtStart ==
  ASSUME Init
  PROVE  PaidInv
<1>1. queue = {} /\ sales = <<>> /\ \A s \in Slots : calls[s] = NoCall
  BY DEF Init, InitServer
<1> QED BY <1>1 DEF PaidInv, Sold

\* What an undisturbed till sells is the cart the cashier took the money
\* for, for any number of carts, ops, retries and stops of the server: the
\* final upsert reached the server ahead of the checkout or failed it
\* (runCheckoutOp, offline.ts:1060-1067; drain, offline.ts:1277-1278).
THEOREM PaidCartIsSold == Spec => []SaleIsTheCartPaid
<1> DEFINE Calm == Undisturbed => LaneInv /\ SettledInv /\ PaidInv
<1>1. Init => TillInv /\ Calm
  BY TillStarts, LaneAtStart, PaidAtStart
<1>2. TillInv /\ Calm /\ [Next]_vars => TillInv' /\ Calm'
  <2> SUFFICES ASSUME TillInv, Calm, [Next]_vars PROVE TillInv' /\ Calm'
    OBVIOUS
  <2>1. TillInv'
    BY TillStep
  <2>2. ASSUME Undisturbed' PROVE LaneInv' /\ SettledInv' /\ PaidInv'
    <3>1. Undisturbed /\ CalmNext /\ ~amiss'
      BY <2>2, UndisturbedBefore DEF Undisturbed
    <3>2. LaneInv' /\ SettledInv'
      BY <2>1, <3>1, LaneStep, SettledStep
    <3> QED BY <2>1, <3>1, <3>2, PaidStep
  <2> QED BY <2>1, <2>2
<1>3. Calm => SaleIsTheCartPaid
  BY DEF PaidInv, SaleIsTheCartPaid, Sold
<1> QED BY <1>1, <1>2, <1>3, PTL DEF Spec
=============================================================================

---------------------------- MODULE LegacySales ----------------------------
(***************************************************************************)
(* The life of a sale of POST /api/sales: sold, then perhaps voided,       *)
(* returned or deleted (routes/sales.js) while the unified order-to-cash   *)
(* module is switched off (middleware/o2cLegacyGate.js lets these calls    *)
(* through).  The modules of the sales posting queue and of the ZATCA      *)
(* worker extend this one: they say what else a reversal has to look at.   *)
(*                                                                         *)
(* Void and return hold the sale row from their first statement, and a     *)
(* deletion is made of the same reversal, so each is one step.             *)
(***************************************************************************)
EXTENDS Integers

CONSTANTS Sales,    \* order ids
          MaxBack   \* stock followed: what may come back too often

VARIABLES sale,     \* rows of `sales`
          shelf     \* warehouse stock a sale moved, relative to before it

saleVars == <<sale, shelf>>

-----------------------------------------------------------------------------
SaleStates == {"none", "live", "voided", "gone"}

\* credited is has_credit_note, submitted is zatca_submitted_at.
SaleRows == [state : SaleStates, credited : BOOLEAN, submitted : BOOLEAN]

TypeOKSales ==
  /\ sale \in [Sales -> SaleRows]
  /\ shelf \in [Sales -> Int]

InitSales ==
  /\ sale = [s \in Sales |->
       [state |-> "none", credited |-> FALSE, submitted |-> FALSE]]
  /\ shelf = [s \in Sales |-> 0]

-----------------------------------------------------------------------------
Sell(s) ==
  /\ sale[s].state = "none"
  /\ sale' = [sale EXCEPT ![s].state = "live"]
  /\ shelf' = [shelf EXCEPT ![s] = @ - 1]

\* _reverseSaleEffects, the stock: every "out" movement of the sale is given
\* back, whatever was given back before.
Restock(s) == shelf[s] < MaxBack /\ shelf' = [shelf EXCEPT ![s] = @ + 1]

\* A returned sale keeps its zatca_type and so may still be voided; drop is
\* ?delete=1.
Void(s, drop) ==
  /\ sale[s].state = "live" /\ ~sale[s].submitted
  /\ sale' = [sale EXCEPT ![s].state = IF drop THEN "gone" ELSE "voided"]
  /\ Restock(s)

Return(s) ==
  /\ sale[s].state = "live" /\ ~sale[s].credited
  /\ sale' = [sale EXCEPT ![s].credited = TRUE]
  /\ Restock(s)

\* DELETE /:orderId
DeleteSale(s) ==
  /\ sale[s].state \in {"live", "voided"} /\ ~sale[s].submitted
  /\ sale' = [sale EXCEPT ![s].state = "gone"]
  /\ Restock(s)

\* POST /bulk-delete looks neither for the row nor for the submission.
BulkDelete(s) ==
  /\ sale[s].state # "none"
  /\ sale' = [sale EXCEPT ![s].state = "gone"]
  /\ Restock(s)

\* The ways back of a sale.
Reversal(s) ==
  \/ \E drop \in BOOLEAN : Void(s, drop)
  \/ Return(s)
  \/ DeleteSale(s)
  \/ BulkDelete(s)

\* A sale some reversal has undone.
Reversed(s) == sale[s].credited \/ sale[s].state \in {"voided", "gone"}

=============================================================================

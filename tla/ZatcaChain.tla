----------------------------- MODULE ZatcaChain -----------------------------
(***************************************************************************)
(* How order-to-cash documents get their number and their place in the     *)
(* ZATCA hash chain: InvoiceService.issue and SalesReturnService.post, both *)
(* through ZatcaDocumentService.stamp and advanceChain, with the row locks *)
(* they take, the deadlocks those can form and withTransaction's retries.  *)
(*                                                                         *)
(* A request locks its document, takes the number of its counter, a credit *)
(* memo locks the invoice it reduces, and then comes the chain head.       *)
(* INSERT IGNORE on the head row that is already there takes a shared lock *)
(* on it (InnoDB's rule for a duplicate key); FOR UPDATE makes it          *)
(* exclusive.  All locks are held to the end of the transaction.           *)
(*                                                                         *)
(* A document's hash covers its content and the previous hash; it is        *)
(* modelled by the document itself.                                        *)
(***************************************************************************)
EXTENDS Integers, FiniteSets

CONSTANTS Requests,     \* issue and post requests
          Docs,         \* documents to be stamped
          Of,           \* the document a request is about
          Counters,     \* doc_counters rows
          CounterOf,    \* the counter that numbers a document
          Original,     \* the invoice a credit memo reduces
          NoDoc,        \* no such invoice, or no stamp
          Seed,         \* the head the chain was seeded with
          TxnAttempts,  \* runs of a transaction that meets deadlocks
          Nobody        \* holds a free lock

\* What memos reduce are invoices, and no counter numbers both.
ASSUME ChainAssumption ==
  /\ Of \in [Requests -> Docs]
  /\ CounterOf \in [Docs -> Counters]
  /\ Original \in [Docs -> Docs \cup {NoDoc}]
  /\ NoDoc \notin Docs /\ Seed \notin Docs
  /\ \A d, e \in Docs : Original[d] # NoDoc /\ Original[e] # NoDoc
                         => CounterOf[Original[d]] # CounterOf[e]
  /\ Nobody \notin Requests
  /\ TxnAttempts \in Nat \ {0}

VARIABLES head,       \* zatca_chain_state: last hash and counter value
          serials,    \* doc_counters
          stamps,     \* what committed documents carry
          at,         \* the lock a request takes next, or where it ended
          tries,      \* transactions a request has started
          number,     \* the serial its transaction took
          seen,       \* the head its transaction read
          rowBy,      \* who holds a document's row
          counterBy,  \* who holds a counter
          sharers,    \* who shares the head row
          headBy      \* who holds the head row exclusively

vars == <<head, serials, stamps, at, tries, number, seen, rowBy, counterBy, sharers, headBy>>
locks == <<rowBy, counterBy, sharers, headBy>>

Heads  == [hash: Docs \cup {Seed}, icv: Nat]
Stamps == [prev: Docs \cup {Seed}, icv: Nat, serial: Nat]

ASSUME StampAssumption == NoDoc \notin Stamps

Waits  == {"row", "number", "original", "share", "upgrade"}
Ended  == {"issued", "failed"}
Holders == Requests \cup {Nobody}

TypeOK ==
  /\ head \in Heads
  /\ serials \in [Counters -> Nat]
  /\ stamps \in [Docs -> Stamps \cup {NoDoc}]
  /\ at \in [Requests -> Waits \cup Ended \cup {"idle", "work"}]
  /\ tries \in [Requests -> 0..TxnAttempts]
  /\ number \in [Requests -> Nat]
  /\ seen \in [Requests -> Heads]
  /\ rowBy \in [Docs -> Holders]
  /\ counterBy \in [Counters -> Holders]
  /\ sharers \subseteq Requests
  /\ headBy \in Holders

Stamped == {d \in Docs : stamps[d] # NoDoc}

-----------------------------------------------------------------------------
(* Locks.                                                                  *)

\* Slip: the chain head is locked before the number is taken.
Bug_Following(place, r) ==
  CASE place = "row" -> "share"
    [] place = "number" -> "work"
    [] place = "original" -> "number"
    [] place = "share" -> "upgrade"
    [] place = "upgrade" -> IF Original[Of[r]] # NoDoc THEN "original" ELSE "number"

\* The order locks are taken in: number, reduced invoice, chain head.
Following(place, r) ==
  CASE place = "row" -> "number"
    [] place = "number" -> IF Original[Of[r]] # NoDoc THEN "original" ELSE "share"
    [] place = "original" -> "share"
    [] place = "share" -> "upgrade"
    [] place = "upgrade" -> "work"

\* Whom a request waits for.
BlockedBy(r) ==
  (CASE at[r] = "row" -> {rowBy[Of[r]]}
     [] at[r] = "number" -> {counterBy[CounterOf[Of[r]]]}
     [] at[r] = "original" -> {rowBy[Original[Of[r]]]}
     [] at[r] = "share" -> {headBy}
     [] at[r] = "upgrade" -> {headBy} \cup sharers
     [] OTHER -> {}) \ {Nobody, r}

\* Whether each of the requests in S waits for another of them.
Stuck(S) == S # {} /\ \A r \in S : BlockedBy(r) \cap S # {}

\* Requests that wait for each other in a circle, and nobody else.
Circles == {S \in SUBSET Requests : Stuck(S) /\ \A U \in SUBSET S : Stuck(U) => U = S}

\* Slip: a transaction ends on another connection than the one that locked.
Bug_KeepHead(r) ==
  /\ rowBy' = [d \in Docs |-> IF rowBy[d] = r THEN Nobody ELSE rowBy[d]]
  /\ counterBy' = [c \in Counters |-> IF counterBy[c] = r THEN Nobody ELSE counterBy[c]]
  /\ UNCHANGED <<sharers, headBy>>

\* Commit and rollback release what a request holds.
Release(r) ==
  /\ rowBy' = [d \in Docs |-> IF rowBy[d] = r THEN Nobody ELSE rowBy[d]]
  /\ counterBy' = [c \in Counters |-> IF counterBy[c] = r THEN Nobody ELSE counterBy[c]]
  /\ sharers' = sharers \ {r}
  /\ headBy' = IF headBy = r THEN Nobody ELSE headBy

\* A request waits its turn at one lock and goes on to the next.
Arrive(r, place) ==
  /\ at[r] = place
  /\ BlockedBy(r) = {}
  /\ at' = [at EXCEPT ![r] = Following(place, r)]
  /\ UNCHANGED <<head, serials, stamps, tries>>

-----------------------------------------------------------------------------
Init ==
  /\ head = [hash |-> Seed, icv |-> 0]
  /\ serials = [c \in Counters |-> 0]
  /\ stamps = [d \in Docs |-> NoDoc]
  /\ at = [r \in Requests |-> "idle"]
  /\ tries = [r \in Requests |-> 0]
  /\ number = [r \in Requests |-> 0]
  /\ seen = [r \in Requests |-> head]
  /\ rowBy = [d \in Docs |-> Nobody]
  /\ counterBy = [c \in Counters |-> Nobody]
  /\ sharers = {}
  /\ headBy = Nobody

Begin(r) ==
  /\ at[r] = "idle"
  /\ at' = [at EXCEPT ![r] = "row"]
  /\ tries' = [tries EXCEPT ![r] = 1]
  /\ UNCHANGED <<head, serials, stamps, number, seen>> /\ UNCHANGED locks

\* The state machine lets only a document that is not issued through.
Issuable(d) == stamps[d] = NoDoc

\* FOR UPDATE on the document or the return.
LockRow(r) ==
  IF Issuable(Of[r])
  THEN /\ Arrive(r, "row")
       /\ rowBy' = [rowBy EXCEPT ![Of[r]] = r]
       /\ UNCHANGED <<number, seen, counterBy, sharers, headBy>>
  ELSE /\ at[r] = "row" /\ BlockedBy(r) = {}
       /\ at' = [at EXCEPT ![r] = "failed"]
       /\ UNCHANGED <<head, serials, stamps, tries, number, seen>> /\ UNCHANGED locks

\* Slip: the number is the highest so far plus one, with no lock held.
Bug_TakeNumber(r) ==
  /\ at[r] = "number"
  /\ at' = [at EXCEPT ![r] = Following("number", r)]
  /\ number' = [number EXCEPT ![r] = serials[CounterOf[Of[r]]] + 1]
  /\ UNCHANGED <<head, serials, stamps, tries, seen>> /\ UNCHANGED locks

\* nextDocNumber: the counter's row is raised, stays locked and is read back.
TakeNumber(r) ==
  LET c == CounterOf[Of[r]] IN
  /\ Arrive(r, "number")
  /\ counterBy' = [counterBy EXCEPT ![c] = r]
  /\ number' = [number EXCEPT ![r] = serials[c] + 1]
  /\ UNCHANGED <<seen, rowBy, sharers, headBy>>

\* A credit memo locks the invoice it reduces.
LockOriginal(r) ==
  /\ Arrive(r, "original")
  /\ rowBy' = [rowBy EXCEPT ![Original[Of[r]]] = r]
  /\ UNCHANGED <<number, seen, counterBy, sharers, headBy>>

\* _chainHead, INSERT IGNORE of the head row that is there.
ShareHead(r) ==
  /\ Arrive(r, "share")
  /\ sharers' = sharers \cup {r}
  /\ UNCHANGED <<number, seen, rowBy, counterBy, headBy>>

\* Slip: the head is read without FOR UPDATE.
Bug_LockHead(r) ==
  /\ at[r] = "upgrade"
  /\ at' = [at EXCEPT ![r] = Following("upgrade", r)]
  /\ seen' = [seen EXCEPT ![r] = head]
  /\ UNCHANGED <<head, serials, stamps, tries, number>> /\ UNCHANGED locks

\* _chainHead, SELECT ... FOR UPDATE: the head is read under its lock.
LockHead(r) ==
  /\ Arrive(r, "upgrade")
  /\ headBy' = r
  /\ seen' = [seen EXCEPT ![r] = head]
  /\ UNCHANGED <<number, rowBy, counterBy, sharers>>

\* advanceChain: the head becomes the document that was chained to it.
HeadAfter(r) == [hash |-> Of[r], icv |-> seen[r].icv + 1]

\* The document is stamped and saved, the head advanced, and all committed.
Commit(r) ==
  LET d == Of[r] IN
  /\ at[r] = "work"
  /\ stamps' = [stamps EXCEPT ![d] = [prev |-> seen[r].hash, icv |-> seen[r].icv + 1,
                                      serial |-> number[r]]]
  /\ head' = HeadAfter(r)
  /\ serials' = [serials EXCEPT ![CounterOf[d]] = number[r]]
  /\ at' = [at EXCEPT ![r] = "issued"]
  /\ Release(r)
  /\ UNCHANGED <<tries, number, seen>>

\* What follows the stamp throws (closed period, unmapped account, stock).
WorkFails(r) ==
  /\ at[r] = "work"
  /\ at' = [at EXCEPT ![r] = "failed"]
  /\ Release(r)
  /\ UNCHANGED <<head, serials, stamps, tries, number, seen>>

\* InnoDB rolls back a victim of a circle; withTransaction runs it again
\* while it has attempts left.
Victim(r) ==
  /\ \E S \in Circles : r \in S
  /\ IF tries[r] < TxnAttempts
     THEN /\ at' = [at EXCEPT ![r] = "row"]
          /\ tries' = [tries EXCEPT ![r] = @ + 1]
     ELSE at' = [at EXCEPT ![r] = "failed"] /\ UNCHANGED tries
  /\ Release(r)
  /\ UNCHANGED <<head, serials, stamps, number, seen>>

\* The server dies: what was open rolls back, nobody retries it.
Crash ==
  /\ \E r \in Requests : at[r] \in Waits \cup {"work"}
  /\ at' = [r \in Requests |-> IF at[r] \in Waits \cup {"work"} THEN "failed" ELSE at[r]]
  /\ rowBy' = [d \in Docs |-> Nobody]
  /\ counterBy' = [c \in Counters |-> Nobody]
  /\ sharers' = {} /\ headBy' = Nobody
  /\ UNCHANGED <<head, serials, stamps, tries, number, seen>>

\* What the event loop and the database do of their own accord.
Progress(r) ==
  \/ LockRow(r) \/ TakeNumber(r) \/ LockOriginal(r)
  \/ ShareHead(r) \/ LockHead(r) \/ Commit(r)
Detect == \E r \in Requests : Victim(r)

Next ==
  \/ \E r \in Requests : Begin(r) \/ Progress(r) \/ WorkFails(r)
  \/ Detect \/ Crash

Spec == Init /\ [][Next]_vars
FairSpec == Spec /\ WF_vars(Detect) /\ \A r \in Requests : WF_vars(Progress(r))

-----------------------------------------------------------------------------
(* Properties.                                                             *)

\* Committed documents form one chain without gaps or forks that ends at the
\* head (ZatcaDocumentService.js: one chain per EGS unit, a failed issue can
\* never advance it).
ChainIsLinear ==
  /\ \A d, e \in Stamped :
       stamps[d].icv = stamps[e].icv \/ stamps[d].prev = stamps[e].prev => d = e
  /\ \A d \in Stamped :
       /\ stamps[d].icv \in 1..head.icv
       /\ IF stamps[d].icv = 1 THEN stamps[d].prev = Seed
          ELSE /\ stamps[d].prev \in Stamped
               /\ stamps[stamps[d].prev].icv = stamps[d].icv - 1
  /\ IF head.icv = 0 THEN head.hash = Seed
     ELSE head.hash \in Stamped /\ stamps[head.hash].icv = head.icv

\* Numbers of a counter are given out once and without gaps, whatever rolled
\* back (docNumber.js: no race, no skipped serial).
NumbersHaveNoGaps ==
  \A c \in Counters :
    LET mine == {d \in Stamped : CounterOf[d] = c} IN
    /\ {stamps[d].serial : d \in mine} = 1..serials[c]
    /\ Cardinality(mine) = serials[c]

\* The order of the locks is sound: requests that wait in a circle all wait
\* to make their share of the head exclusive.
OnlyUpgradesCollide ==
  \A S \in Circles : \A r \in S : at[r] = "upgrade"

\* Every request that arrives ends, through deadlocks and their retries.
EveryRequestEnds == \A r \in Requests : at[r] # "idle" ~> at[r] \in Ended
=============================================================================

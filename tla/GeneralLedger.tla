--------------------------- MODULE GeneralLedger ---------------------------
(***************************************************************************)
(* The general ledger: journals and their life (lib/glPosting.js,          *)
(* lib/glTransitions.js), the stored account balances with their repair,   *)
(* and the accounting periods with the closing entries (routes/erp.js,     *)
(* routes/erp/periods.js).                                                 *)
(*                                                                         *)
(* A journal is balanced when it is inserted, so one number stands for its *)
(* lines: what it adds to the one account followed here, a revenue account *)
(* whose balance the period close has to empty.                            *)
(*                                                                         *)
(* The period check of a posting is a plain SELECT, answered from the      *)
(* transaction's snapshot, so a posting has two steps: Begin... takes the  *)
(* row lock of the journal and reads the period, Commit... writes.  Other  *)
(* transactions hold the rows they check until they commit and are one     *)
(* step.  What a wall clock calls today is any month.                      *)
(***************************************************************************)
EXTENDS Integers, FiniteSets, Functions

CONSTANTS Journals,       \* ids of journals
          NoJournal,
          Users, NoUser,
          Admins,         \* exempt from the separation of duties
          Overriders,     \* hold finance.periods.override_lock
          Months,         \* accounting periods
          Amounts,        \* amounts of manual journals
          DocAmounts,     \* amounts documents post
          MaxRepairs      \* runs of /gl/repair

ASSUME LedgerAssumption ==
  /\ IsFiniteSet(Journals) /\ NoJournal \notin Journals
  /\ NoUser \notin Users /\ Admins \subseteq Users /\ Overriders \subseteq Users
  /\ Amounts \subseteq Int /\ DocAmounts \subseteq Int /\ MaxRepairs \in Nat

VARIABLES journal,   \* gl_journals with their gl_entries
          balance,   \* gl_accounts.balance of the account
          period,    \* accounting_periods.status
          closing,   \* the months whose closing entry is still to be written
          tx,        \* the posting transaction a user has open
          repair     \* where /gl/repair stands

ledgerVars == <<journal, balance, period, closing, tx, repair>>

-----------------------------------------------------------------------------
Kinds    == {"manual", "document", "reversal", "undo", "close", "reopen"}
Statuses == {"none", "draft", "approved", "posted", "deleted"}

\* The fifth status, "locked", is out of reach: its endpoint in periods.js is
\* shadowed by the one routes/erp.js mounts first on the same path.
PeriodStatuses == {"open", "soft_close", "soft_closed", "closed"}
SoftClosed     == {"soft_close", "soft_closed"}

Rows == [status : Statuses, kind : Kinds, amount : Int, month : Months,
         creator : Users \cup {NoUser}, approver : Users \cup {NoUser},
         poster : Users \cup {NoUser}, reversedBy : Journals \cup {NoJournal},
         reverses : Journals \cup {NoJournal}, undone : BOOLEAN]

\* The row INSERT writes.
Row(status, kind, amount, month, u, original) ==
  [status |-> status, kind |-> kind, amount |-> amount, month |-> month,
   creator |-> u, approver |-> NoUser,
   poster |-> IF status = "posted" THEN u ELSE NoUser,
   reversedBy |-> NoJournal, reverses |-> original, undone |-> FALSE]

\* What a user's open transaction is about; "batch" and "unbatch" are those
\* of the sales posting queue.
Ops == {"post", "document", "reverse", "undo", "batch", "unbatch"}
Idle == [op |-> "idle"]
Txs  == [op : Ops, journal : Journals \cup {NoJournal}, amount : Int,
         month : Months]
Tx(op, j, amount, month) ==
  [op |-> op, journal |-> j, amount |-> amount, month |-> month]

Rests == {"idle", "zeroed", "summed"}

TypeOKLedger ==
  /\ journal \in [Journals -> Rows \cup {[status |-> "none"]}]
  /\ balance \in Int
  /\ period \in [Months -> PeriodStatuses]
  /\ closing \subseteq Months
  /\ tx \in [Users -> Txs \cup {Idle}]
  /\ repair \in [runs : 0..MaxRepairs, step : Rests, sum : Int]

InitLedger ==
  /\ journal = [j \in Journals |-> [status |-> "none"]]
  /\ balance = 0
  /\ period = [m \in Months |-> "open"]
  /\ closing = {}
  /\ tx = [u \in Users |-> Idle]
  /\ repair = [runs |-> 0, step |-> "idle", sum |-> 0]

-----------------------------------------------------------------------------
(* Reading the ledger.                                                      *)

IsStatus(j, S)  == journal[j].status \in S
IsOf(j, K)      == ~IsStatus(j, {"none"}) /\ journal[j].kind \in K

\* Journals of the closing entries never touch gl_accounts.balance.
ClosingKinds == {"close", "reopen"}

\* Sum of the posted journals of some kinds, over some months.
PostedTotal(K, M) ==
  SumFunction([j \in Journals |->
     IF IsStatus(j, {"posted"}) /\ journal[j].kind \in K /\ journal[j].month \in M
     THEN journal[j].amount ELSE 0])

\* A journal takes an id nobody has drawn.
Drawable == \E j \in Journals : IsStatus(j, {"none"})
Fresh    == CHOOSE j \in Journals : IsStatus(j, {"none"})

\* Slip: the rows are checked without a lock.
Bug_Held(j) == FALSE

\* Rows some transaction holds FOR UPDATE.
Held(j) == \E u \in Users : tx[u].op \in {"post", "reverse", "unbatch"}
                              /\ tx[u].journal = j

\* Slip: force helps over a hard close too.
Bug_Postable(u, m, force) ==
  \/ period[m] = "open"
  \/ force /\ u \in Admins \cup Overriders

\* isPeriodClosed and checkPeriodOpen: force helps over a soft close only.
Postable(u, m, force) ==
  \/ period[m] = "open"
  \/ period[m] \in SoftClosed /\ force /\ u \in Admins \cup Overriders

\* checkSelfApproval
MayCheck(u, j) == u \in Admins \/ u # journal[j].creator

-----------------------------------------------------------------------------
(* Manual journals: draft, approved, posted.                                *)

Create(u, x, m) ==
  /\ Drawable
  /\ journal' = [journal EXCEPT ![Fresh] = Row("draft", "manual", x, m, u, NoJournal)]
  /\ UNCHANGED <<balance, period, closing, tx, repair>>

\* Slip: posted journals are edited in place.
Bug_Edit(j, x, m) ==
  /\ IsStatus(j, {"draft", "approved", "posted"}) /\ ~Held(j)
  /\ journal' = [journal EXCEPT ![j].amount = x, ![j].month = m]
  /\ UNCHANGED <<balance, period, closing, tx, repair>>

\* An approved journal may be edited and stays approved.
Edit(j, x, m) ==
  /\ IsStatus(j, {"draft", "approved"}) /\ ~Held(j)
  /\ journal' = [journal EXCEPT ![j].amount = x, ![j].month = m]
  /\ UNCHANGED <<balance, period, closing, tx, repair>>

Approve(u, j) ==
  /\ IsStatus(j, {"draft"}) /\ ~Held(j) /\ MayCheck(u, j)
  /\ journal' = [journal EXCEPT ![j].status = "approved", ![j].approver = u]
  /\ UNCHANGED <<balance, period, closing, tx, repair>>

Delete(j) ==
  /\ IsStatus(j, {"draft"}) /\ ~Held(j)
  /\ journal' = [journal EXCEPT ![j].status = "deleted"]
  /\ UNCHANGED <<balance, period, closing, tx, repair>>

\* Slip: whoever created it.
Bug_BeginPost(u, j, force) ==
  /\ tx[u] = Idle /\ ~Held(j)
  /\ IsStatus(j, {"draft", "approved"})
  /\ Postable(u, journal[j].month, force)
  /\ tx' = [tx EXCEPT ![u] = Tx("post", j, journal[j].amount, journal[j].month)]
  /\ UNCHANGED <<journal, balance, period, closing, repair>>

\* post of an approved journal, approvePost of a draft.
BeginPost(u, j, force) ==
  /\ tx[u] = Idle /\ ~Held(j)
  /\ IsStatus(j, {"draft", "approved"}) /\ MayCheck(u, j)
  /\ Postable(u, journal[j].month, force)
  /\ tx' = [tx EXCEPT ![u] = Tx("post", j, journal[j].amount, journal[j].month)]
  /\ UNCHANGED <<journal, balance, period, closing, repair>>

CommitPost(u) ==
  /\ tx[u].op = "post"
  /\ LET j == tx[u].journal IN
     /\ journal' = [journal EXCEPT
          ![j].status = "posted", ![j].poster = u,
          ![j].approver = IF journal[j].status = "draft" THEN u ELSE @]
     /\ balance' = balance + journal[j].amount
  /\ tx' = [tx EXCEPT ![u] = Idle]
  /\ UNCHANGED <<period, closing, repair>>

-----------------------------------------------------------------------------
(* postJournal, and the reversals built on it.                              *)

\* Whatever postJournal inserts: a new posted journal and the balance.
Post(row) ==
  /\ Drawable
  /\ balance' = balance + row.amount

BeginDocument(u, x, m) ==
  /\ tx[u] = Idle
  /\ Postable(u, m, FALSE)
  /\ tx' = [tx EXCEPT ![u] = Tx("document", NoJournal, x, m)]
  /\ UNCHANGED <<journal, balance, period, closing, repair>>

CommitDocument(u) ==
  /\ tx[u].op = "document"
  /\ LET row == Row("posted", "document", tx[u].amount, tx[u].month, u, NoJournal)
     IN Post(row) /\ journal' = [journal EXCEPT ![Fresh] = row]
  /\ tx' = [tx EXCEPT ![u] = Idle]
  /\ UNCHANGED <<period, closing, repair>>

\* The reversal of the ledger screen, dated today.
BeginReverse(u, j, today) ==
  /\ tx[u] = Idle /\ ~Held(j)
  /\ IsStatus(j, {"posted"}) /\ journal[j].reversedBy = NoJournal
  /\ Postable(u, today, FALSE)
  /\ tx' = [tx EXCEPT ![u] = Tx("reverse", j, -journal[j].amount, today)]
  /\ UNCHANGED <<journal, balance, period, closing, repair>>

\* The reversal a document orders for its own journal (postReversal): its
\* lock is on the document, it neither locks nor questions the journal.
BeginUndo(u, j) ==
  /\ tx[u] = Idle
  /\ IsOf(j, {"document"}) /\ ~journal[j].undone
  /\ \A v \in Users : tx[v].op = "undo" => tx[v].journal # j
  /\ Postable(u, journal[j].month, FALSE)
  /\ tx' = [tx EXCEPT ![u] = Tx("undo", j, -journal[j].amount, journal[j].month)]
  /\ UNCHANGED <<journal, balance, period, closing, repair>>

\* Both write the mirrored journal and link the two rows.
Link(u, kind) ==
  LET j   == tx[u].journal
      row == Row("posted", kind, tx[u].amount, tx[u].month, u, j)
  IN  /\ Post(row)
      /\ journal' = [journal EXCEPT ![Fresh] = row, ![j].reversedBy = Fresh,
                       ![j].undone = (@ \/ kind = "undo")]
      /\ tx' = [tx EXCEPT ![u] = Idle]
      /\ UNCHANGED <<period, closing, repair>>

CommitReverse(u) == tx[u].op = "reverse" /\ Link(u, "reversal")
CommitUndo(u)    == tx[u].op = "undo" /\ ~Held(tx[u].journal) /\ Link(u, "undo")

\* A failed statement, a deadlock or a crash rolls the transaction back.
Abort(u) ==
  /\ tx[u] # Idle
  /\ tx' = [tx EXCEPT ![u] = Idle]
  /\ UNCHANGED <<journal, balance, period, closing, repair>>

-----------------------------------------------------------------------------
(* Periods.  Four sets of endpoints change them.                            *)

\* routes/erp/periods.js
FromStatuses(to) ==
  CASE to = "soft_close" -> {"open"}
    [] to = "closed"     -> {"open", "soft_close"}
    [] to = "open"       -> {"closed", "soft_close"}

Transition(m, to) ==
  /\ to \in {"soft_close", "closed", "open"}
  /\ period[m] \in FromStatuses(to)
  /\ period' = [period EXCEPT ![m] = to]
  /\ UNCHANGED <<journal, balance, closing, tx, repair>>

\* routes/erp-core.js, /accounting-periods/:id/close and /reopen: an UPDATE.
CoreSet(m, to) ==
  /\ to \in {"open", "closed"}
  /\ period' = [period EXCEPT ![m] = to]
  /\ UNCHANGED <<journal, balance, closing, tx, repair>>

\* routes/erp/vat.js, /vat/close-year
CloseYear ==
  /\ period' = [m \in Months |-> IF period[m] = "open" THEN "closed" ELSE period[m]]
  /\ UNCHANGED <<journal, balance, closing, tx, repair>>

\* routes/erp.js, /periods/:id/lock.  A close is followed by its closing entry,
\* in statements of their own.
SetPeriod(m, to, force) ==
  /\ to \in {"open", "soft_closed", "closed"}
  /\ period[m] = "closed" /\ to # "closed" => force
  /\ m \notin closing
  /\ period' = [period EXCEPT ![m] = to]
  /\ closing' = IF to = "closed" /\ period[m] # "closed"
                THEN closing \cup {m} ELSE closing
  /\ UNCHANGED <<balance, tx, repair>>

LegacySet(m, to, force) ==
  SetPeriod(m, to, force) /\ UNCHANGED journal

\* Opening a closed month first writes the entry that reverses the closing
\* entry, once.  When that fails the month opens without it (LegacySet); when
\* the server stops behind it, the month stays closed.
OfMonth(m, kind) ==
  {j \in Journals : IsOf(j, {kind}) /\ journal[j].month = m}

ReverseClosing(m, u) ==
  \E j \in OfMonth(m, "close") :
    /\ OfMonth(m, "reopen") = {} /\ Drawable
    /\ journal' = [journal EXCEPT
         ![Fresh] = Row("posted", "reopen", -journal[j].amount, m, u, NoJournal)]

LegacyReopen(m, u) ==
  /\ period[m] = "closed"
  /\ ReverseClosing(m, u)
  /\ SetPeriod(m, "open", TRUE)

ReopenStops(m, u) ==
  /\ period[m] = "closed" /\ m \notin closing
  /\ ReverseClosing(m, u)
  /\ UNCHANGED <<balance, period, closing, tx, repair>>

\* _generateClosingEntries: one closing entry per month, ever.
NetOf(m) == PostedTotal(Kinds \ ClosingKinds, {m})

Active(m) == \E j \in Journals : /\ IsStatus(j, {"posted"})
                                 /\ journal[j].kind \notin ClosingKinds
                                 /\ journal[j].month = m

\* The header is written before the lines: a stop between the two leaves a
\* closing entry of nothing, and the month never gets another.
GenerateClosing(m, u, whole) ==
  /\ m \in closing
  /\ closing' = closing \ {m}
  /\ IF OfMonth(m, "close") # {} \/ ~Active(m)
     THEN UNCHANGED journal
     ELSE /\ Drawable
          /\ journal' = [journal EXCEPT ![Fresh] =
               Row("posted", "close", IF whole THEN -NetOf(m) ELSE 0, m, u, NoJournal)]
  /\ UNCHANGED <<balance, period, tx, repair>>

\* It fails or the server stops: the month stays closed without its entry.
ClosingLost(m) ==
  /\ m \in closing
  /\ closing' = closing \ {m}
  /\ UNCHANGED <<journal, balance, period, tx, repair>>

-----------------------------------------------------------------------------
(* POST /gl/repair: no transaction around its statements.                   *)

RepairZero ==
  /\ repair.step = "idle" /\ repair.runs < MaxRepairs
  /\ repair' = [repair EXCEPT !.runs = @ + 1, !.step = "zeroed"]
  /\ balance' = 0
  /\ UNCHANGED <<journal, period, closing, tx>>

\* An account without posted entries is not written again.
RepairSum ==
  /\ repair.step = "zeroed"
  /\ repair' = [repair EXCEPT
        !.step = IF \E j \in Journals : IsStatus(j, {"posted"})
                 THEN "summed" ELSE "idle",
        !.sum = PostedTotal(Kinds, Months)]
  /\ UNCHANGED <<journal, balance, period, closing, tx>>

RepairWrite ==
  /\ repair.step = "summed"
  /\ repair' = [repair EXCEPT !.step = "idle"]
  /\ balance' = repair.sum
  /\ UNCHANGED <<journal, period, closing, tx>>

RepairDies ==
  /\ repair.step # "idle"
  /\ repair' = [repair EXCEPT !.step = "idle"]
  /\ UNCHANGED <<journal, balance, period, closing, tx>>

Repair == RepairZero \/ RepairSum \/ RepairWrite \/ RepairDies

-----------------------------------------------------------------------------
JournalStep ==
  \E u \in Users :
    \/ \E x \in Amounts, m \in Months : \/ Create(u, x, m)
                                      \/ \E j \in Journals : Edit(j, x, m)
    \/ \E x \in DocAmounts, m \in Months : BeginDocument(u, x, m)
    \/ \E j \in Journals : \/ Approve(u, j) \/ Delete(j) \/ BeginUndo(u, j)
                           \/ \E force \in BOOLEAN : BeginPost(u, j, force)
                           \/ \E today \in Months : BeginReverse(u, j, today)
    \/ CommitPost(u) \/ CommitDocument(u) \/ CommitReverse(u) \/ CommitUndo(u)
    \/ Abort(u)

PeriodStep ==
  \E m \in Months :
    \/ \E to \in PeriodStatuses : \/ Transition(m, to) \/ CoreSet(m, to)
                                 \/ \E force \in BOOLEAN : LegacySet(m, to, force)
    \/ \E u \in Users : \/ LegacyReopen(m, u) \/ ReopenStops(m, u)
                         \/ \E whole \in BOOLEAN : GenerateClosing(m, u, whole)
    \/ ClosingLost(m)

LedgerNext == JournalStep \/ PeriodStep \/ CloseYear \/ Repair
LedgerSpec == InitLedger /\ [][LedgerNext]_ledgerVars

-----------------------------------------------------------------------------
(* What makes the ledger correct.                                           *)

\* Until a repair runs, the stored balance is the sum of the posted journals,
\* the closing entries apart: no interleaving of postings, reversals and
\* failures applies an amount twice or not at all (applyBalances, _postJournalTx).
BalanceTies ==
  repair.runs = 0 => balance = PostedTotal(Kinds \ ClosingKinds, Months)

\* Nobody but an administrator has approved or posted a journal he created,
\* by whichever of the routes and whatever was edited between (glTransitions).
FourEyes ==
  \A j \in Journals :
    IsOf(j, {"manual"}) /\ journal[j].creator \notin Admins =>
      journal[j].creator \notin {journal[j].approver, journal[j].poster}

\* The ledger screen reverses a journal once: the row lock makes the second
\* of two reversals see the first one's link (glTransitions.reverse).
ReversedOnce ==
  \A k, l \in Journals :
    IsOf(k, {"reversal"}) /\ IsOf(l, {"reversal"})
      /\ journal[k].reverses = journal[l].reverses => k = l

\* A reversal stands for exactly what it reverses, and a journal counts as
\* reversed only by a posted one that mirrors it.
MirrorsOriginal ==
  \A j \in Journals :
    ~IsStatus(j, {"none"}) /\ journal[j].reversedBy # NoJournal =>
      LET k == journal[j].reversedBy
      IN  /\ IsStatus(j, {"posted"}) /\ IsStatus(k, {"posted"})
          /\ journal[k].reverses = j /\ journal[k].amount = -journal[j].amount

\* A posted journal never changes its amount or its month and never goes
\* away: corrections are new journals (PUT and DELETE /gl/journals/:id).
PostedIsImmutable ==
  [][\A j \in Journals : IsStatus(j, {"posted"}) =>
        /\ journal'[j].status = "posted"
        /\ journal'[j].amount = journal[j].amount
        /\ journal'[j].month = journal[j].month]_ledgerVars

\* A closed book takes no new money: once the transactions in flight at the
\* close are done, no route moves the month's total or can begin to, force or
\* not, until someone opens it (checkPeriodOpen, isPeriodClosed).
ClosedBooksAreFinal ==
  [][\A m \in Months :
       period[m] = "closed" /\ (\A u \in Users : tx[u] = Idle \/ tx[u].month # m) =>
         /\ NetOf(m)' = NetOf(m)
         /\ \A u \in Users : tx'[u] = Idle \/ tx'[u].month # m]_ledgerVars

=============================================================================

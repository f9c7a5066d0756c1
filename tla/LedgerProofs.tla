---------------------------- MODULE LedgerProofs ----------------------------
(***************************************************************************)
(* The ledger of GeneralLedger, for any journals, users, months and        *)
(* amounts, and the queue of SalesPosting on top of it, for any sales,     *)
(* prices, days and batches.                                               *)
(*                                                                         *)
(* The ledger.  The inductive invariant adds to what is checked what the   *)
(* transactions rely on: a journal in the hands of a transaction is as the *)
(* transaction found it, two transactions never hold the same one, only    *)
(* manual journals wait to be posted, and what a reversal reverses is      *)
(* linked to some journal.                                                 *)
(*                                                                         *)
(* The queue.  A posted row names a posted batch, and a posted batch keeps *)
(* its rows: nothing but its own reversal lets go of them (QueueInv).      *)
(* Each batch has a posted journal that no other batch has, of the price   *)
(* of its rows (BatchInv).  The two steps of a transaction agree because   *)
(* what it planned or locked when it began still holds when it commits:    *)
(* its batch is posted, its journal not reversed, and nobody else is       *)
(* reversing it (TransactionInv).  So a sale stands in the ledger only     *)
(* through the batch its row names, and each step moves the ledger by what *)
(* it moves the queue.                                                     *)
(***************************************************************************)
EXTENDS SalesPosting, SumTheorems


\* Only manual journals are ever drafts.
OnlyManualJournalsWait ==
  \A j \in Journals : IsOf(j, Kinds \ {"manual"}) => IsStatus(j, {"posted"})

\* What a reversal of the ledger screen reverses carries a link.
ReversalsAreLinked ==
  \A k \in Journals : IsOf(k, {"reversal"}) =>
    /\ journal[k].reverses \in Journals
    /\ IsStatus(journal[k].reverses, {"posted"})
    /\ journal[journal[k].reverses].reversedBy # NoJournal

JournalInv == /\ OnlyManualJournalsWait /\ FourEyes /\ MirrorsOriginal
              /\ ReversalsAreLinked /\ ReversedOnce

\* A transaction finds the journal as it was when it locked or read it.
TxFits(u) ==
  LET j == tx[u].journal IN
  /\ tx[u].op \notin {"batch", "unbatch"}
  /\ tx[u].op = "post" =>
       /\ j \in Journals /\ IsStatus(j, {"draft", "approved"})
       /\ MayCheck(u, j) /\ journal[j].month = tx[u].month
  /\ tx[u].op = "reverse" =>
       /\ j \in Journals /\ IsStatus(j, {"posted"})
       /\ journal[j].reversedBy = NoJournal
       /\ tx[u].amount = -journal[j].amount
  /\ tx[u].op = "undo" =>
       /\ j \in Journals /\ IsStatus(j, {"posted"})
       /\ tx[u].amount = -journal[j].amount

Locking(u) == tx[u].op \in {"post", "reverse"}

LocksExclude ==
  \A u, v \in Users : Locking(u) /\ Locking(v) /\ tx[u].journal = tx[v].journal => u = v

TxInv == (\A u \in Users : TxFits(u)) /\ LocksExclude

BalanceInv == (repair.step # "idle" => repair.runs > 0) /\ BalanceTies

LedgerInv == TypeOKLedger /\ JournalInv /\ TxInv /\ BalanceInv

-----------------------------------------------------------------------------
(* Rows.                                                                    *)

NoRow0 == [status |-> "none"]

\* What INSERT writes is a row.
LEMMA RowType ==
  ASSUME NEW st \in Statuses, NEW kind \in Kinds, NEW x \in Int, NEW m \in Months,
         NEW u \in Users, NEW o \in Journals \cup {NoJournal}
  PROVE  /\ Row(st, kind, x, m, u, o) \in Rows
         /\ Row(st, kind, x, m, u, o).status = st
         /\ Row(st, kind, x, m, u, o).kind = kind
         /\ Row(st, kind, x, m, u, o).amount = x
         /\ Row(st, kind, x, m, u, o).month = m
         /\ Row(st, kind, x, m, u, o).creator = u
         /\ Row(st, kind, x, m, u, o).approver = NoUser
         /\ Row(st, kind, x, m, u, o).poster = IF st = "posted" THEN u ELSE NoUser
         /\ Row(st, kind, x, m, u, o).reversedBy = NoJournal
         /\ Row(st, kind, x, m, u, o).reverses = o
BY DEF Row, Rows

\* An id that can be drawn is one nobody has drawn.
LEMMA FreshIsNew ==
  ASSUME Drawable
  PROVE  Fresh \in Journals /\ IsStatus(Fresh, {"none"})
BY DEF Drawable, Fresh

\* A journal that is not new is a row.
LEMMA Rowed ==
  ASSUME TypeOKLedger, NEW j \in Journals, ~IsStatus(j, {"none"})
  PROVE  journal[j] \in Rows
BY DEF TypeOKLedger, IsStatus

\* The journal of a transaction that writes a new row and nothing else.
LEMMA FreshRow ==
  ASSUME TypeOKLedger, Drawable, NEW r \in Rows,
         journal' = [journal EXCEPT ![Fresh] = r]
  PROVE  /\ journal' \in [Journals -> Rows \cup {NoRow0}]
         /\ journal'[Fresh] = r
         /\ \A j \in Journals \ {Fresh} : journal'[j] = journal[j]
BY FreshIsNew DEF TypeOKLedger, NoRow0

-----------------------------------------------------------------------------
(* What the invariant needs to know of a step's effect on the journals:     *)
(* a new row, a change of a row that waits, or a link.                      *)

Kept(S) == \A k \in S : journal'[k] = journal[k]

Inserts(f, r) ==
  /\ f \in Journals /\ IsStatus(f, {"none"})
  /\ r \in Rows /\ r.status \in {"draft", "posted"} /\ r.reversedBy = NoJournal
  /\ r.creator \in Users
  /\ r.kind = "manual" => r.status = "draft" /\ r.approver = NoUser /\ r.poster = NoUser
  /\ r.kind # "manual" => r.status = "posted"
  /\ journal'[f] = r /\ Kept(Journals \ {f})

Revises(j) ==
  /\ j \in Journals /\ IsStatus(j, {"draft", "approved"})
  /\ journal'[j] \in Rows /\ journal'[j].status # "none"
  /\ journal'[j].kind = journal[j].kind
  /\ journal'[j].creator = journal[j].creator
  /\ journal'[j].reversedBy = journal[j].reversedBy
  /\ journal'[j].reverses = journal[j].reverses
  /\ \A u \in {journal'[j].approver, journal'[j].poster} :
       u \in {journal[j].approver, journal[j].poster} \/ (u \in Users /\ MayCheck(u, j))
  /\ Kept(Journals \ {j})

Links(f, r, j) ==
  /\ f \in Journals /\ IsStatus(f, {"none"})
  /\ r \in Rows /\ r.status = "posted" /\ r.reversedBy = NoJournal
  /\ r.kind \in {"reversal", "undo"} /\ r.reverses = j
  /\ j \in Journals /\ IsStatus(j, {"posted"}) /\ r.amount = -journal[j].amount
  /\ journal'[f] = r /\ Kept(Journals \ {f, j})
  /\ journal'[j] \in Rows
  /\ journal'[j].status = journal[j].status /\ journal'[j].kind = journal[j].kind
  /\ journal'[j].creator = journal[j].creator
  /\ journal'[j].approver = journal[j].approver
  /\ journal'[j].poster = journal[j].poster
  /\ journal'[j].amount = journal[j].amount /\ journal'[j].month = journal[j].month
  /\ journal'[j].reverses = journal[j].reverses
  /\ journal'[j].reversedBy = f

LEMMA InsertKeepsJournals ==
  ASSUME TypeOKLedger, JournalInv, NEW f, NEW r, Inserts(f, r), r.kind # "reversal"
  PROVE  JournalInv'
<1> USE LedgerAssumption DEF Inserts, Kept, IsOf, IsStatus, TypeOKLedger
<1>1. OnlyManualJournalsWait'
  BY DEF JournalInv, OnlyManualJournalsWait, Rows
<1>2. FourEyes'
  BY DEF JournalInv, FourEyes, Rows
<1>3. MirrorsOriginal'
  BY DEF JournalInv, MirrorsOriginal, Rows
<1>4. ReversalsAreLinked'
  BY DEF JournalInv, ReversalsAreLinked, Rows
<1>5. ReversedOnce'
  BY DEF JournalInv, ReversedOnce, Rows
<1> QED BY <1>1, <1>2, <1>3, <1>4, <1>5 DEF JournalInv

LEMMA RevisionKeepsJournals ==
  ASSUME TypeOKLedger, JournalInv, NEW j, Revises(j)
  PROVE  JournalInv'
<1> USE LedgerAssumption DEF Revises, Kept, IsOf, IsStatus, TypeOKLedger
<1>1. OnlyManualJournalsWait'
  BY DEF JournalInv, OnlyManualJournalsWait, Rows
<1>2. FourEyes'
  BY DEF JournalInv, FourEyes, Rows, MayCheck
<1>3. MirrorsOriginal'
  BY DEF JournalInv, MirrorsOriginal, Rows
<1>4. ReversalsAreLinked'
  BY DEF JournalInv, ReversalsAreLinked, OnlyManualJournalsWait, Rows
<1>5. ReversedOnce'
  BY DEF JournalInv, ReversedOnce, Rows
<1> QED BY <1>1, <1>2, <1>3, <1>4, <1>5 DEF JournalInv

LEMMA LinkKeepsJournals ==
  ASSUME TypeOKLedger, JournalInv, NEW f, NEW r, NEW j, Links(f, r, j),
         r.kind = "reversal" => journal[j].reversedBy = NoJournal
  PROVE  JournalInv'
<1> USE LedgerAssumption DEF Links, Kept, IsOf, IsStatus, TypeOKLedger
<1>1. OnlyManualJournalsWait'
  BY DEF JournalInv, OnlyManualJournalsWait, Rows
<1>2. FourEyes'
  BY DEF JournalInv, FourEyes, Rows
<1>3. MirrorsOriginal'
  BY DEF JournalInv, MirrorsOriginal, Rows
<1>4. ReversalsAreLinked'
  BY DEF JournalInv, ReversalsAreLinked, Rows
<1>5. ReversedOnce'
  BY DEF JournalInv, ReversedOnce, ReversalsAreLinked, Rows
<1> QED BY <1>1, <1>2, <1>3, <1>4, <1>5 DEF JournalInv

-----------------------------------------------------------------------------
(* What the invariant needs to know of a step's effect on transactions.     *)

\* The transactions that stay open find their journal as it was.
LEMMA TransactionsKept ==
  ASSUME TxInv, Idle.op \notin Ops,
         \A v \in Users : \/ tx'[v] = Idle
                          \/ /\ tx'[v] = tx[v]
                             /\ Locking(v) => journal'[tx[v].journal] = journal[tx[v].journal]
                             /\ tx[v].op = "undo" =>
                                  LET j == tx[v].journal IN
                                  /\ journal'[j].status = journal[j].status
                                  /\ journal'[j].amount = journal[j].amount
  PROVE  TxInv'
<1>1. \A v \in Users : TxFits(v)'
  <2> SUFFICES ASSUME NEW v \in Users PROVE TxFits(v)'
    OBVIOUS
  <2> QED BY DEF TxInv, TxFits, Locking, IsStatus, MayCheck, Ops
<1>2. LocksExclude'
  BY DEF TxInv, LocksExclude, Locking, Ops
<1> QED BY <1>1, <1>2 DEF TxInv

\* The journals a transaction has in its hands are not new.
LEMMA HeldJournals ==
  ASSUME TxInv, NEW v \in Users, Locking(v) \/ tx[v].op = "undo"
  PROVE  tx[v].journal \in Journals /\ ~IsStatus(tx[v].journal, {"none"})
BY DEF TxInv, TxFits, Locking, IsStatus

\* A journal nobody holds is in the hands of no posting and no reversal.
LEMMA FreeJournal ==
  ASSUME NEW j, ~Held(j), NEW v \in Users, Locking(v)
  PROVE  tx[v].journal # j
BY DEF Held, Locking

LEMMA IdleIsIdle == Idle.op \notin Ops
BY DEF Idle, Ops

\* A new row is in no transaction's hands.
LEMMA InsertKeepsTransactions ==
  ASSUME TxInv, NEW f, NEW r, Inserts(f, r),
         \A v \in Users : tx'[v] \in {Idle, tx[v]}
  PROVE  TxInv'
<1>1. \A v \in Users : Locking(v) \/ tx[v].op = "undo" =>
        journal'[tx[v].journal] = journal[tx[v].journal]
  BY HeldJournals DEF Inserts, Kept
<1> QED BY <1>1, IdleIsIdle, TransactionsKept

\* A revision of a journal that no transaction holds, or of the one that a
\* transaction gives up.
LEMMA RevisionKeepsTransactions ==
  ASSUME TxInv, NEW j, Revises(j),
         \A v \in Users : Locking(v) /\ tx[v].journal = j => tx'[v] = Idle,
         \A v \in Users : tx'[v] \in {Idle, tx[v]}
  PROVE  TxInv'
<1>1. \A v \in Users : Locking(v) /\ tx[v].journal # j =>
        journal'[tx[v].journal] = journal[tx[v].journal]
  BY HeldJournals DEF Revises, Kept
<1>2. \A v \in Users : tx[v].op = "undo" =>
        journal'[tx[v].journal] = journal[tx[v].journal]
  BY HeldJournals DEF TxInv, TxFits, Revises, Kept, IsStatus
<1> QED BY <1>1, <1>2, IdleIsIdle, TransactionsKept

LEMMA LinkKeepsTransactions ==
  ASSUME TxInv, NEW f, NEW r, NEW j, Links(f, r, j),
         \A v \in Users : Locking(v) /\ tx[v].journal = j => tx'[v] = Idle,
         \A v \in Users : tx'[v] \in {Idle, tx[v]}
  PROVE  TxInv'
<1>1. \A v \in Users : Locking(v) /\ tx[v].journal # j =>
        journal'[tx[v].journal] = journal[tx[v].journal]
  BY HeldJournals DEF Links, Kept
<1>2. \A v \in Users : tx[v].op = "undo" =>
        /\ journal'[tx[v].journal].status = journal[tx[v].journal].status
        /\ journal'[tx[v].journal].amount = journal[tx[v].journal].amount
  BY HeldJournals DEF Links, Kept
<1> QED BY <1>1, <1>2, IdleIsIdle, TransactionsKept

\* A transaction that begins.
LEMMA BeginKeepsTransactions ==
  ASSUME TxInv, journal' = journal, NEW u \in Users, tx[u] = Idle,
         TxFits(u)', \A v \in Users \ {u} : tx'[v] = tx[v],
         Locking(u)' => ~Held(tx'[u].journal)
  PROVE  TxInv'
<1>1. \A v \in Users : TxFits(v)'
  BY DEF TxInv, TxFits, IsStatus, MayCheck
<1>2. LocksExclude'
  BY FreeJournal DEF TxInv, LocksExclude, Locking, Held
<1> QED BY <1>1, <1>2 DEF TxInv

-----------------------------------------------------------------------------
(* The stored balance.                                                      *)

\* What a journal adds to a total.
Share(K, M) ==
  [j \in Journals |->
     IF IsStatus(j, {"posted"}) /\ journal[j].kind \in K /\ journal[j].month \in M
     THEN journal[j].amount ELSE 0]

LEMMA Shares ==
  ASSUME TypeOKLedger, NEW K, NEW M
  PROVE  /\ Share(K, M) \in [Journals -> Int]
         /\ PostedTotal(K, M) = SumFunction(Share(K, M))
         /\ PostedTotal(K, M) \in Int
<1>1. \A j \in Journals : IsStatus(j, {"posted"}) => journal[j].amount \in Int
  BY Rowed DEF Rows, IsStatus
<1>2. Share(K, M) \in [Journals -> Int]
  BY <1>1 DEF Share
<1>3. PostedTotal(K, M) = SumFunction(Share(K, M))
  BY DEF PostedTotal, Share
<1> QED BY <1>2, <1>3, SumInt, LedgerAssumption

\* A total that no journal contributes differently to stays.
LEMMA TotalKept ==
  ASSUME NEW K, NEW M, \A j \in Journals : Share(K, M)'[j] = Share(K, M)[j]
  PROVE  PostedTotal(K, M)' = PostedTotal(K, M)
<1>1. Share(K, M)' = Share(K, M)
  BY DEF Share
<1> QED BY <1>1 DEF PostedTotal, Share

\* A total that one journal contributes differently to moves by the difference.
LEMMA TotalMoves ==
  ASSUME TypeOKLedger, TypeOKLedger', NEW K, NEW M, NEW y \in Journals,
         \A j \in Journals \ {y} : Share(K, M)'[j] = Share(K, M)[j]
  PROVE  PostedTotal(K, M)' = PostedTotal(K, M) + Share(K, M)'[y] - Share(K, M)[y]
<1>1. Share(K, M)' \in [Journals -> Int]
  <2>1. \A j \in Journals : IsStatus(j, {"posted"})' => journal'[j].amount \in Int
    BY DEF TypeOKLedger, Rows, IsStatus
  <2> QED BY <2>1 DEF Share
<1>2. Share(K, M) \in [Journals -> Int]
  BY Shares
<1>3. PostedTotal(K, M)' = SumFunction(Share(K, M)')
  BY DEF PostedTotal, Share
<1>4. PostedTotal(K, M) = SumFunction(Share(K, M))
  BY Shares
<1>5. SumFunction(Share(K, M)') = SumFunction(Share(K, M)) + Share(K, M)'[y] - Share(K, M)[y]
  <2> DEFINE f == Share(K, M)  g == Share(K, M)'
  <2>1. f \in [Journals -> Int] /\ g \in [Journals -> Int]
    BY <1>1, <1>2
  <2>2. \A x \in Journals : x # y => g[x] = f[x]
    OBVIOUS
  <2>3. IsFiniteSet(Journals)
    BY LedgerAssumption
  <2> HIDE DEF f, g
  <2>4. SumFunction(g) = SumFunction(f) + g[y] - f[y]
    BY <2>1, <2>2, <2>3, SumUpdate
  <2> QED BY <2>4 DEF f, g
<1> QED BY <1>3, <1>4, <1>5

\* What a row adds to the totals the balance is made of.
Adds(r) == IF r.status = "posted" /\ r.kind \notin ClosingKinds THEN r.amount ELSE 0

Booked == PostedTotal(Kinds \ ClosingKinds, Months)

LEMMA InsertMovesBalance ==
  ASSUME TypeOKLedger, TypeOKLedger', NEW f, NEW r, Inserts(f, r)
  PROVE  Booked' = Booked + Adds(r)
<1> DEFINE K == Kinds \ ClosingKinds
<1>1. f \in Journals /\ \A j \in Journals \ {f} : Share(K, Months)'[j] = Share(K, Months)[j]
  BY DEF Inserts, Kept, Share, IsStatus
<1>2. Share(K, Months)[f] = 0
  BY <1>1 DEF Share, Inserts, IsStatus
<1>3. Share(K, Months)'[f] = Adds(r)
  BY <1>1 DEF Share, Inserts, IsStatus, Adds, Rows
<1>4. Adds(r) \in Int
  BY DEF Inserts, Adds, Rows
<1> HIDE DEF K
<1>5. PostedTotal(K, Months)' = PostedTotal(K, Months) + Share(K, Months)'[f] - Share(K, Months)[f]
  BY <1>1, TotalMoves
<1>6. PostedTotal(K, Months) \in Int
  BY Shares
<1>7. PostedTotal(K, Months)' = PostedTotal(K, Months) + Adds(r)
  BY <1>2, <1>3, <1>4, <1>5, <1>6
<1> QED BY <1>7 DEF Booked, K

LEMMA RevisionMovesBalance ==
  ASSUME TypeOKLedger, TypeOKLedger', JournalInv, NEW j, Revises(j)
  PROVE  Booked' = Booked + Adds(journal'[j])
<1> DEFINE K == Kinds \ ClosingKinds
<1>1. j \in Journals /\ \A k \in Journals \ {j} : Share(K, Months)'[k] = Share(K, Months)[k]
  BY DEF Revises, Kept, Share, IsStatus
<1>2. Share(K, Months)[j] = 0
  BY <1>1 DEF Share, Revises, IsStatus
<1>3. Share(K, Months)'[j] = Adds(journal'[j])
  BY <1>1 DEF Share, Revises, IsStatus, Adds, Rows
<1>4. Adds(journal'[j]) \in Int
  BY DEF Revises, Adds, Rows
<1> HIDE DEF K
<1>5. PostedTotal(K, Months)' = PostedTotal(K, Months) + Share(K, Months)'[j] - Share(K, Months)[j]
  BY <1>1, TotalMoves
<1>6. PostedTotal(K, Months) \in Int
  BY Shares
<1>7. PostedTotal(K, Months)' = PostedTotal(K, Months) + Adds(journal'[j])
  BY <1>2, <1>3, <1>4, <1>5, <1>6
<1> QED BY <1>7 DEF Booked, K

LEMMA LinkMovesBalance ==
  ASSUME TypeOKLedger, TypeOKLedger', NEW f, NEW r, NEW j, Links(f, r, j)
  PROVE  Booked' = Booked + r.amount
<1> DEFINE K == Kinds \ ClosingKinds
<1>1. f \in Journals /\ \A k \in Journals \ {f} : Share(K, Months)'[k] = Share(K, Months)[k]
  <2>1. \A k \in Journals \ {f, j} : Share(K, Months)'[k] = Share(K, Months)[k]
    BY DEF Links, Kept, Share, IsStatus
  <2>2. f \in Journals /\ Share(K, Months)'[j] = Share(K, Months)[j]
    BY DEF Links, Share, IsStatus
  <2> QED BY <2>1, <2>2
<1>2. Share(K, Months)[f] = 0
  BY <1>1 DEF Share, Links, IsStatus
<1>3. Share(K, Months)'[f] = r.amount
  BY <1>1 DEF Share, Links, IsStatus, Rows, Kinds, ClosingKinds
<1>4. r.amount \in Int
  BY DEF Links, Rows
<1> HIDE DEF K
<1>5. PostedTotal(K, Months)' = PostedTotal(K, Months) + Share(K, Months)'[f] - Share(K, Months)[f]
  BY <1>1, TotalMoves
<1>6. PostedTotal(K, Months) \in Int
  BY Shares
<1>7. PostedTotal(K, Months)' = PostedTotal(K, Months) + r.amount
  BY <1>2, <1>3, <1>4, <1>5, <1>6
<1> QED BY <1>7 DEF Booked, K

-----------------------------------------------------------------------------
(* The three kinds of effect, and steps that leave the journals alone.      *)

LEMMA InsertStep ==
  ASSUME LedgerInv, TypeOKLedger', NEW f, NEW r, Inserts(f, r), r.kind # "reversal",
         \A v \in Users : tx'[v] \in {Idle, tx[v]},
         repair' = repair, balance' = balance + Adds(r)
  PROVE  LedgerInv'
<1>1. JournalInv' /\ TxInv'
  BY InsertKeepsJournals, InsertKeepsTransactions DEF LedgerInv
<1>2. BalanceInv'
  BY InsertMovesBalance DEF LedgerInv, BalanceInv, BalanceTies, Booked
<1> QED BY <1>1, <1>2 DEF LedgerInv

LEMMA RevisionStep ==
  ASSUME LedgerInv, TypeOKLedger', NEW j, Revises(j),
         \A v \in Users : Locking(v) /\ tx[v].journal = j => tx'[v] = Idle,
         \A v \in Users : tx'[v] \in {Idle, tx[v]},
         repair' = repair, balance' = balance + Adds(journal'[j])
  PROVE  LedgerInv'
<1>1. JournalInv' /\ TxInv'
  BY RevisionKeepsJournals, RevisionKeepsTransactions DEF LedgerInv
<1>2. BalanceInv'
  BY RevisionMovesBalance DEF LedgerInv, BalanceInv, BalanceTies, Booked
<1> QED BY <1>1, <1>2 DEF LedgerInv

LEMMA LinkStep ==
  ASSUME LedgerInv, TypeOKLedger', NEW f, NEW r, NEW j, Links(f, r, j),
         r.kind = "reversal" => journal[j].reversedBy = NoJournal,
         \A v \in Users : Locking(v) /\ tx[v].journal = j => tx'[v] = Idle,
         \A v \in Users : tx'[v] \in {Idle, tx[v]},
         repair' = repair, balance' = balance + r.amount
  PROVE  LedgerInv'
<1>1. JournalInv' /\ TxInv'
  BY LinkKeepsJournals, LinkKeepsTransactions DEF LedgerInv
<1>2. BalanceInv'
  BY LinkMovesBalance DEF LedgerInv, BalanceInv, BalanceTies, Booked
<1> QED BY <1>1, <1>2 DEF LedgerInv

LEMMA QuietStep ==
  ASSUME LedgerInv, TypeOKLedger', journal' = journal, TxInv',
         BalanceInv'
  PROVE  LedgerInv'
BY DEF LedgerInv, JournalInv, OnlyManualJournalsWait, FourEyes, MirrorsOriginal,
       ReversalsAreLinked, ReversedOnce, IsOf, IsStatus

\* The booked total and the balance stand still together.
LEMMA BalanceKept ==
  ASSUME BalanceInv, journal' = journal, balance' = balance, repair' = repair
  PROVE  BalanceInv'
BY DEF BalanceInv, BalanceTies, PostedTotal, IsStatus

\* Transactions nobody touches.
LEMMA TransactionsUntouched ==
  ASSUME TxInv, journal' = journal, \A v \in Users : tx'[v] \in {Idle, tx[v]}
  PROVE  TxInv'
BY IdleIsIdle, TransactionsKept

-----------------------------------------------------------------------------
(* One lemma per action.                                                    *)

LEMMA InitLedgerInv == InitLedger => LedgerInv
<1> SUFFICES ASSUME InitLedger PROVE LedgerInv
  OBVIOUS
<1> USE LedgerAssumption DEF InitLedger
<1>1. TypeOKLedger
  BY DEF TypeOKLedger, PeriodStatuses, Rests
<1>2. JournalInv
  BY DEF JournalInv, OnlyManualJournalsWait, FourEyes, MirrorsOriginal,
         ReversalsAreLinked, ReversedOnce, IsOf, IsStatus
<1>3. TxInv
  BY DEF TxInv, TxFits, LocksExclude, Locking, Idle
<1>4. BalanceInv
  <2>1. \A j \in Journals : Share(Kinds \ ClosingKinds, Months)[j] = 0
    BY DEF Share, IsStatus
  <2>2. PostedTotal(Kinds \ ClosingKinds, Months) = 0
    BY <1>1, <2>1, Shares, SumZero
  <2> QED BY <2>2 DEF BalanceInv, BalanceTies
<1> QED BY <1>1, <1>2, <1>3, <1>4 DEF LedgerInv

\* A draft adds nothing, and neither does what its approval leaves unposted.
LEMMA AddsNothing ==
  ASSUME TypeOKLedger, NEW r, r.status # "posted"
  PROVE  balance = balance + Adds(r)
BY DEF TypeOKLedger, Adds

LEMMA CreateStep ==
  ASSUME LedgerInv, NEW u \in Users, NEW x \in Amounts, NEW m \in Months, Create(u, x, m)
  PROVE  LedgerInv'
<1> DEFINE r == Row("draft", "manual", x, m, u, NoJournal)
<1>1. /\ r \in Rows /\ r.status = "draft" /\ r.kind = "manual" /\ r.creator = u
      /\ r.approver = NoUser /\ r.poster = NoUser /\ r.reversedBy = NoJournal
  BY RowType, LedgerAssumption DEF Statuses, Kinds
<1>2. Drawable /\ journal' = [journal EXCEPT ![Fresh] = r]
  BY DEF Create
<1> HIDE DEF r
<1>3. /\ journal' \in [Journals -> Rows \cup {NoRow0}] /\ journal'[Fresh] = r
      /\ \A j \in Journals \ {Fresh} : journal'[j] = journal[j]
  BY <1>1, <1>2, FreshRow DEF LedgerInv
<1>4. Inserts(Fresh, r)
  BY <1>1, <1>2, <1>3, FreshIsNew DEF Inserts, Kept
<1>5. TypeOKLedger'
  BY <1>3 DEF LedgerInv, TypeOKLedger, NoRow0, Create
<1> QED BY <1>1, <1>4, <1>5, InsertStep, AddsNothing DEF Create, LedgerInv

\* The edit of a row.
LEMMA RowEdited ==
  ASSUME NEW r \in Rows, NEW x \in Int, NEW m \in Months
  PROVE  [r EXCEPT !.amount = x, !.month = m] \in Rows
BY DEF Rows

LEMMA EditStep ==
  ASSUME LedgerInv, NEW j \in Journals, NEW x \in Amounts, NEW m \in Months, Edit(j, x, m)
  PROVE  LedgerInv'
<1>1. journal[j] \in Rows /\ x \in Int
  BY Rowed, LedgerAssumption DEF LedgerInv, Edit, IsStatus
<1>2. /\ journal'[j] = [journal[j] EXCEPT !.amount = x, !.month = m]
      /\ \A k \in Journals \ {j} : journal'[k] = journal[k]
      /\ journal' \in [Journals -> Rows \cup {NoRow0}]
  <2>1. [journal[j] EXCEPT !.amount = x, !.month = m] \in Rows
    BY <1>1, RowEdited
  <2> QED BY <1>1, <2>1 DEF Edit, LedgerInv, TypeOKLedger, NoRow0
<1>3. Revises(j) /\ journal'[j].status # "posted"
  BY <1>1, <1>2 DEF Revises, Kept, Edit, IsStatus, Rows
<1>4. TypeOKLedger'
  BY <1>2 DEF LedgerInv, TypeOKLedger, NoRow0, Edit
<1>5. \A v \in Users : ~(Locking(v) /\ tx[v].journal = j)
  BY FreeJournal DEF Edit
<1> QED BY <1>3, <1>4, <1>5, RevisionStep, AddsNothing DEF Edit, LedgerInv

LEMMA ApproveStep ==
  ASSUME LedgerInv, NEW u \in Users, NEW j \in Journals, Approve(u, j)
  PROVE  LedgerInv'
<1>1. journal[j] \in Rows
  BY Rowed DEF LedgerInv, Approve, IsStatus
<1> DEFINE e == [journal[j] EXCEPT !.status = "approved", !.poster = journal[j].poster,
                                    !.approver = u]
<1>2. /\ e \in Rows /\ e.status = "approved" /\ e.approver = u
      /\ e.poster = journal[j].poster
      /\ e.kind = journal[j].kind /\ e.creator = journal[j].creator
      /\ e.reversedBy = journal[j].reversedBy /\ e.reverses = journal[j].reverses
  <2>1. /\ "approved" \in Statuses /\ u \in Users \cup {NoUser}
        /\ journal[j].poster \in Users \cup {NoUser}
    BY <1>1 DEF Statuses, Rows
  <2> QED BY <1>1, <2>1 DEF Rows
<1>3. journal'[j] = e /\ \A k \in Journals \ {j} : journal'[k] = journal[k]
  BY <1>1 DEF Approve, LedgerInv, TypeOKLedger, Rows
<1> HIDE DEF e
<1>4. Revises(j) /\ journal'[j].status # "posted"
  BY <1>2, <1>3 DEF Revises, Kept, Approve, IsStatus
<1>5. TypeOKLedger'
  <2>1. journal' \in [Journals -> Rows \cup {[status |-> "none"]}]
    BY <1>2, <1>3 DEF Approve, LedgerInv, TypeOKLedger
  <2> QED BY <2>1 DEF LedgerInv, TypeOKLedger, Approve
<1>6. \A v \in Users : ~(Locking(v) /\ tx[v].journal = j)
  BY FreeJournal DEF Approve
<1> QED BY <1>4, <1>5, <1>6, RevisionStep, AddsNothing DEF Approve, LedgerInv

LEMMA DeleteStep ==
  ASSUME LedgerInv, NEW j \in Journals, Delete(j)
  PROVE  LedgerInv'
<1>1. journal[j] \in Rows
  BY Rowed DEF LedgerInv, Delete, IsStatus
<1> DEFINE e == [journal[j] EXCEPT !.status = "deleted", !.poster = journal[j].poster,
                                    !.approver = journal[j].approver]
<1>2. /\ e \in Rows /\ e.status = "deleted" /\ e.approver = journal[j].approver
      /\ e.poster = journal[j].poster
      /\ e.kind = journal[j].kind /\ e.creator = journal[j].creator
      /\ e.reversedBy = journal[j].reversedBy /\ e.reverses = journal[j].reverses
  <2>1. /\ "deleted" \in Statuses /\ journal[j].approver \in Users \cup {NoUser}
        /\ journal[j].poster \in Users \cup {NoUser}
    BY <1>1 DEF Statuses, Rows
  <2> QED BY <1>1, <2>1 DEF Rows
<1>3. journal'[j] = e /\ \A k \in Journals \ {j} : journal'[k] = journal[k]
  BY <1>1 DEF Delete, LedgerInv, TypeOKLedger, Rows
<1> HIDE DEF e
<1>4. Revises(j) /\ journal'[j].status # "posted"
  BY <1>2, <1>3 DEF Revises, Kept, Delete, IsStatus
<1>5. TypeOKLedger'
  <2>1. journal' \in [Journals -> Rows \cup {[status |-> "none"]}]
    BY <1>2, <1>3 DEF Delete, LedgerInv, TypeOKLedger
  <2> QED BY <2>1 DEF LedgerInv, TypeOKLedger, Delete
<1>6. \A v \in Users : ~(Locking(v) /\ tx[v].journal = j)
  BY FreeJournal DEF Delete
<1> QED BY <1>4, <1>5, <1>6, RevisionStep, AddsNothing DEF Delete, LedgerInv

\* A transaction of a type that fits.
LEMMA TxType ==
  ASSUME NEW op \in Ops, NEW j \in Journals \cup {NoJournal}, NEW x \in Int,
         NEW m \in Months
  PROVE  /\ Tx(op, j, x, m) \in Txs
         /\ Tx(op, j, x, m).op = op /\ Tx(op, j, x, m).journal = j
         /\ Tx(op, j, x, m).amount = x /\ Tx(op, j, x, m).month = m
BY DEF Tx, Txs

\* A user without a transaction opens one.
LEMMA Opens ==
  ASSUME LedgerInv, NEW u \in Users, tx[u] = Idle, NEW t \in Txs,
         tx' = [tx EXCEPT ![u] = t],
         UNCHANGED <<journal, balance, period, closing, repair>>
  PROVE  /\ TypeOKLedger'
         /\ tx'[u] = t /\ \A v \in Users \ {u} : tx'[v] = tx[v]
         /\ BalanceInv'
<1>1. TypeOKLedger'
  BY DEF LedgerInv, TypeOKLedger
<1>2. tx'[u] = t /\ \A v \in Users \ {u} : tx'[v] = tx[v]
  BY DEF LedgerInv, TypeOKLedger
<1> QED BY <1>1, <1>2, BalanceKept DEF LedgerInv

LEMMA BeginPostStep ==
  ASSUME LedgerInv, NEW u \in Users, NEW j \in Journals, NEW force, BeginPost(u, j, force)
  PROVE  LedgerInv'
<1> DEFINE t == Tx("post", j, journal[j].amount, journal[j].month)
<1>1. journal[j] \in Rows
  BY Rowed DEF LedgerInv, BeginPost, IsStatus
<1>2. t \in Txs /\ t.op = "post" /\ t.journal = j /\ t.month = journal[j].month
  <2>1. "post" \in Ops /\ journal[j].amount \in Int /\ journal[j].month \in Months
    BY <1>1 DEF Ops, Rows
  <2> QED BY <2>1, TxType
<1>3. tx[u] = Idle /\ tx' = [tx EXCEPT ![u] = t]
  BY DEF BeginPost
<1> HIDE DEF t
<1>4. /\ TypeOKLedger' /\ BalanceInv'
      /\ tx'[u] = t /\ \A v \in Users \ {u} : tx'[v] = tx[v]
  BY <1>2, <1>3, Opens DEF BeginPost
<1>5. TxFits(u)'
  BY <1>2, <1>4 DEF TxFits, BeginPost, IsStatus, MayCheck
<1>6. TxInv'
  BY <1>2, <1>3, <1>4, <1>5, BeginKeepsTransactions DEF LedgerInv, BeginPost
<1> QED BY <1>4, <1>6, QuietStep DEF BeginPost

LEMMA BeginDocumentStep ==
  ASSUME LedgerInv, NEW u \in Users, NEW x \in DocAmounts, NEW m \in Months,
         BeginDocument(u, x, m)
  PROVE  LedgerInv'
<1> DEFINE t == Tx("document", NoJournal, x, m)
<1>2. t \in Txs /\ t.op = "document"
  <2>1. "document" \in Ops /\ x \in Int
    BY LedgerAssumption DEF Ops
  <2> QED BY <2>1, TxType
<1>3. tx[u] = Idle /\ tx' = [tx EXCEPT ![u] = t]
  BY DEF BeginDocument
<1> HIDE DEF t
<1>4. /\ TypeOKLedger' /\ BalanceInv'
      /\ tx'[u] = t /\ \A v \in Users \ {u} : tx'[v] = tx[v]
  BY <1>2, <1>3, Opens DEF BeginDocument
<1>5. TxFits(u)' /\ ~Locking(u)'
  BY <1>2, <1>4 DEF TxFits, Locking
<1>6. TxInv'
  BY <1>3, <1>4, <1>5, BeginKeepsTransactions DEF LedgerInv, BeginDocument
<1> QED BY <1>4, <1>6, QuietStep DEF BeginDocument

LEMMA BeginReverseStep ==
  ASSUME LedgerInv, NEW u \in Users, NEW j \in Journals, NEW m \in Months,
         BeginReverse(u, j, m)
  PROVE  LedgerInv'
<1> DEFINE t == Tx("reverse", j, -journal[j].amount, m)
<1>1. journal[j] \in Rows
  BY Rowed DEF LedgerInv, BeginReverse, IsStatus
<1>2. t \in Txs /\ t.op = "reverse" /\ t.journal = j /\ t.amount = -journal[j].amount
  <2>1. "reverse" \in Ops /\ -journal[j].amount \in Int
    BY <1>1 DEF Ops, Rows
  <2> QED BY <2>1, TxType
<1>3. tx[u] = Idle /\ tx' = [tx EXCEPT ![u] = t]
  BY DEF BeginReverse
<1> HIDE DEF t
<1>4. /\ TypeOKLedger' /\ BalanceInv'
      /\ tx'[u] = t /\ \A v \in Users \ {u} : tx'[v] = tx[v]
  BY <1>2, <1>3, Opens DEF BeginReverse
<1>5. TxFits(u)'
  BY <1>2, <1>4 DEF TxFits, BeginReverse, IsStatus
<1>6. TxInv'
  BY <1>2, <1>3, <1>4, <1>5, BeginKeepsTransactions DEF LedgerInv, BeginReverse
<1> QED BY <1>4, <1>6, QuietStep DEF BeginReverse

LEMMA BeginUndoStep ==
  ASSUME LedgerInv, NEW u \in Users, NEW j \in Journals, BeginUndo(u, j)
  PROVE  LedgerInv'
<1> DEFINE t == Tx("undo", j, -journal[j].amount, journal[j].month)
<1>1. journal[j] \in Rows /\ IsStatus(j, {"posted"})
  BY Rowed DEF LedgerInv, BeginUndo, IsOf, JournalInv, OnlyManualJournalsWait, Kinds
<1>2. t \in Txs /\ t.op = "undo" /\ t.journal = j /\ t.amount = -journal[j].amount
  <2>1. "undo" \in Ops /\ -journal[j].amount \in Int /\ journal[j].month \in Months
    BY <1>1 DEF Ops, Rows
  <2> QED BY <2>1, TxType
<1>3. tx[u] = Idle /\ tx' = [tx EXCEPT ![u] = t]
  BY DEF BeginUndo
<1> HIDE DEF t
<1>4. /\ TypeOKLedger' /\ BalanceInv'
      /\ tx'[u] = t /\ \A v \in Users \ {u} : tx'[v] = tx[v]
  BY <1>2, <1>3, Opens DEF BeginUndo
<1>5. TxFits(u)' /\ ~Locking(u)'
  BY <1>1, <1>2, <1>4 DEF TxFits, BeginUndo, IsStatus, Locking
<1>6. TxInv'
  BY <1>3, <1>4, <1>5, BeginKeepsTransactions DEF LedgerInv, BeginUndo
<1> QED BY <1>4, <1>6, QuietStep DEF BeginUndo

\* A user's transaction is over.
LEMMA Closes ==
  ASSUME TypeOKLedger, NEW u \in Users, tx' = [tx EXCEPT ![u] = Idle]
  PROVE  /\ tx' \in [Users -> Txs \cup {Idle}]
         /\ tx'[u] = Idle /\ \A v \in Users : tx'[v] \in {Idle, tx[v]}
BY DEF TypeOKLedger

LEMMA AbortStep ==
  ASSUME LedgerInv, NEW u \in Users, Abort(u)
  PROVE  LedgerInv'
<1>1. TypeOKLedger' /\ \A v \in Users : tx'[v] \in {Idle, tx[v]}
  BY Closes DEF Abort, LedgerInv, TypeOKLedger
<1>2. TxInv' /\ BalanceInv'
  BY <1>1, TransactionsUntouched, BalanceKept DEF Abort, LedgerInv
<1> QED BY <1>1, <1>2, QuietStep DEF Abort

LEMMA CommitPostStep ==
  ASSUME LedgerInv, NEW u \in Users, CommitPost(u)
  PROVE  LedgerInv'
<1> DEFINE j == tx[u].journal
           a == IF journal[j].status = "draft" THEN u ELSE journal[j].approver
           e == [journal[j] EXCEPT !.status = "posted", !.poster = u, !.approver = a]
<1>1. /\ j \in Journals /\ IsStatus(j, {"draft", "approved"}) /\ MayCheck(u, j)
      /\ Locking(u)
  BY DEF LedgerInv, TxInv, TxFits, CommitPost, Locking
<1>2. journal[j] \in Rows
  BY <1>1, Rowed DEF LedgerInv, IsStatus
<1>3. /\ e \in Rows /\ e.status = "posted" /\ e.approver = a /\ e.poster = u
      /\ e.kind = journal[j].kind /\ e.creator = journal[j].creator
      /\ e.amount = journal[j].amount
      /\ e.reversedBy = journal[j].reversedBy /\ e.reverses = journal[j].reverses
  <2>1. a \in Users \cup {NoUser} /\ "posted" \in Statuses
    BY <1>2 DEF Statuses, Rows
  <2> QED BY <1>2, <2>1 DEF Rows
<1>4. journal'[j] = e /\ \A k \in Journals \ {j} : journal'[k] = journal[k]
  BY <1>1, <1>2 DEF CommitPost, LedgerInv, TypeOKLedger, Rows
<1>5. a \in {u, journal[j].approver}
  OBVIOUS
<1>6. journal' \in [Journals -> Rows \cup {[status |-> "none"]}]
  BY <1>1, <1>3, <1>4 DEF CommitPost, LedgerInv, TypeOKLedger
<1>7. balance' = balance + journal[j].amount /\ repair' = repair
      /\ tx' = [tx EXCEPT ![u] = Idle]
  BY DEF CommitPost
<1> HIDE DEF e, a
<1>8. Revises(j)
  BY <1>1, <1>3, <1>4, <1>5 DEF Revises, Kept, IsStatus
<1>9. balance' = balance + Adds(journal'[j])
  <2>1. journal[j].kind \notin ClosingKinds
    BY <1>1 DEF LedgerInv, JournalInv, OnlyManualJournalsWait, IsOf, IsStatus,
                Kinds, ClosingKinds
  <2> QED BY <1>3, <1>4, <1>7, <2>1 DEF Adds
<1>10. tx' \in [Users -> Txs \cup {Idle}] /\ tx'[u] = Idle
       /\ \A v \in Users : tx'[v] \in {Idle, tx[v]}
  BY <1>7, Closes DEF LedgerInv
<1>11. TypeOKLedger'
  <2>1. balance' \in Int
    BY <1>2, <1>7 DEF LedgerInv, TypeOKLedger, Rows
  <2> QED BY <1>6, <1>10, <2>1 DEF LedgerInv, TypeOKLedger, CommitPost
<1>12. \A v \in Users : Locking(v) /\ tx[v].journal = j => tx'[v] = Idle
  BY <1>1, <1>10 DEF LedgerInv, TxInv, LocksExclude
<1> HIDE DEF j
<1> QED BY <1>7, <1>8, <1>9, <1>10, <1>11, <1>12, RevisionStep

\* A posted row is inserted.
LEMMA PostedInsert ==
  ASSUME LedgerInv, Drawable, NEW r \in Rows, r.status = "posted",
         r.kind \notin {"manual", "reversal"}, r.creator \in Users,
         r.reversedBy = NoJournal, journal' = [journal EXCEPT ![Fresh] = r]
  PROVE  Inserts(Fresh, r) /\ journal' \in [Journals -> Rows \cup {NoRow0}]
<1>1. /\ journal' \in [Journals -> Rows \cup {NoRow0}] /\ journal'[Fresh] = r
      /\ \A j \in Journals \ {Fresh} : journal'[j] = journal[j]
  BY FreshRow DEF LedgerInv
<1> QED BY <1>1, FreshIsNew DEF Inserts, Kept

LEMMA CommitDocumentStep ==
  ASSUME LedgerInv, NEW u \in Users, CommitDocument(u)
  PROVE  LedgerInv'
<1> DEFINE r == Row("posted", "document", tx[u].amount, tx[u].month, u, NoJournal)
<1>1. /\ r \in Rows /\ r.status = "posted" /\ r.kind = "document" /\ r.creator = u
      /\ r.amount = tx[u].amount /\ r.reversedBy = NoJournal
  <2>1. tx[u].amount \in Int /\ tx[u].month \in Months
    BY DEF LedgerInv, TypeOKLedger, CommitDocument, Txs, Idle
  <2> QED BY <2>1, RowType DEF Statuses, Kinds
<1>2. /\ Drawable /\ balance' = balance + r.amount
      /\ journal' = [journal EXCEPT ![Fresh] = r]
      /\ tx' = [tx EXCEPT ![u] = Idle] /\ repair' = repair
  BY DEF CommitDocument, Post
<1> HIDE DEF r
<1>3. Inserts(Fresh, r) /\ journal' \in [Journals -> Rows \cup {NoRow0}]
  BY <1>1, <1>2, PostedInsert
<1>4. balance' = balance + Adds(r)
  BY <1>1, <1>2 DEF Adds, ClosingKinds
<1>5. tx' \in [Users -> Txs \cup {Idle}] /\ \A v \in Users : tx'[v] \in {Idle, tx[v]}
  BY <1>2, Closes DEF LedgerInv
<1>6. TypeOKLedger'
  <2>1. r.amount \in Int
    BY <1>1 DEF Rows
  <2> QED BY <1>2, <1>3, <1>5, <2>1 DEF LedgerInv, TypeOKLedger, NoRow0, CommitDocument
<1> QED BY <1>1, <1>2, <1>3, <1>4, <1>5, <1>6, InsertStep

\* What Link does to the two rows.
LEMMA LinkEffect ==
  ASSUME TypeOKLedger, NEW u \in Users, NEW kind \in {"reversal", "undo"},
         NEW j, j = tx[u].journal, j \in Journals, IsStatus(j, {"posted"}),
         tx[u] \in Txs, tx[u].amount = -journal[j].amount, Link(u, kind),
         NEW r, r = Row("posted", kind, tx[u].amount, tx[u].month, u, j)
  PROVE  /\ Links(Fresh, r, j) /\ r.kind = kind
         /\ journal' \in [Journals -> Rows \cup {NoRow0}]
         /\ balance' = balance + r.amount
<1> DEFINE e == [journal[j] EXCEPT !.reversedBy = Fresh,
                                   !.undone = (@ \/ kind = "undo")]
<1>1. /\ r \in Rows /\ r.status = "posted" /\ r.kind = kind /\ r.amount = tx[u].amount
      /\ r.reversedBy = NoJournal /\ r.reverses = j
  <2>1. tx[u].amount \in Int /\ tx[u].month \in Months
    BY DEF Txs
  <2> QED BY <2>1, RowType DEF Statuses, Kinds
<1>2. Drawable /\ balance' = balance + r.amount
  BY DEF Link, Post
<1>3. Fresh \in Journals /\ IsStatus(Fresh, {"none"}) /\ Fresh # j
  BY <1>2, FreshIsNew DEF IsStatus
<1>4. journal[j] \in Rows
  BY Rowed DEF IsStatus
<1>5. /\ e \in Rows /\ e.status = journal[j].status /\ e.kind = journal[j].kind
      /\ e.creator = journal[j].creator /\ e.approver = journal[j].approver
      /\ e.poster = journal[j].poster /\ e.amount = journal[j].amount
      /\ e.month = journal[j].month /\ e.reverses = journal[j].reverses
      /\ e.reversedBy = Fresh
  <2> DEFINE b == journal[j].undone \/ kind = "undo"
  <2>1. b \in BOOLEAN
    OBVIOUS
  <2>2. e = [journal[j] EXCEPT !.reversedBy = Fresh, !.undone = b]
    BY <1>4 DEF Rows
  <2> HIDE DEF b, e
  <2> QED BY <1>3, <1>4, <2>1, <2>2 DEF Rows
<1>6. journal' = [journal EXCEPT ![Fresh] = r, ![j] = e]
  <2>1. journal' = [journal EXCEPT ![Fresh] = r, ![j].reversedBy = Fresh,
                       ![j].undone = (@ \/ kind = "undo")]
    BY DEF Link
  <2> QED BY <1>3, <1>4, <2>1 DEF TypeOKLedger, Rows
<1> HIDE DEF e
<1>7. /\ journal'[Fresh] = r /\ journal'[j] = e
      /\ \A k \in Journals \ {Fresh, j} : journal'[k] = journal[k]
      /\ journal' \in [Journals -> Rows \cup {NoRow0}]
  BY <1>1, <1>3, <1>5, <1>6 DEF TypeOKLedger, NoRow0
<1> QED BY <1>1, <1>2, <1>3, <1>5, <1>7 DEF Links, Kept

\* Whoever may link two rows, the invariant holds behind it.
LEMMA LinkingStep ==
  ASSUME LedgerInv, NEW u \in Users, NEW kind \in {"reversal", "undo"},
         Link(u, kind), TxFits(u), tx[u] \in Txs, tx[u].op \in {"reverse", "undo"},
         kind = "reversal" => tx[u].op = "reverse",
         \A v \in Users \ {u} : Locking(v) => tx[v].journal # tx[u].journal
  PROVE  LedgerInv'
<1> DEFINE j == tx[u].journal
           r == Row("posted", kind, tx[u].amount, tx[u].month, u, j)
<1>1. /\ j \in Journals /\ IsStatus(j, {"posted"}) /\ tx[u].amount = -journal[j].amount
      /\ kind = "reversal" => journal[j].reversedBy = NoJournal
  BY DEF TxFits
<1>2. /\ Links(Fresh, r, j) /\ r.kind = kind /\ balance' = balance + r.amount
      /\ journal' \in [Journals -> Rows \cup {NoRow0}]
  BY <1>1, LinkEffect DEF LedgerInv
<1>3. tx' = [tx EXCEPT ![u] = Idle] /\ UNCHANGED <<period, closing, repair>>
  BY DEF Link
<1> HIDE DEF r
<1>4. /\ tx' \in [Users -> Txs \cup {Idle}] /\ tx'[u] = Idle
      /\ \A v \in Users : tx'[v] \in {Idle, tx[v]}
  BY <1>3, Closes DEF LedgerInv
<1>5. TypeOKLedger'
  <2>1. r.amount \in Int
    BY <1>2 DEF Links, Rows
  <2> QED BY <1>2, <1>3, <1>4, <2>1 DEF LedgerInv, TypeOKLedger, NoRow0
<1>6. \A v \in Users : Locking(v) /\ tx[v].journal = j => tx'[v] = Idle
  BY <1>4
<1> HIDE DEF j
<1> QED BY <1>1, <1>2, <1>3, <1>4, <1>5, <1>6, LinkStep

LEMMA CommitReverseStep ==
  ASSUME LedgerInv, NEW u \in Users, CommitReverse(u)
  PROVE  LedgerInv'
<1>1. Link(u, "reversal") /\ tx[u].op = "reverse" /\ TxFits(u) /\ tx[u] \in Txs
  BY DEF CommitReverse, LedgerInv, TxInv, TypeOKLedger, Idle
<1>2. \A v \in Users \ {u} : Locking(v) => tx[v].journal # tx[u].journal
  BY <1>1 DEF LedgerInv, TxInv, LocksExclude, Locking
<1> QED BY <1>1, <1>2, LinkingStep

LEMMA CommitUndoStep ==
  ASSUME LedgerInv, NEW u \in Users, CommitUndo(u)
  PROVE  LedgerInv'
<1>1. Link(u, "undo") /\ tx[u].op = "undo" /\ TxFits(u) /\ tx[u] \in Txs
  BY DEF CommitUndo, LedgerInv, TxInv, TypeOKLedger, Idle
<1>2. \A v \in Users \ {u} : Locking(v) => tx[v].journal # tx[u].journal
  BY FreeJournal DEF CommitUndo
<1> QED BY <1>1, <1>2, LinkingStep

\* Steps of a period that write no journal.
LEMMA PeriodOnlyStep ==
  ASSUME LedgerInv, UNCHANGED <<journal, balance, tx, repair>>,
         period' \in [Months -> PeriodStatuses], closing' \subseteq Months
  PROVE  LedgerInv'
<1>1. TypeOKLedger'
  BY DEF LedgerInv, TypeOKLedger
<1>2. TxInv' /\ BalanceInv'
  BY TransactionsUntouched, BalanceKept DEF LedgerInv
<1> QED BY <1>1, <1>2, QuietStep

\* A step of a period that writes one journal of the closing entries.
LEMMA ClosingInsertStep ==
  ASSUME LedgerInv, NEW kind \in ClosingKinds, NEW x \in Int, NEW m \in Months,
         NEW u \in Users, Drawable,
         journal' = [journal EXCEPT ![Fresh] = Row("posted", kind, x, m, u, NoJournal)],
         UNCHANGED <<balance, tx, repair>>,
         period' \in [Months -> PeriodStatuses], closing' \subseteq Months
  PROVE  LedgerInv'
<1> DEFINE r == Row("posted", kind, x, m, u, NoJournal)
<1>1. /\ r \in Rows /\ r.status = "posted" /\ r.kind \in ClosingKinds
      /\ r.creator = u /\ r.reversedBy = NoJournal
  BY RowType DEF Statuses, Kinds, ClosingKinds
<1>2. journal' = [journal EXCEPT ![Fresh] = r]
  OBVIOUS
<1> HIDE DEF r
<1>3. Inserts(Fresh, r) /\ journal' \in [Journals -> Rows \cup {NoRow0}]
  BY <1>1, <1>2, PostedInsert DEF ClosingKinds
<1>4. balance' = balance + Adds(r)
  BY <1>1 DEF Adds, LedgerInv, TypeOKLedger
<1>5. TypeOKLedger'
  BY <1>3 DEF LedgerInv, TypeOKLedger, NoRow0
<1>6. r.kind # "reversal" /\ \A v \in Users : tx'[v] \in {Idle, tx[v]}
  BY <1>1 DEF ClosingKinds
<1> QED BY <1>3, <1>4, <1>5, <1>6, InsertStep

LEMMA SetPeriodType ==
  ASSUME TypeOKLedger, NEW m \in Months, NEW to, NEW force, SetPeriod(m, to, force)
  PROVE  period' \in [Months -> PeriodStatuses] /\ closing' \subseteq Months
BY DEF TypeOKLedger, SetPeriod, PeriodStatuses

LEMMA ReverseClosingEffect ==
  ASSUME TypeOKLedger, NEW m \in Months, NEW u \in Users, ReverseClosing(m, u)
  PROVE  \E x \in Int :
           /\ Drawable
           /\ journal' = [journal EXCEPT ![Fresh] = Row("posted", "reopen", x, m, u, NoJournal)]
<1>1. PICK j \in OfMonth(m, "close") :
        /\ Drawable
        /\ journal' = [journal EXCEPT
             ![Fresh] = Row("posted", "reopen", -journal[j].amount, m, u, NoJournal)]
  BY DEF ReverseClosing
<1>2. -journal[j].amount \in Int
  <2>1. j \in Journals /\ ~IsStatus(j, {"none"})
    BY DEF OfMonth, IsOf
  <2> QED BY <2>1, Rowed DEF Rows
<1> QED BY <1>1, <1>2

LEMMA PeriodStepInv == LedgerInv /\ PeriodStep => LedgerInv'
<1> SUFFICES ASSUME LedgerInv, NEW m \in Months,
             \/ \E to \in PeriodStatuses : \/ Transition(m, to) \/ CoreSet(m, to)
                                          \/ \E force \in BOOLEAN : LegacySet(m, to, force)
             \/ \E u \in Users : \/ LegacyReopen(m, u) \/ ReopenStops(m, u)
                                 \/ \E whole \in BOOLEAN : GenerateClosing(m, u, whole)
             \/ ClosingLost(m)
             PROVE  LedgerInv'
  BY DEF PeriodStep
<1>1. ASSUME NEW to \in PeriodStatuses, Transition(m, to) \/ CoreSet(m, to)
      PROVE  LedgerInv'
  <2>1. period' \in [Months -> PeriodStatuses] /\ closing' \subseteq Months
    BY <1>1 DEF Transition, CoreSet, LedgerInv, TypeOKLedger
  <2>2. UNCHANGED <<journal, balance, tx, repair>>
    BY <1>1 DEF Transition, CoreSet
  <2> QED BY <2>1, <2>2, PeriodOnlyStep
<1>2. ASSUME NEW to \in PeriodStatuses, NEW force \in BOOLEAN, LegacySet(m, to, force)
      PROVE  LedgerInv'
  <2>1. SetPeriod(m, to, force) /\ UNCHANGED <<journal, balance, tx, repair>>
    BY <1>2 DEF LegacySet, SetPeriod
  <2> QED BY <2>1, SetPeriodType, PeriodOnlyStep DEF LedgerInv
<1>3. ASSUME NEW u \in Users, LegacyReopen(m, u) \/ ReopenStops(m, u)
      PROVE  LedgerInv'
  <2>1. /\ ReverseClosing(m, u) /\ UNCHANGED <<balance, tx, repair>>
        /\ period' \in [Months -> PeriodStatuses] /\ closing' \subseteq Months
    <3>1. CASE LegacyReopen(m, u)
      BY <3>1, SetPeriodType DEF LegacyReopen, SetPeriod, LedgerInv
    <3>2. CASE ReopenStops(m, u)
      BY <3>2 DEF ReopenStops, LedgerInv, TypeOKLedger
    <3> QED BY <1>3, <3>1, <3>2
  <2>2. PICK x \in Int :
          /\ Drawable
          /\ journal' = [journal EXCEPT ![Fresh] = Row("posted", "reopen", x, m, u, NoJournal)]
    BY <2>1, ReverseClosingEffect DEF LedgerInv
  <2>3. "reopen" \in ClosingKinds
    BY DEF ClosingKinds
  <2> QED BY <2>1, <2>2, <2>3, ClosingInsertStep
<1>4. ASSUME NEW u \in Users, NEW whole \in BOOLEAN, GenerateClosing(m, u, whole)
      PROVE  LedgerInv'
  <2>1. /\ UNCHANGED <<balance, tx, repair>>
        /\ period' \in [Months -> PeriodStatuses] /\ closing' \subseteq Months
    BY <1>4 DEF GenerateClosing, LedgerInv, TypeOKLedger
  <2>2. CASE journal' = journal
    BY <2>1, <2>2, PeriodOnlyStep
  <2>3. CASE journal' # journal
    <3> DEFINE x == IF whole THEN -NetOf(m) ELSE 0
    <3>1. NetOf(m) \in Int
      BY Shares DEF NetOf, LedgerInv
    <3>2. x \in Int
      BY <3>1
    <3>3. Drawable /\ journal' = [journal EXCEPT
            ![Fresh] = Row("posted", "close", x, m, u, NoJournal)]
      BY <1>4, <2>3 DEF GenerateClosing
    <3>4. "close" \in ClosingKinds
      BY DEF ClosingKinds
    <3> HIDE DEF x
    <3> QED BY <2>1, <3>2, <3>3, <3>4, ClosingInsertStep
  <2> QED BY <2>2, <2>3
<1>5. ASSUME ClosingLost(m) PROVE LedgerInv'
  <2>1. /\ UNCHANGED <<journal, balance, tx, repair>>
        /\ period' \in [Months -> PeriodStatuses] /\ closing' \subseteq Months
    BY <1>5 DEF ClosingLost, LedgerInv, TypeOKLedger
  <2> QED BY <2>1, PeriodOnlyStep
<1> QED BY <1>1, <1>2, <1>3, <1>4, <1>5

LEMMA CloseYearStep == LedgerInv /\ CloseYear => LedgerInv'
<1> SUFFICES ASSUME LedgerInv, CloseYear PROVE LedgerInv'
  OBVIOUS
<1>1. period' \in [Months -> PeriodStatuses] /\ closing' \subseteq Months
  BY DEF CloseYear, LedgerInv, TypeOKLedger, PeriodStatuses
<1>2. UNCHANGED <<journal, balance, tx, repair>>
  BY DEF CloseYear
<1> QED BY <1>1, <1>2, PeriodOnlyStep

LEMMA RepairStep == LedgerInv /\ Repair => LedgerInv'
<1> SUFFICES ASSUME LedgerInv, Repair PROVE LedgerInv'
  OBVIOUS
<1>1. UNCHANGED <<journal, period, closing, tx>>
  BY DEF Repair, RepairZero, RepairSum, RepairWrite, RepairDies
<1>2. PostedTotal(Kinds, Months) \in Int
  BY Shares DEF LedgerInv
<1>3. /\ balance' \in Int
      /\ repair' \in [runs : 0..MaxRepairs, step : Rests, sum : Int]
      /\ repair'.runs > 0
  <2>1. /\ repair \in [runs : 0..MaxRepairs, step : Rests, sum : Int]
        /\ balance \in Int /\ MaxRepairs \in Nat
        /\ repair.step # "idle" => repair.runs > 0
    BY LedgerAssumption DEF LedgerInv, TypeOKLedger, BalanceInv
  <2>2. CASE RepairZero
    <3>1. repair.runs \in Nat /\ repair.runs + 1 \in 0..MaxRepairs
      BY <2>1, <2>2 DEF RepairZero
    <3>2. repair' = [repair EXCEPT !.runs = repair.runs + 1, !.step = "zeroed"]
      BY <2>2 DEF RepairZero
    <3>3. repair' = [runs |-> repair.runs + 1, step |-> "zeroed", sum |-> repair.sum]
      BY <2>1, <3>2
    <3> QED BY <2>1, <2>2, <3>1, <3>3 DEF RepairZero, Rests
  <2>3. CASE RepairSum
    BY <1>2, <2>1, <2>3 DEF RepairSum, Rests
  <2>4. CASE RepairWrite
    BY <2>1, <2>4 DEF RepairWrite, Rests
  <2>5. CASE RepairDies
    BY <2>1, <2>5 DEF RepairDies, Rests
  <2> QED BY <2>2, <2>3, <2>4, <2>5 DEF Repair
<1>4. TypeOKLedger'
  BY <1>1, <1>3 DEF LedgerInv, TypeOKLedger
<1>5. TxInv'
  BY <1>1, TransactionsUntouched DEF LedgerInv
<1>6. BalanceInv'
  BY <1>3 DEF BalanceInv, BalanceTies
<1> QED BY <1>1, <1>4, <1>5, <1>6, QuietStep

LEMMA JournalStepInv == LedgerInv /\ JournalStep => LedgerInv'
BY CreateStep, EditStep, ApproveStep, DeleteStep, BeginPostStep, CommitPostStep,
   BeginDocumentStep, CommitDocumentStep, BeginReverseStep, CommitReverseStep,
   BeginUndoStep, CommitUndoStep, AbortStep
   DEF JournalStep

LEMMA StutterInv == LedgerInv /\ UNCHANGED ledgerVars => LedgerInv'
<1> SUFFICES ASSUME LedgerInv, UNCHANGED ledgerVars PROVE LedgerInv'
  OBVIOUS
<1>1. UNCHANGED <<journal, balance, period, closing, tx, repair>>
  BY DEF ledgerVars
<1> QED BY <1>1, PeriodOnlyStep DEF LedgerInv, TypeOKLedger

LEMMA NextInv == LedgerInv /\ [LedgerNext]_ledgerVars => LedgerInv'
BY JournalStepInv, PeriodStepInv, CloseYearStep, RepairStep, StutterInv DEF LedgerNext

LEMMA InvariantHolds == LedgerSpec => []LedgerInv
<1> QED BY InitLedgerInv, NextInv, PTL DEF LedgerSpec

-----------------------------------------------------------------------------
\* Journals, balances, periods and transactions keep their types whatever the
\* four sets of period endpoints, the postings and the repair do.
THEOREM LedgerTypeCorrect == LedgerSpec => []TypeOKLedger
<1>1. LedgerInv => TypeOKLedger
  BY DEF LedgerInv
<1> QED BY <1>1, InvariantHolds, PTL

\* The stored balance is the sum of the posted journals until a repair runs
\* (lib/glPosting.js, _postJournalTx).
THEOREM BalancesTie == LedgerSpec => []BalanceTies
<1>1. LedgerInv => BalanceTies
  BY DEF LedgerInv, BalanceInv
<1> QED BY <1>1, InvariantHolds, PTL

\* Nobody checks his own journal (lib/glTransitions.js, checkSelfApproval).
THEOREM NobodyChecksHimself == LedgerSpec => []FourEyes
<1>1. LedgerInv => FourEyes
  BY DEF LedgerInv, JournalInv
<1> QED BY <1>1, InvariantHolds, PTL

\* The ledger screen reverses a journal once (lib/glTransitions.js, reverse).
THEOREM ScreenReversesOnce == LedgerSpec => []ReversedOnce
<1>1. LedgerInv => ReversedOnce
  BY DEF LedgerInv, JournalInv
<1> QED BY <1>1, InvariantHolds, PTL

\* A link leads to a posted journal that mirrors the one it starts from.
THEOREM LinksMirror == LedgerSpec => []MirrorsOriginal
<1>1. LedgerInv => MirrorsOriginal
  BY DEF LedgerInv, JournalInv
<1> QED BY <1>1, InvariantHolds, PTL
-----------------------------------------------------------------------------
(* What a step may never do.  A posted journal stays as it is; a journal of *)
(* money enters a month only out of a transaction open on that month; and   *)
(* none opens on a closed month.                                            *)

Money == Kinds \ ClosingKinds

PostedStays ==
  \A j \in Journals : IsStatus(j, {"posted"}) =>
    /\ journal'[j].status = "posted" /\ journal'[j].kind = journal[j].kind
    /\ journal'[j].amount = journal[j].amount /\ journal'[j].month = journal[j].month

Announced(r) ==
  r.status = "posted" /\ r.kind \in Money =>
    \E u \in Users : tx[u] # Idle /\ tx[u].month = r.month

EntersAnnounced ==
  \A j \in Journals : ~IsStatus(j, {"posted"}) => Announced(journal'[j])

OpensOnOpen ==
  \A u \in Users : \/ tx'[u] \in {Idle, tx[u]}
                    \/ period[tx'[u].month] # "closed"

Effect == PostedStays /\ EntersAnnounced /\ OpensOnOpen

LEMMA JournalsUntouched ==
  ASSUME journal' = journal
  PROVE  PostedStays /\ EntersAnnounced
BY DEF PostedStays, EntersAnnounced, Announced, IsStatus

\* One row that was not posted is written.
LEMMA OneRowWritten ==
  ASSUME TypeOKLedger, NEW j \in Journals, ~IsStatus(j, {"posted"}), NEW r,
         journal' = [journal EXCEPT ![j] = r], Announced(r)
  PROVE  PostedStays /\ EntersAnnounced
<1>1. journal'[j] = r /\ \A k \in Journals \ {j} : journal'[k] = journal[k]
  BY DEF TypeOKLedger
<1>2. PostedStays
  BY <1>1 DEF PostedStays, IsStatus
<1>3. \A k \in Journals \ {j} : ~IsStatus(k, {"posted"}) => Announced(journal'[k])
  BY <1>1 DEF Announced, IsStatus
<1> QED BY <1>1, <1>2, <1>3 DEF EntersAnnounced

LEMMA FreshRowWritten ==
  ASSUME TypeOKLedger, Drawable, NEW r, journal' = [journal EXCEPT ![Fresh] = r],
         Announced(r)
  PROVE  PostedStays /\ EntersAnnounced
<1>1. Fresh \in Journals /\ ~IsStatus(Fresh, {"posted"})
  BY FreshIsNew DEF IsStatus
<1> QED BY <1>1, OneRowWritten

LEMMA TransactionsClose ==
  ASSUME TypeOKLedger, NEW u \in Users, tx' = [tx EXCEPT ![u] = Idle]
  PROVE  OpensOnOpen
BY Closes DEF OpensOnOpen

\* The steps that begin a transaction ask for the period.
LEMMA TransactionOpens ==
  ASSUME TypeOKLedger, NEW u \in Users, NEW t, tx' = [tx EXCEPT ![u] = t],
         period[t.month] # "closed", journal' = journal
  PROVE  Effect
<1>1. tx'[u] = t /\ \A v \in Users \ {u} : tx'[v] = tx[v]
  BY DEF TypeOKLedger
<1>2. OpensOnOpen
  BY <1>1 DEF OpensOnOpen
<1> QED BY <1>2, JournalsUntouched DEF Effect

LEMMA PostableIsNotClosed ==
  ASSUME NEW u, NEW m, NEW force, Postable(u, m, force)
  PROVE  period[m] # "closed"
BY DEF Postable, SoftClosed

LEMMA BeginEffect ==
  ASSUME LedgerInv, NEW u \in Users,
         \/ \E x \in DocAmounts, m \in Months : BeginDocument(u, x, m)
         \/ \E j \in Journals : \/ BeginUndo(u, j)
                                \/ \E force \in BOOLEAN : BeginPost(u, j, force)
                                \/ \E today \in Months : BeginReverse(u, j, today)
  PROVE  Effect
<1>1. ASSUME NEW op, NEW j, NEW x, NEW m, NEW force, Postable(u, m, force),
             tx' = [tx EXCEPT ![u] = Tx(op, j, x, m)], journal' = journal
      PROVE  Effect
  <2> DEFINE t == Tx(op, j, x, m)
  <2>1. t.month = m
    BY DEF Tx
  <2>2. tx' = [tx EXCEPT ![u] = t]
    BY <1>1
  <2> HIDE DEF t
  <2> QED BY <1>1, <2>1, <2>2, PostableIsNotClosed, TransactionOpens DEF LedgerInv
<1>2. ASSUME NEW x \in DocAmounts, NEW m \in Months, BeginDocument(u, x, m)
      PROVE  Effect
  BY <1>1, <1>2 DEF BeginDocument
<1>3. ASSUME NEW j \in Journals, BeginUndo(u, j)
      PROVE  Effect
  BY <1>1, <1>3 DEF BeginUndo
<1>4. ASSUME NEW j \in Journals, NEW force \in BOOLEAN, BeginPost(u, j, force)
      PROVE  Effect
  BY <1>1, <1>4 DEF BeginPost
<1>5. ASSUME NEW j \in Journals, NEW today \in Months, BeginReverse(u, j, today)
      PROVE  Effect
  BY <1>1, <1>5 DEF BeginReverse
<1> QED BY <1>2, <1>3, <1>4, <1>5

\* Drafts: whatever is done to them posts nothing.
LEMMA DraftEffect ==
  ASSUME LedgerInv, NEW u \in Users,
         \/ \E x \in Amounts, m \in Months : \/ Create(u, x, m)
                                           \/ \E j \in Journals : Edit(j, x, m)
         \/ \E j \in Journals : Approve(u, j) \/ Delete(j)
  PROVE  Effect
<1>1. ASSUME NEW x \in Amounts, NEW m \in Months, Create(u, x, m)
      PROVE  PostedStays /\ EntersAnnounced /\ tx' = tx
  <2> DEFINE r == Row("draft", "manual", x, m, u, NoJournal)
  <2>1. r.status = "draft"
    BY DEF Row
  <2>2. Drawable /\ journal' = [journal EXCEPT ![Fresh] = r] /\ tx' = tx
    BY <1>1 DEF Create
  <2> HIDE DEF r
  <2>3. Announced(r)
    BY <2>1 DEF Announced
  <2> QED BY <2>2, <2>3, FreshRowWritten DEF LedgerInv
<1>2. ASSUME NEW j \in Journals, Approve(u, j) \/ Delete(j)
                \/ \E x \in Amounts, m \in Months : Edit(j, x, m)
      PROVE  PostedStays /\ EntersAnnounced /\ tx' = tx
  <2>1. /\ ~IsStatus(j, {"posted"}) /\ journal'[j].status # "posted" /\ tx' = tx
        /\ journal' = [journal EXCEPT ![j] = journal'[j]]
    <3>1. journal[j] \in Rows
      BY <1>2, Rowed DEF LedgerInv, Approve, Delete, Edit, IsStatus
    <3>2. CASE Approve(u, j)
      BY <3>1, <3>2 DEF Approve, IsStatus, Rows, LedgerInv, TypeOKLedger
    <3>3. CASE Delete(j)
      BY <3>1, <3>3 DEF Delete, IsStatus, Rows, LedgerInv, TypeOKLedger
    <3>4. ASSUME NEW x \in Amounts, NEW m \in Months, Edit(j, x, m)
          PROVE  /\ ~IsStatus(j, {"posted"}) /\ journal'[j].status # "posted" /\ tx' = tx
                 /\ journal' = [journal EXCEPT ![j] = journal'[j]]
      BY <3>1, <3>4 DEF Edit, IsStatus, Rows, LedgerInv, TypeOKLedger
    <3> QED BY <1>2, <3>2, <3>3, <3>4
  <2>2. Announced(journal'[j])
    BY <2>1 DEF Announced
  <2> QED BY <2>1, <2>2, OneRowWritten DEF LedgerInv
<1>3. tx' = tx => OpensOnOpen
  BY DEF OpensOnOpen
<1> QED BY <1>1, <1>2, <1>3 DEF Effect

LEMMA CommitEffect ==
  ASSUME LedgerInv, NEW u \in Users,
         CommitPost(u) \/ CommitDocument(u) \/ CommitReverse(u) \/ CommitUndo(u)
  PROVE  Effect
<1>1. /\ tx' = [tx EXCEPT ![u] = Idle] /\ tx[u] # Idle /\ tx[u] \in Txs
      /\ TxFits(u)
  <2>1. tx' = [tx EXCEPT ![u] = Idle] /\ tx[u].op # "idle"
    <3>1. CASE CommitPost(u)
      BY <3>1 DEF CommitPost
    <3>2. CASE CommitDocument(u)
      BY <3>2 DEF CommitDocument
    <3>3. CASE CommitReverse(u)
      BY <3>3 DEF CommitReverse, Link
    <3>4. CASE CommitUndo(u)
      BY <3>4 DEF CommitUndo, Link
    <3> QED BY <3>1, <3>2, <3>3, <3>4
  <2>2. tx[u] # Idle
    BY <2>1 DEF Idle
  <2>3. tx[u] \in Txs
    BY <2>2 DEF LedgerInv, TypeOKLedger
  <2>4. TxFits(u)
    BY DEF LedgerInv, TxInv
  <2> QED BY <2>1, <2>2, <2>3, <2>4
<1>2. OpensOnOpen
  BY <1>1, TransactionsClose DEF LedgerInv
<1>3. CASE CommitPost(u)
  <2> DEFINE j == tx[u].journal  r == journal'[j]
  <2>1. j \in Journals /\ ~IsStatus(j, {"posted"}) /\ journal[j] \in Rows
    BY <1>1, <1>3, Rowed DEF TxFits, CommitPost, IsStatus, LedgerInv
  <2>2. journal[j].month = tx[u].month
    BY <1>1, <1>3 DEF TxFits, CommitPost
  <2>3. journal' = [journal EXCEPT ![j] = r] /\ r.month = tx[u].month
    BY <1>3, <2>1, <2>2 DEF CommitPost, LedgerInv, TypeOKLedger, Rows
  <2> HIDE DEF j, r
  <2>4. Announced(r)
    BY <1>1, <2>3 DEF Announced
  <2> QED BY <1>2, <2>1, <2>3, <2>4, OneRowWritten DEF LedgerInv, Effect
<1>4. CASE CommitDocument(u)
  <2> DEFINE r == Row("posted", "document", tx[u].amount, tx[u].month, u, NoJournal)
  <2>1. r.month = tx[u].month
    BY DEF Row
  <2>2. Drawable /\ journal' = [journal EXCEPT ![Fresh] = r]
    BY <1>4 DEF CommitDocument, Post
  <2> HIDE DEF r
  <2>3. Announced(r)
    BY <1>1, <2>1 DEF Announced
  <2> QED BY <1>2, <2>2, <2>3, FreshRowWritten DEF LedgerInv, Effect
<1>5. ASSUME NEW kind \in {"reversal", "undo"}, Link(u, kind),
             tx[u].op \in {"reverse", "undo"}
      PROVE  PostedStays /\ EntersAnnounced
  <2> DEFINE j == tx[u].journal
             r == Row("posted", kind, tx[u].amount, tx[u].month, u, j)
  <2>1. j \in Journals /\ IsStatus(j, {"posted"}) /\ tx[u].amount = -journal[j].amount
    BY <1>1, <1>5 DEF TxFits
  <2>2. Links(Fresh, r, j)
    BY <1>1, <1>5, <2>1, LinkEffect DEF LedgerInv
  <2>3. r.month = tx[u].month
    BY DEF Row
  <2> HIDE DEF r, j
  <2>4. PostedStays
    BY <2>2 DEF PostedStays, Links, Kept, IsStatus
  <2>5. Announced(r)
    BY <1>1, <2>3 DEF Announced
  <2>6. \A k \in Journals \ {Fresh, j} : ~IsStatus(k, {"posted"}) => Announced(journal'[k])
    BY <2>2 DEF Announced, Links, Kept, IsStatus
  <2> QED BY <2>2, <2>4, <2>5, <2>6 DEF EntersAnnounced, Links
<1>6. CASE CommitReverse(u)
  BY <1>2, <1>5, <1>6 DEF CommitReverse, Effect
<1>7. CASE CommitUndo(u)
  BY <1>2, <1>5, <1>7 DEF CommitUndo, Effect
<1> QED BY <1>3, <1>4, <1>6, <1>7

\* The endpoints of the periods write only journals of the closing entries.
LEMMA PeriodEffect ==
  ASSUME LedgerInv, PeriodStep
  PROVE  Effect
<1> SUFFICES ASSUME NEW m \in Months,
             \/ \E to \in PeriodStatuses : \/ Transition(m, to) \/ CoreSet(m, to)
                                          \/ \E force \in BOOLEAN : LegacySet(m, to, force)
             \/ \E u \in Users : \/ LegacyReopen(m, u) \/ ReopenStops(m, u)
                                 \/ \E whole \in BOOLEAN : GenerateClosing(m, u, whole)
             \/ ClosingLost(m)
             PROVE  Effect
  BY DEF PeriodStep
<1>1. tx' = tx
  BY DEF Transition, CoreSet, LegacySet, SetPeriod, LegacyReopen, ReopenStops,
         GenerateClosing, ClosingLost
<1>2. ASSUME NEW kind \in ClosingKinds, NEW x, NEW u, Drawable,
             journal' = [journal EXCEPT ![Fresh] = Row("posted", kind, x, m, u, NoJournal)]
      PROVE  PostedStays /\ EntersAnnounced
  <2> DEFINE r == Row("posted", kind, x, m, u, NoJournal)
  <2>1. r.kind = kind
    BY DEF Row
  <2>2. journal' = [journal EXCEPT ![Fresh] = r]
    BY <1>2
  <2> HIDE DEF r
  <2>3. Announced(r)
    BY <2>1 DEF Announced, Money
  <2> QED BY <1>2, <2>2, <2>3, FreshRowWritten DEF LedgerInv
<1>3. "close" \in ClosingKinds /\ "reopen" \in ClosingKinds
  BY DEF ClosingKinds
<1>4. ASSUME NEW u \in Users, LegacyReopen(m, u) \/ ReopenStops(m, u)
      PROVE  PostedStays /\ EntersAnnounced
  <2>1. ReverseClosing(m, u)
    BY <1>4 DEF LegacyReopen, ReopenStops
  <2> QED BY <1>2, <1>3, <2>1 DEF ReverseClosing
<1>5. ASSUME NEW u \in Users, NEW whole \in BOOLEAN, GenerateClosing(m, u, whole)
      PROVE  PostedStays /\ EntersAnnounced
  <2> DEFINE x == IF whole THEN -NetOf(m) ELSE 0
  <2>1. \/ journal' = journal
        \/ /\ Drawable
           /\ journal' = [journal EXCEPT ![Fresh] = Row("posted", "close", x, m, u, NoJournal)]
    BY <1>5 DEF GenerateClosing
  <2> HIDE DEF x
  <2> QED BY <1>2, <1>3, <2>1, JournalsUntouched
<1>6. ASSUME \/ \E to \in PeriodStatuses : \/ Transition(m, to) \/ CoreSet(m, to)
                                          \/ \E force \in BOOLEAN : LegacySet(m, to, force)
             \/ ClosingLost(m)
      PROVE  PostedStays /\ EntersAnnounced
  BY <1>6, JournalsUntouched DEF Transition, CoreSet, LegacySet, ClosingLost
<1> QED BY <1>1, <1>4, <1>5, <1>6 DEF Effect, OpensOnOpen

LEMMA StepEffect == LedgerInv /\ [LedgerNext]_ledgerVars => Effect
<1> SUFFICES ASSUME LedgerInv, [LedgerNext]_ledgerVars PROVE Effect
  OBVIOUS
<1>1. ASSUME NEW u \in Users, Abort(u) PROVE Effect
  BY <1>1, JournalsUntouched, TransactionsClose DEF Abort, Effect, LedgerInv
<1>2. ASSUME journal' = journal, tx' = tx PROVE Effect
  BY <1>2, JournalsUntouched DEF Effect, OpensOnOpen
<1>3. CASE JournalStep
  BY <1>1, <1>3, BeginEffect, DraftEffect, CommitEffect DEF JournalStep
<1>4. CASE PeriodStep
  BY <1>4, PeriodEffect
<1>5. CASE CloseYear \/ Repair \/ UNCHANGED ledgerVars
  BY <1>2, <1>5 DEF CloseYear, Repair, RepairZero, RepairSum, RepairWrite,
                    RepairDies, ledgerVars
<1> QED BY <1>3, <1>4, <1>5 DEF LedgerNext

\* No route changes the amount or the month of a posted journal or takes it
\* away (PUT and DELETE /gl/journals/:id, lib/glTransitions.js).
THEOREM CorrectionsAreNewJournals == LedgerSpec => PostedIsImmutable
<1>1. LedgerInv /\ [LedgerNext]_ledgerVars =>
        [\A j \in Journals : IsStatus(j, {"posted"}) =>
            /\ journal'[j].status = "posted"
            /\ journal'[j].amount = journal[j].amount
            /\ journal'[j].month = journal[j].month]_ledgerVars
  BY StepEffect DEF Effect, PostedStays
<1> QED BY <1>1, InvariantHolds, PTL DEF LedgerSpec, PostedIsImmutable

\* Behind the transactions in flight at the close, a closed month keeps its
\* total and no transaction begins on it (checkPeriodOpen, isPeriodClosed).
LEMMA ClosedMonthStep ==
  ASSUME LedgerInv, LedgerInv', Effect, NEW m \in Months, period[m] = "closed",
         \A u \in Users : tx[u] = Idle \/ tx[u].month # m
  PROVE  /\ NetOf(m)' = NetOf(m)
         /\ \A u \in Users : tx'[u] = Idle \/ tx'[u].month # m
<1>1. \A j \in Journals : Share(Money, {m})'[j] = Share(Money, {m})[j]
  <2> SUFFICES ASSUME NEW j \in Journals
               PROVE  Share(Money, {m})'[j] = Share(Money, {m})[j]
    OBVIOUS
  <2>1. CASE IsStatus(j, {"posted"})
    BY <2>1 DEF Effect, PostedStays, Share, IsStatus
  <2>2. CASE ~IsStatus(j, {"posted"})
    <3>1. ~(journal'[j].status = "posted" /\ journal'[j].kind \in Money
              /\ journal'[j].month = m)
      BY <2>2 DEF Effect, EntersAnnounced, Announced
    <3> QED BY <2>2, <3>1 DEF Share, IsStatus
  <2> QED BY <2>1, <2>2
<1>2. NetOf(m)' = NetOf(m)
  BY <1>1, TotalKept DEF NetOf, Money
<1>3. \A u \in Users : tx'[u] = Idle \/ tx'[u].month # m
  BY DEF Effect, OpensOnOpen
<1> QED BY <1>2, <1>3

THEOREM ClosedBooksStay == LedgerSpec => ClosedBooksAreFinal
<1>1. LedgerInv /\ LedgerInv' /\ [LedgerNext]_ledgerVars =>
        [\A m \in Months :
           period[m] = "closed" /\ (\A u \in Users : tx[u] = Idle \/ tx[u].month # m) =>
             /\ NetOf(m)' = NetOf(m)
             /\ \A u \in Users : tx'[u] = Idle \/ tx'[u].month # m]_ledgerVars
  BY StepEffect, ClosedMonthStep
<1> QED BY <1>1, InvariantHolds, PTL DEF LedgerSpec, ClosedBooksAreFinal

-----------------------------------------------------------------------------
(* The sales posting queue.                                                 *)

\* A row exists from the checkout on.
Captured == \A s \in Sales : sale[s].state = "none" => queue[s] = NoRow

\* A row names a batch exactly while it is posted.
LooseRows == \A s \in Sales :
  queue[s] # NoRow /\ queue[s].status # "posted" => queue[s].batch = NoBatch

PostedRows == \A s \in Sales : queue[s].status = "posted" =>
  /\ queue[s].batch \in Batches /\ batch[queue[s].batch].status = "posted"
  /\ s \in batch[queue[s].batch].rows

\* A posted batch keeps its rows: nothing but its reversal lets go of them.
BatchedRows == \A b \in Batches : batch[b].status = "posted" =>
  \A s \in batch[b].rows : queue[s].status = "posted" /\ queue[s].batch = b

QueueInv == LooseRows /\ PostedRows /\ BatchedRows

\* A batch has a posted journal of its own, of the price of its rows, and a
\* reversed batch a journal that is reversed.
Journaled == \A b \in Batches : batch[b].status # "none" =>
  LET j == batch[b].journal IN
  /\ IsStatus(j, {"posted"}) /\ journal[j].amount = Total(batch[b].rows)
  /\ batch[b].status = "reversed" => journal[j].reversedBy # NoJournal

OwnJournal == \A b, c \in Batches :
  batch[b].status # "none" /\ batch[c].status # "none"
    /\ batch[b].journal = batch[c].journal => b = c

BatchInv == Journaled /\ OwnJournal

\* A transaction finds at its commit what it read or locked when it began.
TxKnows(u) ==
  /\ tx[u] = Idle \/ tx[u].op \in {"batch", "unbatch", "reverse"}
  /\ tx[u].op = "batch" => tx[u].amount = Total(plan[u].rows)
  /\ tx[u].op = "unbatch" =>
       LET b == plan[u].batch IN
       /\ b \in Batches /\ batch[b].status = "posted"
       /\ tx[u].journal = batch[b].journal
       /\ journal[tx[u].journal].reversedBy = NoJournal
       /\ tx[u].amount = -journal[tx[u].journal].amount
  /\ tx[u].op = "reverse" =>
       /\ tx[u].journal \in Journals /\ IsStatus(tx[u].journal, {"posted"})
       /\ tx[u].amount = -journal[tx[u].journal].amount

Reversing(u) == tx[u].op \in {"reverse", "unbatch"}

OneReverses == \A u, v \in Users :
  Reversing(u) /\ Reversing(v) /\ tx[u].journal = tx[v].journal => u = v

TransactionInv == (\A u \in Users : TxKnows(u)) /\ OneReverses

PostingInv == TypeOK /\ Captured /\ QueueInv /\ BatchInv /\ TransactionInv

-----------------------------------------------------------------------------
(* Totals.                                                                  *)

PostedSales == {s \in Sales : queue[s].status = "posted"}

\* The price of a set of sales, as a sum over all of them.
Spread(S) == [s \in Sales |-> IF s \in S THEN Price[s] ELSE 0]

LEMMA TotalSpread ==
  ASSUME NEW S \in SUBSET Sales
  PROVE  Spread(S) \in [Sales -> Int] /\ Total(S) = SumFunction(Spread(S)) /\ Total(S) \in Int
<1>0. IsFiniteSet(Sales) /\ \A s \in Sales : Price[s] \in Int
  BY PostingAssumption
<1>1. Spread(S) \in [Sales -> Int]
  BY <1>0 DEF Spread
<1>2. \A s \in Sales \ S : Spread(S)[s] = 0
  BY DEF Spread
<1>3. [s \in S |-> Spread(S)[s]] = [s \in S |-> Price[s]]
  BY DEF Spread
<1>4. SumFunction(Spread(S)) = SumFunction([s \in S |-> Spread(S)[s]])
  BY <1>0, <1>1, <1>2, SumWithin
<1>5. SumFunction(Spread(S)) \in Int
  BY <1>0, <1>1, SumInt
<1> QED BY <1>1, <1>3, <1>4, <1>5 DEF Total

\* The price of two sets of sales that share none is the sum of theirs.
LEMMA TotalJoin ==
  ASSUME NEW A \in SUBSET Sales, NEW B \in SUBSET Sales, A \cap B = {}
  PROVE  Total(A \cup B) = Total(A) + Total(B)
<1>0. IsFiniteSet(Sales) /\ \A s \in Sales : Price[s] \in Int
  BY PostingAssumption
<1> DEFINE e == Spread(A \cup B)  f == Spread(A)  g == Spread(B)
<1>1. \A s \in Sales : e[s] = f[s] + g[s]
  <2> SUFFICES ASSUME NEW s \in Sales PROVE e[s] = f[s] + g[s]
    OBVIOUS
  <2>1. /\ e[s] = IF s \in A \cup B THEN Price[s] ELSE 0
        /\ f[s] = IF s \in A THEN Price[s] ELSE 0
        /\ g[s] = IF s \in B THEN Price[s] ELSE 0
    BY DEF Spread
  <2>2. Price[s] \in Int
    BY <1>0
  <2> HIDE DEF e, f, g
  <2>3. CASE s \in A  BY <2>1, <2>2, <2>3
  <2>4. CASE s \notin A  BY <2>1, <2>2, <2>4
  <2> QED BY <2>3, <2>4
<1>2. A \cup B \in SUBSET Sales
  OBVIOUS
<1>3. /\ e \in [Sales -> Int] /\ Total(A \cup B) = SumFunction(e)
      /\ f \in [Sales -> Int] /\ Total(A) = SumFunction(f)
      /\ g \in [Sales -> Int] /\ Total(B) = SumFunction(g)
  BY <1>2, TotalSpread
<1> HIDE DEF e, f, g
<1> QED BY <1>0, <1>1, <1>3, SumPlus

-----------------------------------------------------------------------------
(* Steps that leave the ledger, the batches and the transactions alone, and *)
(* of the queue the rows that are posted.                                   *)

QuietRows ==
  /\ UNCHANGED <<batch, plan, tx, journal>>
  /\ \A s \in Sales :
       \/ queue'[s] = queue[s]
       \/ /\ queue[s].status # "posted"
          /\ queue'[s] \in QueueRows /\ queue'[s].status # "posted"
          /\ queue'[s].batch = NoBatch

LEMMA QuietRowsKeep ==
  ASSUME PostingInv, QuietRows
  PROVE  /\ QueueInv' /\ BatchInv' /\ TransactionInv'
         /\ PostedSales' = PostedSales
<1>1. LooseRows'
  BY DEF PostingInv, QueueInv, LooseRows, QuietRows
<1>2. PostedRows'
  BY DEF PostingInv, QueueInv, PostedRows, QuietRows
<1>3. BatchedRows'
  <2> SUFFICES ASSUME NEW b \in Batches, batch[b].status = "posted", NEW s \in batch[b].rows
               PROVE  queue'[s].status = "posted" /\ queue'[s].batch = b
    BY DEF BatchedRows, QuietRows
  <2>1. s \in Sales
    BY DEF PostingInv, TypeOK, BatchRows, NoRow
  <2>2. queue[s].status = "posted" /\ queue[s].batch = b
    BY DEF PostingInv, QueueInv, BatchedRows
  <2> QED BY <2>1, <2>2 DEF QuietRows
<1>4. BatchInv'
  BY DEF PostingInv, BatchInv, Journaled, OwnJournal, IsStatus, QuietRows
<1>5. TransactionInv'
  BY DEF PostingInv, TransactionInv, TxKnows, OneReverses, Reversing, IsStatus, QuietRows
<1>6. PostedSales' = PostedSales
  BY DEF PostedSales, QuietRows
<1> QED BY <1>1, <1>2, <1>3, <1>4, <1>5, <1>6 DEF QueueInv

-----------------------------------------------------------------------------
(* Types.                                                                   *)

LEMMA SaleRestated ==
  ASSUME NEW q \in SaleRows, NEW st \in SaleStates
  PROVE  LET r == [q EXCEPT !.state = st] IN r \in SaleRows /\ r.state = st
BY DEF SaleRows

\* Whatever undoes a sale leaves it well typed and on record.
LEMMA ReversalTyped ==
  ASSUME TypeOKSales, NEW s \in Sales, Reversal(s)
  PROVE  /\ TypeOKSales'
         /\ \A t \in Sales : sale'[t].state = "none" => t # s /\ sale[t].state = "none"
<1>1. PICK r \in SaleRows : /\ sale' = [sale EXCEPT ![s] = r] /\ r.state # "none"
                            /\ Restock(s)
  <2>1. sale[s] \in SaleRows
    BY DEF TypeOKSales
  <2>2. ASSUME NEW drop \in BOOLEAN, Void(s, drop)
        PROVE  \E r \in SaleRows : /\ sale' = [sale EXCEPT ![s] = r] /\ r.state # "none"
                                   /\ Restock(s)
    <3> DEFINE st == IF drop THEN "gone" ELSE "voided"
               r == [sale[s] EXCEPT !.state = st]
    <3>1. st \in SaleStates /\ st # "none"
      BY DEF SaleStates
    <3>2. sale' = [sale EXCEPT ![s] = r]
      BY <2>2 DEF Void
    <3>3. r \in SaleRows /\ r.state # "none"
      <4> HIDE DEF st
      <4> QED BY <2>1, <3>1, SaleRestated
    <3> QED BY <2>2, <3>2, <3>3 DEF Void
  <2>3. CASE Return(s)
    <3> DEFINE r == [sale[s] EXCEPT !.credited = TRUE]
    <3>1. r \in SaleRows /\ r.state # "none"
      BY <2>1, <2>3 DEF SaleRows, SaleStates, Return
    <3>2. sale' = [sale EXCEPT ![s] = r]
      BY <2>3 DEF Return
    <3> QED BY <2>3, <3>1, <3>2 DEF Return
  <2>4. CASE DeleteSale(s) \/ BulkDelete(s)
    <3> DEFINE r == [sale[s] EXCEPT !.state = "gone"]
    <3>1. r \in SaleRows /\ r.state # "none"
      BY <2>1, SaleRestated DEF SaleStates
    <3>2. sale' = [sale EXCEPT ![s] = r]
      BY <2>4 DEF DeleteSale, BulkDelete
    <3> QED BY <2>4, <3>1, <3>2 DEF DeleteSale, BulkDelete
  <2> QED BY <2>2, <2>3, <2>4 DEF Reversal
<1>2. shelf' \in [Sales -> Int]
  BY <1>1 DEF Restock, TypeOKSales
<1> QED BY <1>1, <1>2 DEF TypeOKSales

LEMMA SellTyped ==
  ASSUME TypeOKSales, NEW s \in Sales, Sell(s)
  PROVE  /\ TypeOKSales'
         /\ \A t \in Sales : sale'[t].state = "none" => t # s /\ sale[t].state = "none"
<1> DEFINE r == [sale[s] EXCEPT !.state = "live"]
<1>1. sale[s] \in SaleRows
  BY DEF TypeOKSales
<1>2. r \in SaleRows /\ r.state # "none"
  BY <1>1, SaleRestated DEF SaleStates
<1>3. sale' = [sale EXCEPT ![s] = r]
  BY DEF Sell
<1>4. shelf' \in [Sales -> Int]
  BY DEF Sell, TypeOKSales
<1> HIDE DEF r
<1> QED BY <1>2, <1>3, <1>4 DEF TypeOKSales

-----------------------------------------------------------------------------
(* Capture, cancellation and the end of a period.                           *)

LEMMA CheckoutStep ==
  ASSUME PostingInv, NEW s \in Sales, NEW d \in Days, Checkout(s, d)
  PROVE  TypeOK' /\ Captured' /\ QuietRows
<1> DEFINE r == [status |-> "pending", day |-> d, batch |-> NoBatch]
<1>1. /\ queue' = [queue EXCEPT ![s] = r] /\ Sell(s)
      /\ UNCHANGED <<ledgerVars, batch, plan, bypassed>>
  BY DEF Checkout
<1>2. r \in QueueRows /\ r.status = "pending" /\ r.batch = NoBatch
  BY DEF QueueRows, QueueStatuses
<1>3. queue[s] = NoRow
  BY <1>1 DEF PostingInv, Captured, Sell
<1> HIDE DEF r
<1>4. TypeOKSales' /\ \A t \in Sales : sale'[t].state = "none" => t # s /\ sale[t].state = "none"
  BY <1>1, SellTyped DEF PostingInv, TypeOK
<1>5. TypeOKLedger'
  BY <1>1 DEF PostingInv, TypeOK, TypeOKLedger, ledgerVars
<1>6. queue' \in [Sales -> QueueRows \cup {NoRow}]
  BY <1>1, <1>2 DEF PostingInv, TypeOK
<1>7. TypeOK'
  BY <1>1, <1>4, <1>5, <1>6 DEF PostingInv, TypeOK
<1>8. Captured'
  BY <1>1, <1>4 DEF PostingInv, TypeOK, Captured
<1>9. QuietRows
  BY <1>1, <1>2, <1>3 DEF PostingInv, TypeOK, QuietRows, NoRow, ledgerVars
<1> QED BY <1>7, <1>8, <1>9

LEMMA RowRestated ==
  ASSUME NEW q \in QueueRows, NEW st \in QueueStatuses
  PROVE  LET r == [q EXCEPT !.status = st]
         IN r \in QueueRows /\ r.status = st /\ r.day = q.day /\ r.batch = q.batch
BY DEF QueueRows

LEMMA ReverseSaleStep ==
  ASSUME PostingInv, NEW s \in Sales, ReverseSale(s)
  PROVE  TypeOK' /\ Captured' /\ QuietRows
<1> DEFINE r == [queue[s] EXCEPT !.status = "cancelled"]
<1>1. /\ queue' = [queue EXCEPT ![s] = r] /\ Reversal(s)
      /\ queue[s].status \in {"pending", "cancelled"}
      /\ UNCHANGED <<ledgerVars, batch, plan, bypassed>>
  BY DEF ReverseSale
<1>2. queue[s] # NoRow /\ queue[s] \in QueueRows
  BY <1>1 DEF PostingInv, TypeOK, NoRow
<1>a. queue[s].batch = NoBatch
  BY <1>1, <1>2 DEF PostingInv, QueueInv, LooseRows
<1>3. r \in QueueRows /\ r.status = "cancelled" /\ r.batch = NoBatch
  BY <1>2, <1>a, RowRestated DEF QueueStatuses
<1> HIDE DEF r
<1>4. TypeOKSales' /\ \A t \in Sales : sale'[t].state = "none" => t # s /\ sale[t].state = "none"
  BY <1>1, ReversalTyped DEF PostingInv, TypeOK
<1>5. TypeOKLedger'
  BY <1>1 DEF PostingInv, TypeOK, TypeOKLedger, ledgerVars
<1>6. queue' \in [Sales -> QueueRows \cup {NoRow}]
  BY <1>1, <1>3 DEF PostingInv, TypeOK
<1>7. TypeOK'
  BY <1>1, <1>4, <1>5, <1>6 DEF PostingInv, TypeOK
<1>8. Captured'
  BY <1>1, <1>4 DEF PostingInv, TypeOK, Captured
<1>9. QuietRows
  BY <1>1, <1>3 DEF PostingInv, TypeOK, QuietRows, ledgerVars
<1> QED BY <1>7, <1>8, <1>9

-----------------------------------------------------------------------------
\* What a sweep does to a row: a pending one of a closing month is stranded, a
\* stranded one of an opening month pending again, and nothing else changes.
SweptRow(s, m, to) ==
  \/ /\ queue'[s] = queue[s]
     /\ to = "closed" => s \notin Unposted(m)
     /\ to = "open" => s \notin Stranded(m)
  \/ /\ to = "closed" /\ s \in Unposted(m)
     /\ queue'[s] \in QueueRows /\ queue'[s].status = "stranded"
     /\ queue'[s].day = queue[s].day /\ queue'[s].batch = NoBatch
  \/ /\ to = "open" /\ s \in Stranded(m)
     /\ queue'[s] \in QueueRows /\ queue'[s].status = "pending"
     /\ queue'[s].day = queue[s].day /\ queue'[s].batch = NoBatch

LEMMA SweptEffect ==
  ASSUME PostingInv, NEW m, NEW to, NEW forced, Swept(m, to, forced)
  PROVE  /\ queue' \in [Sales -> QueueRows \cup {NoRow}]
         /\ \A s \in Sales : SweptRow(s, m, to)
<1>1. ASSUME NEW s \in Sales PROVE SweptRow(s, m, to)
  <2>0. queue'[s] = IF s \in Unposted(m) /\ to = "closed"
                      THEN [queue[s] EXCEPT !.status = "stranded"]
                    ELSE IF s \in Stranded(m) /\ to = "open"
                      THEN [queue[s] EXCEPT !.status = "pending"]
                    ELSE queue[s]
    BY DEF Swept
  <2>1. s \in Unposted(m) \/ s \in Stranded(m) =>
          queue[s] \in QueueRows /\ queue[s].batch = NoBatch
    <3>1. s \in Unposted(m) \/ s \in Stranded(m) => queue[s].status \in {"pending", "stranded"}
      BY DEF Unposted, Stranded, PendingOn, RowsIn
    <3>2. queue[s].status \in {"pending", "stranded"} =>
            queue[s] \in QueueRows /\ queue[s].batch = NoBatch
      BY DEF PostingInv, TypeOK, QueueInv, LooseRows, NoRow
    <3> QED BY <3>1, <3>2
  <2>2. CASE to = "closed" /\ s \in Unposted(m)
    <3> DEFINE r == [queue[s] EXCEPT !.status = "stranded"]
    <3>1. queue'[s] = r
      BY <2>0, <2>2
    <3>2. /\ r \in QueueRows /\ r.status = "stranded"
          /\ r.day = queue[s].day /\ r.batch = NoBatch
      BY <2>1, <2>2, RowRestated DEF QueueStatuses
    <3> HIDE DEF r
    <3> QED BY <2>2, <3>1, <3>2 DEF SweptRow
  <2>3. CASE to = "open" /\ s \in Stranded(m)
    <3> DEFINE r == [queue[s] EXCEPT !.status = "pending"]
    <3>1. queue'[s] = r
      BY <2>0, <2>3
    <3>2. /\ r \in QueueRows /\ r.status = "pending"
          /\ r.day = queue[s].day /\ r.batch = NoBatch
      BY <2>1, <2>3, RowRestated DEF QueueStatuses
    <3> HIDE DEF r
    <3> QED BY <2>3, <3>1, <3>2 DEF SweptRow
  <2>4. CASE ~(to = "closed" /\ s \in Unposted(m)) /\ ~(to = "open" /\ s \in Stranded(m))
    BY <2>0, <2>4 DEF SweptRow
  <2> QED BY <2>2, <2>3, <2>4
<1>2. \A s \in Sales : queue'[s] \in QueueRows \cup {NoRow}
  BY <1>1 DEF SweptRow, PostingInv, TypeOK
<1>3. DOMAIN queue' = Sales /\ queue' = [s \in Sales |-> queue'[s]]
  BY DEF Swept
<1> QED BY <1>1, <1>2, <1>3

\* What the two endpoints that ask the queue do when they set a month.
Sets(m, to) ==
  /\ period' = [period EXCEPT ![m] = to]
  /\ UNCHANGED <<batch, bypassed>>
  /\ \/ \A s \in Sales : SweptRow(s, m, to)
     \/ queue' = queue /\ to = "closed" /\ period[m] = "closed"

LEMMA PeriodEndEffect ==
  ASSUME PostingInv, NEW u \in Users, NEW m \in Months, NEW to \in PeriodStatuses,
         NEW forced \in BOOLEAN,
         ClosePeriod(u, m, to, forced) \/ LegacyClosePeriod(u, m, to, forced)
  PROVE  TypeOK' /\ Captured' /\ QuietRows /\ Sets(m, to)
<1>1. /\ period' = [period EXCEPT ![m] = to]
      /\ closing' \in SUBSET Months
      /\ UNCHANGED <<saleVars, journal, balance, tx, repair, batch, plan, bypassed>>
  BY DEF ClosePeriod, LegacyClosePeriod, Transition, LegacySet, SetPeriod,
     PostingInv, TypeOK, TypeOKLedger
<1>2. \/ \E f \in BOOLEAN : Swept(m, to, f)
      \/ queue' = queue /\ to = "closed" /\ period[m] = "closed"
  BY DEF ClosePeriod, LegacyClosePeriod
<1>3. /\ queue' \in [Sales -> QueueRows \cup {NoRow}]
      /\ \/ \A s \in Sales : SweptRow(s, m, to)
         \/ queue' = queue /\ to = "closed" /\ period[m] = "closed"
  BY <1>2, SweptEffect DEF PostingInv, TypeOK
<1>4. Sets(m, to)
  BY <1>1, <1>3 DEF Sets
<1>5. TypeOKLedger'
  BY <1>1 DEF PostingInv, TypeOK, TypeOKLedger
<1>6. TypeOK'
  BY <1>1, <1>3, <1>5 DEF PostingInv, TypeOK, TypeOKSales, saleVars
<1>7. \A s \in Sales :
        \/ queue'[s] = queue[s]
        \/ /\ queue[s].status \in {"pending", "stranded"}
           /\ queue'[s] \in QueueRows /\ queue'[s].status # "posted"
           /\ queue'[s].batch = NoBatch
  BY <1>3 DEF SweptRow, Unposted, Stranded, PendingOn, RowsIn
<1>8. Captured'
  BY <1>1, <1>7 DEF PostingInv, Captured, NoRow, saleVars
<1>9. QuietRows
  BY <1>1, <1>7 DEF QuietRows
<1> QED BY <1>4, <1>6, <1>8, <1>9

LEMMA BypassEffect ==
  ASSUME PostingInv, NEW m \in Months, Bypass(m)
  PROVE  TypeOK' /\ Captured' /\ QuietRows
<1>1. /\ period' \in [Months -> PeriodStatuses]
      /\ bypassed' \subseteq Months
      /\ UNCHANGED <<saleVars, journal, balance, closing, tx, repair, queue, batch, plan>>
  BY DEF Bypass, CloseYear, CoreSet, PostingInv, TypeOK, TypeOKLedger, PeriodStatuses
<1>2. TypeOKLedger'
  BY <1>1 DEF PostingInv, TypeOK, TypeOKLedger
<1>3. TypeOK'
  BY <1>1, <1>2 DEF PostingInv, TypeOK, TypeOKSales, saleVars
<1>4. Captured' /\ QuietRows
  BY <1>1 DEF PostingInv, Captured, QuietRows, saleVars
<1> QED BY <1>3, <1>4

LEMMA ClosingLostEffect ==
  ASSUME PostingInv, NEW m \in Months, ClosingLost(m), UNCHANGED <<saleVars, queueVars>>
  PROVE  TypeOK' /\ Captured' /\ QuietRows
<1>1. /\ closing' \in SUBSET Months
      /\ UNCHANGED <<saleVars, journal, balance, period, tx, repair, queue, batch, plan, bypassed>>
  BY DEF ClosingLost, PostingInv, TypeOK, TypeOKLedger, queueVars
<1>2. TypeOKLedger'
  BY <1>1 DEF PostingInv, TypeOK, TypeOKLedger
<1>3. TypeOK'
  BY <1>1, <1>2 DEF PostingInv, TypeOK, TypeOKSales, saleVars
<1>4. Captured' /\ QuietRows
  BY <1>1 DEF PostingInv, Captured, QuietRows, saleVars
<1> QED BY <1>3, <1>4

-----------------------------------------------------------------------------
(* Transactions that begin, or end without a trace.                         *)

\* Only the transaction of one user changes, and it holds what nobody held.
OnlyTx(u) ==
  /\ UNCHANGED <<saleVars, journal, balance, period, closing, repair, queue, batch, bypassed>>
  /\ tx' \in [Users -> Txs \cup {Idle}] /\ plan' \in [Users -> Plans]
  /\ \A v \in Users \ {u} : tx'[v] = tx[v] /\ plan'[v] = plan[v]

LEMMA OnlyTxKeeps ==
  ASSUME PostingInv, NEW u \in Users, OnlyTx(u), TxKnows(u)',
         Reversing(u)' => \A v \in Users \ {u} :
                            Reversing(v) => tx[v].journal # tx'[u].journal
  PROVE  PostingInv' /\ PostedSales' = PostedSales
<1>1. TypeOKLedger'
  BY DEF OnlyTx, PostingInv, TypeOK, TypeOKLedger
<1>2. TypeOK'
  BY <1>1 DEF OnlyTx, PostingInv, TypeOK, TypeOKSales, saleVars
<1>3. Captured' /\ QueueInv'
  BY DEF OnlyTx, PostingInv, Captured, QueueInv, LooseRows, PostedRows, BatchedRows, saleVars
<1>4. BatchInv'
  BY DEF OnlyTx, PostingInv, BatchInv, Journaled, OwnJournal, IsStatus
<1>5. \A v \in Users : TxKnows(v)'
  <2>1. ASSUME NEW v \in Users \ {u} PROVE TxKnows(v)'
    BY DEF OnlyTx, PostingInv, TransactionInv, TxKnows, IsStatus
  <2> QED BY <2>1
<1>6. OneReverses'
  BY DEF OnlyTx, PostingInv, TransactionInv, OneReverses, Reversing
<1>7. PostedSales' = PostedSales
  BY DEF OnlyTx, PostedSales
<1> QED BY <1>2, <1>3, <1>4, <1>5, <1>6, <1>7 DEF PostingInv, TransactionInv

LEMMA PlanBatchStep ==
  ASSUME PostingInv, NEW u \in Users, NEW D \in Buckets, PlanBatch(u, D)
  PROVE  PostingInv' /\ PostedSales' = PostedSales
<1> DEFINE rows == PendingOn(D)
<1>1. rows \in SUBSET Sales
  BY DEF PendingOn, RowsIn
<1>2. Total(rows) \in Int
  BY <1>1, TotalSpread
<1>3. \A d \in D : MonthOf[d] \in Months
  BY PostingAssumption DEF Buckets, DaysOf
<1>4. PICK m \in Months : tx' = [tx EXCEPT ![u] = Tx("batch", NoJournal, Total(rows), m)]
  BY <1>3 DEF PlanBatch
<1> DEFINE t == Tx("batch", NoJournal, Total(rows), m)
           p == [plan[u] EXCEPT !.rows = rows]
<1>5. t \in Txs /\ t.op = "batch" /\ t.amount = Total(rows)
  BY <1>2, TxType DEF Ops
<1>6. p \in Plans /\ p.rows = rows
  <2>1. plan[u] \in Plans
    BY DEF PostingInv, TypeOK
  <2> HIDE DEF rows
  <2> QED BY <1>1, <2>1 DEF Plans
<1>7. plan' = [plan EXCEPT ![u] = p]
  BY DEF PlanBatch
<1>8. UNCHANGED <<saleVars, journal, balance, period, closing, repair, queue, batch, bypassed>>
  BY DEF PlanBatch
<1> HIDE DEF rows, t, p
<1>9. tx' = [tx EXCEPT ![u] = t]
  BY <1>4 DEF t
<1>10. OnlyTx(u) /\ tx'[u] = t /\ plan'[u] = p
  BY <1>5, <1>6, <1>7, <1>8, <1>9 DEF OnlyTx, PostingInv, TypeOK, TypeOKLedger
<1>11. TxKnows(u)' /\ ~Reversing(u)'
  BY <1>5, <1>6, <1>10 DEF TxKnows, Reversing
<1> QED BY <1>10, <1>11, OnlyTxKeeps

LEMMA AbandonStep ==
  ASSUME PostingInv, NEW u \in Users,
         AbandonTx(u) \/ (Abort(u) /\ UNCHANGED <<saleVars, queueVars>>)
  PROVE  PostingInv' /\ PostedSales' = PostedSales
<1>1. NoPlan \in Plans /\ plan[u] \in Plans
  BY DEF NoPlan, Plans, PostingInv, TypeOK
<1>2. /\ tx' = [tx EXCEPT ![u] = Idle]
      /\ plan' \in [Users -> Plans] /\ \A v \in Users \ {u} : plan'[v] = plan[v]
      /\ UNCHANGED <<saleVars, journal, balance, period, closing, repair, queue, batch, bypassed>>
  BY <1>1 DEF AbandonTx, Release, Abort, queueVars, PostingInv, TypeOK
<1>3. OnlyTx(u) /\ tx'[u] = Idle
  BY <1>2 DEF OnlyTx, PostingInv, TypeOK, TypeOKLedger
<1>4. TxKnows(u)' /\ ~Reversing(u)'
  BY <1>3 DEF TxKnows, Reversing, Idle
<1> QED BY <1>3, <1>4, OnlyTxKeeps

LEMMA BeginUnbatchStep ==
  ASSUME PostingInv, NEW u \in Users, NEW b \in Batches, BeginUnbatch(u, b)
  PROVE  PostingInv' /\ PostedSales' = PostedSales
<1> DEFINE j == batch[b].journal
           t == Tx("unbatch", j, -journal[j].amount, batch[b].month)
           p == [plan[u] EXCEPT !.batch = b]
<1>1. /\ batch[b].status = "posted" /\ ~Held(j) /\ journal[j].reversedBy = NoJournal
      /\ tx' = [tx EXCEPT ![u] = t] /\ plan' = [plan EXCEPT ![u] = p]
      /\ UNCHANGED <<saleVars, journal, balance, period, closing, repair, queue, batch, bypassed>>
  BY DEF BeginUnbatch
<1>2. j \in Journals /\ batch[b].month \in Months
  BY <1>1 DEF PostingInv, TypeOK, BatchRows, NoRow
<1>3. journal[j].amount \in Int
  <2>1. IsStatus(j, {"posted"})
    BY <1>1 DEF PostingInv, BatchInv, Journaled
  <2>2. journal[j] \in Rows
    BY <1>2, <2>1, Rowed DEF PostingInv, TypeOK, IsStatus
  <2> QED BY <2>2 DEF Rows
<1>4. /\ t \in Txs /\ t.op = "unbatch" /\ t.journal = j /\ t.amount = -journal[j].amount
  <2> HIDE DEF j
  <2>1. -journal[j].amount \in Int
    BY <1>3
  <2> QED BY <1>2, <2>1, TxType DEF Ops
<1>5. p \in Plans /\ p.batch = b
  <2>1. plan[u] \in Plans
    BY DEF PostingInv, TypeOK
  <2> QED BY <2>1 DEF Plans
<1> HIDE DEF t, p
<1>6. OnlyTx(u) /\ tx'[u] = t /\ plan'[u] = p
  BY <1>1, <1>4, <1>5 DEF OnlyTx, PostingInv, TypeOK, TypeOKLedger
<1>7. TxKnows(u)'
  BY <1>1, <1>4, <1>5, <1>6 DEF TxKnows
<1>8. \A v \in Users : Reversing(v) => tx[v].journal # tx'[u].journal
  BY <1>1, <1>4, <1>6 DEF Reversing, Held
<1> QED BY <1>6, <1>7, <1>8, OnlyTxKeeps

LEMMA BeginReverseScreenStep ==
  ASSUME PostingInv, NEW u \in Users, NEW j \in Journals, NEW today \in Months,
         BeginReverse(u, j, today), UNCHANGED <<saleVars, queueVars>>
  PROVE  PostingInv' /\ PostedSales' = PostedSales
<1> DEFINE t == Tx("reverse", j, -journal[j].amount, today)
<1>1. /\ ~Held(j) /\ IsStatus(j, {"posted"}) /\ tx' = [tx EXCEPT ![u] = t]
      /\ UNCHANGED <<saleVars, journal, balance, period, closing, repair, queue, batch, plan, bypassed>>
  BY DEF BeginReverse, queueVars
<1>2. journal[j].amount \in Int
  BY <1>1, Rowed DEF PostingInv, TypeOK, IsStatus, Rows
<1>3. t \in Txs /\ t.op = "reverse" /\ t.journal = j /\ t.amount = -journal[j].amount
  <2>1. -journal[j].amount \in Int
    BY <1>2
  <2> QED BY <2>1, TxType DEF Ops
<1> HIDE DEF t
<1>4. OnlyTx(u) /\ tx'[u] = t
  BY <1>1, <1>3 DEF OnlyTx, PostingInv, TypeOK, TypeOKLedger
<1>5. TxKnows(u)'
  BY <1>1, <1>3, <1>4 DEF TxKnows, IsStatus
<1>6. \A v \in Users : Reversing(v) => tx[v].journal # tx'[u].journal
  BY <1>1, <1>3, <1>4 DEF Reversing, Held
<1> QED BY <1>4, <1>5, <1>6, OnlyTxKeeps

-----------------------------------------------------------------------------
(* What commits do to the journals.                                         *)

\* No posted journal but x, which gets reversed, is any different afterwards.
PostedStay(x) ==
  \A j \in Journals : IsStatus(j, {"posted"}) =>
    /\ journal'[j].status = "posted" /\ journal'[j].amount = journal[j].amount
    /\ journal[j].reversedBy # NoJournal => journal'[j].reversedBy # NoJournal
    /\ j # x => journal'[j].reversedBy = journal[j].reversedBy

\* What the total of the batches is made of.
Takings == {"document", "undo"}

\* One row is new, and nothing of the others counts differently.
Enters(f, r) ==
  /\ f \in Journals /\ IsStatus(f, {"none"})
  /\ r \in Rows /\ r.status = "posted" /\ journal'[f] = r
  /\ \A k \in Journals \ {f} :
       /\ journal'[k].status = journal[k].status
       /\ ~IsStatus(k, {"none"}) =>
            /\ journal'[k].kind = journal[k].kind /\ journal'[k].month = journal[k].month
            /\ journal'[k].amount = journal[k].amount

LEMMA EntersMovesTotal ==
  ASSUME TypeOKLedger, TypeOKLedger', NEW f, NEW r, Enters(f, r), r.kind \in Takings
  PROVE  PostedTotal(Takings, Months)' = PostedTotal(Takings, Months) + r.amount
<1> DEFINE K == Takings
<1>1. f \in Journals /\ \A j \in Journals \ {f} : Share(K, Months)'[j] = Share(K, Months)[j]
  BY DEF Enters, Share, IsStatus
<1>2. Share(K, Months)[f] = 0
  BY <1>1 DEF Share, Enters, IsStatus
<1>3. Share(K, Months)'[f] = r.amount
  BY <1>1 DEF Share, Enters, IsStatus, Rows
<1>4. r.amount \in Int
  BY DEF Enters, Rows
<1> HIDE DEF K
<1>5. PostedTotal(K, Months)' = PostedTotal(K, Months) + Share(K, Months)'[f] - Share(K, Months)[f]
  BY <1>1, TotalMoves
<1>6. PostedTotal(K, Months) \in Int
  BY Shares
<1>7. PostedTotal(K, Months)' = PostedTotal(K, Months) + r.amount
  BY <1>2, <1>3, <1>4, <1>5, <1>6
<1> QED BY <1>7 DEF K

\* What entered stays: without a reversal now there was none before.
LEMMA ReversalsStay ==
  ASSUME NEW f, NEW r, Enters(f, r), \A j \in Journals : ~IsOf(j, {"reversal"})'
  PROVE  \A j \in Journals : ~IsOf(j, {"reversal"})
BY DEF Enters, IsOf, IsStatus

\* The transactions of the others, when one commits.
LEMMA OthersKnow ==
  ASSUME PostingInv, NEW u \in Users, NEW x, PostedStay(x),
         tx' = [tx EXCEPT ![u] = Idle],
         \A v \in Users \ {u} : plan'[v] = plan[v],
         \A v \in Users \ {u} : Reversing(v) => tx[v].journal # x,
         \A v \in Users \ {u} : tx[v].op = "unbatch" =>
           batch'[plan[v].batch] = batch[plan[v].batch]
  PROVE  TransactionInv'
<1>1. tx'[u] = Idle /\ \A v \in Users \ {u} : tx'[v] = tx[v]
  BY DEF PostingInv, TypeOK, TypeOKLedger
<1>2. TxKnows(u)' /\ ~Reversing(u)'
  BY <1>1 DEF TxKnows, Reversing, Idle
<1>3. ASSUME NEW v \in Users \ {u} PROVE TxKnows(v)'
  <2>0. TxKnows(v) /\ tx'[v] = tx[v] /\ plan'[v] = plan[v]
    BY <1>1 DEF PostingInv, TransactionInv
  <2>1. CASE tx[v].op = "unbatch"
    <3> DEFINE b == plan[v].batch
               j == tx[v].journal
    <3>1. /\ b \in Batches /\ batch[b].status = "posted" /\ j = batch[b].journal
          /\ journal[j].reversedBy = NoJournal /\ tx[v].amount = -journal[j].amount
      BY <2>0, <2>1 DEF TxKnows
    <3>2. j \in Journals /\ IsStatus(j, {"posted"}) /\ j # x
      BY <2>1, <3>1 DEF PostingInv, TypeOK, BatchRows, NoRow, BatchInv, Journaled, Reversing
    <3>3. batch'[b] = batch[b]
      BY <2>1
    <3>4. journal'[j].amount = journal[j].amount /\ journal'[j].reversedBy = NoJournal
      BY <3>1, <3>2 DEF PostedStay
    <3> HIDE DEF b, j
    <3>5. tx[v].journal = j /\ plan[v].batch = b
      BY DEF j, b
    <3> QED BY <2>0, <2>1, <3>1, <3>3, <3>4, <3>5 DEF TxKnows
  <2>2. CASE tx[v].op = "reverse"
    BY <2>0, <2>2 DEF TxKnows, PostedStay, IsStatus
  <2>3. CASE tx[v].op \notin {"unbatch", "reverse"}
    BY <2>0, <2>3 DEF TxKnows
  <2> QED BY <2>1, <2>2, <2>3
<1>4. OneReverses'
  BY <1>1, <1>2 DEF PostingInv, TransactionInv, OneReverses, Reversing
<1> QED BY <1>2, <1>3, <1>4 DEF TransactionInv

\* Release, and the types of what it touches.
LEMMA ReleaseTyped ==
  ASSUME PostingInv, NEW u \in Users, Release(u)
  PROVE  /\ tx' = [tx EXCEPT ![u] = Idle] /\ tx' \in [Users -> Txs \cup {Idle}]
         /\ plan' \in [Users -> Plans] /\ \A v \in Users \ {u} : plan'[v] = plan[v]
BY DEF Release, NoPlan, Plans, PostingInv, TypeOK, TypeOKLedger

-----------------------------------------------------------------------------
\* A batch is posted: what it inserts and what it claims.
LEMMA CommitBatchEffect ==
  ASSUME PostingInv, NEW u \in Users, NEW b \in Batches, CommitBatch(u, b),
         NEW rows, rows = plan[u].rows,
         NEW r, r = Row("posted", "document", tx[u].amount, tx[u].month, u, NoJournal)
  PROVE  /\ rows \in SUBSET Sales /\ \A s \in rows : queue[s].status = "pending"
         /\ r.amount = Total(rows) /\ r.kind = "document" /\ r.status = "posted"
         /\ Enters(Fresh, r) /\ PostedStay(NoJournal) /\ TypeOKLedger'
         /\ batch[b].status = "none" /\ batch' \in [Batches -> BatchRows \cup {NoRow}]
         /\ batch'[b].status = "posted" /\ batch'[b].journal = Fresh
         /\ batch'[b].rows = rows /\ \A c \in Batches \ {b} : batch'[c] = batch[c]
         /\ queue' \in [Sales -> QueueRows \cup {NoRow}]
         /\ \A s \in rows : queue'[s].status = "posted" /\ queue'[s].batch = b
                            /\ queue'[s] # NoRow
         /\ \A s \in Sales \ rows : queue'[s] = queue[s]
<1>1. tx[u].op = "batch" /\ tx[u] \in Txs /\ tx[u].amount = Total(rows)
  <2>1. tx[u].op = "batch"
    BY DEF CommitBatch
  <2>2. tx[u] \in Txs
    BY <2>1 DEF PostingInv, TypeOK, TypeOKLedger, Idle
  <2>3. TxKnows(u)
    BY DEF PostingInv, TransactionInv
  <2> QED BY <2>1, <2>2, <2>3 DEF TxKnows
<1>2. tx[u].amount \in Int /\ tx[u].month \in Months
  BY <1>1 DEF Txs
<1>3. /\ r \in Rows /\ r.status = "posted" /\ r.kind = "document"
      /\ r.amount = tx[u].amount /\ r.reversedBy = NoJournal
  BY <1>2, RowType DEF Statuses, Kinds
<1>4. rows \in SUBSET Sales /\ \A s \in rows : queue[s].status = "pending"
  BY DEF CommitBatch, Claimed, PostingInv, TypeOK, Plans
<1>5. Drawable /\ balance' = balance + r.amount /\ journal' = [journal EXCEPT ![Fresh] = r]
  BY DEF CommitBatch, Post
<1>6. Fresh \in Journals /\ IsStatus(Fresh, {"none"})
  BY <1>5, FreshIsNew
<1>7. /\ journal' \in [Journals -> Rows \cup {NoRow0}] /\ journal'[Fresh] = r
      /\ \A j \in Journals \ {Fresh} : journal'[j] = journal[j]
  BY <1>3, <1>5, FreshRow DEF PostingInv, TypeOK
<1>8. Enters(Fresh, r)
  BY <1>3, <1>6, <1>7 DEF Enters
<1>9. PostedStay(NoJournal)
  BY <1>6, <1>7 DEF PostedStay, IsStatus
<1>10. balance' \in Int
  BY <1>1, <1>2, <1>3, <1>5 DEF PostingInv, TypeOK, TypeOKLedger
<1>11. UNCHANGED <<period, closing, repair>> /\ Release(u)
  BY DEF CommitBatch
<1>12. TypeOKLedger'
  BY <1>7, <1>10, <1>11, ReleaseTyped DEF PostingInv, TypeOK, TypeOKLedger, NoRow0
<1> DEFINE e == [status |-> "posted", journal |-> Fresh, month |-> tx[u].month, rows |-> rows]
<1>13. e \in BatchRows /\ e.status = "posted" /\ e.journal = Fresh /\ e.rows = rows
  BY <1>2, <1>4, <1>6 DEF BatchRows
<1>14. batch[b].status = "none" /\ batch' = [batch EXCEPT ![b] = e]
  BY DEF CommitBatch
<1> HIDE DEF e
<1>15. /\ batch' \in [Batches -> BatchRows \cup {NoRow}] /\ batch'[b] = e
       /\ \A c \in Batches \ {b} : batch'[c] = batch[c]
  BY <1>13, <1>14 DEF PostingInv, TypeOK
<1>16. queue' = [s \in Sales |-> IF s \in rows
                   THEN [queue[s] EXCEPT !.status = "posted", !.batch = b] ELSE queue[s]]
  BY DEF CommitBatch
<1>17. ASSUME NEW s \in rows
       PROVE  queue'[s] \in QueueRows /\ queue'[s].status = "posted" /\ queue'[s].batch = b
  <2>1. queue[s] \in QueueRows
    BY <1>4 DEF PostingInv, TypeOK, NoRow
  <2>2. queue'[s] = [queue[s] EXCEPT !.status = "posted", !.batch = b]
    BY <1>4, <1>16
  <2>3. queue'[s] = [status |-> "posted", day |-> queue[s].day, batch |-> b]
    BY <2>1, <2>2 DEF QueueRows
  <2> QED BY <2>1, <2>3 DEF QueueRows, QueueStatuses
<1>18. \A s \in Sales \ rows : queue'[s] = queue[s]
  BY <1>16
<1>19. queue' \in [Sales -> QueueRows \cup {NoRow}]
  <2>1. \A s \in Sales : queue'[s] \in QueueRows \cup {NoRow}
    BY <1>17, <1>18 DEF PostingInv, TypeOK
  <2> QED BY <1>16, <2>1
<1>20. \A s \in rows : queue'[s] # NoRow
  BY <1>17 DEF NoRow
<1> QED BY <1>1, <1>3, <1>4, <1>8, <1>9, <1>12, <1>13, <1>14, <1>15, <1>17, <1>18, <1>19, <1>20

LEMMA CommitBatchStep ==
  ASSUME PostingInv, NEW u \in Users, NEW b \in Batches, CommitBatch(u, b)
  PROVE  PostingInv'
<1> DEFINE rows == plan[u].rows
           r == Row("posted", "document", tx[u].amount, tx[u].month, u, NoJournal)
<1>1. /\ rows \in SUBSET Sales /\ \A s \in rows : queue[s].status = "pending"
      /\ r.amount = Total(rows) /\ r.kind = "document" /\ r.status = "posted"
      /\ Enters(Fresh, r) /\ PostedStay(NoJournal) /\ TypeOKLedger'
      /\ batch[b].status = "none" /\ batch' \in [Batches -> BatchRows \cup {NoRow}]
      /\ batch'[b].status = "posted" /\ batch'[b].journal = Fresh
      /\ batch'[b].rows = rows /\ \A c \in Batches \ {b} : batch'[c] = batch[c]
      /\ queue' \in [Sales -> QueueRows \cup {NoRow}]
      /\ \A s \in rows : queue'[s].status = "posted" /\ queue'[s].batch = b
                         /\ queue'[s] # NoRow
      /\ \A s \in Sales \ rows : queue'[s] = queue[s]
  BY CommitBatchEffect
<1> HIDE DEF rows, r
<1>2. UNCHANGED <<saleVars, period, closing, repair, bypassed>> /\ Release(u)
  BY DEF CommitBatch
<1>3. TypeOK'
  BY <1>1, <1>2, ReleaseTyped DEF PostingInv, TypeOK, TypeOKSales, saleVars
<1>4. Captured'
  <2>1. \A s \in rows : sale[s].state # "none"
    BY <1>1 DEF PostingInv, Captured, NoRow
  <2> QED BY <1>1, <1>2, <2>1 DEF PostingInv, Captured, saleVars
<1>5. LooseRows'
  BY <1>1 DEF PostingInv, QueueInv, LooseRows
<1>6. PostedRows'
  BY <1>1 DEF PostingInv, QueueInv, PostedRows
<1>7. BatchedRows'
  <2> SUFFICES ASSUME NEW c \in Batches, batch'[c].status = "posted", NEW s \in batch'[c].rows
               PROVE  queue'[s].status = "posted" /\ queue'[s].batch = c
    BY DEF BatchedRows
  <2>1. CASE c = b  BY <1>1, <2>1
  <2>2. CASE c # b
    <3>1. batch[c].status = "posted" /\ s \in batch[c].rows
      BY <1>1, <2>2
    <3>2. queue[s].status = "posted" /\ queue[s].batch = c
      BY <3>1 DEF PostingInv, QueueInv, BatchedRows
    <3>3. s \in Sales
      BY <3>1 DEF PostingInv, TypeOK, BatchRows, NoRow
    <3> QED BY <1>1, <3>2, <3>3
  <2> QED BY <2>1, <2>2
<1>8. Journaled'
  <2> SUFFICES ASSUME NEW c \in Batches, batch'[c].status # "none"
               PROVE  LET j == batch'[c].journal IN
                      /\ journal'[j].status = "posted"
                      /\ journal'[j].amount = Total(batch'[c].rows)
                      /\ batch'[c].status = "reversed" => journal'[j].reversedBy # NoJournal
    BY DEF Journaled, IsStatus
  <2>1. CASE c = b  BY <1>1, <2>1 DEF Enters
  <2>2. CASE c # b
    <3>1. batch'[c] = batch[c] /\ batch[c].status # "none"
      BY <1>1, <2>2
    <3>2. batch[c].journal \in Journals
      BY <3>1 DEF PostingInv, TypeOK, BatchRows, NoRow
    <3> QED BY <1>1, <3>1, <3>2 DEF PostingInv, BatchInv, Journaled, PostedStay
  <2> QED BY <2>1, <2>2
<1>9. OwnJournal'
  <2>1. \A c \in Batches \ {b} : batch[c].status # "none" => batch[c].journal # Fresh
    BY <1>1 DEF PostingInv, BatchInv, Journaled, Enters, IsStatus
  <2> QED BY <1>1, <2>1 DEF PostingInv, BatchInv, OwnJournal
<1>10. TransactionInv'
  <2>1. \A v \in Users \ {u} : Reversing(v) => tx[v].journal # NoJournal
    <3> SUFFICES ASSUME NEW v \in Users \ {u}, Reversing(v) PROVE tx[v].journal # NoJournal
      OBVIOUS
    <3>1. TxKnows(v)
      BY DEF PostingInv, TransactionInv
    <3>2. tx[v].journal \in Journals
      BY <3>1 DEF Reversing, TxKnows, PostingInv, TypeOK, BatchRows, NoRow
    <3> QED BY <3>2, LedgerAssumption
  <2>2. \A v \in Users \ {u} : tx[v].op = "unbatch" =>
           batch'[plan[v].batch] = batch[plan[v].batch]
    BY <1>1 DEF PostingInv, TransactionInv, TxKnows
  <2> QED BY <1>1, <1>2, <2>1, <2>2, ReleaseTyped, OthersKnow
<1> QED BY <1>3, <1>4, <1>5, <1>6, <1>7, <1>8, <1>9, <1>10
    DEF PostingInv, QueueInv, BatchInv

-----------------------------------------------------------------------------
\* A journal is reversed by a new row: what this does to the journals.
LEMMA MirrorWrites ==
  ASSUME TypeOKLedger, Drawable, NEW j \in Journals, IsStatus(j, {"posted"}),
         NEW r \in Rows, r.status = "posted",
         journal' = [journal EXCEPT ![Fresh] = r, ![j].reversedBy = Fresh]
  PROVE  /\ Enters(Fresh, r) /\ PostedStay(j)
         /\ journal' \in [Journals -> Rows \cup {NoRow0}]
         /\ journal'[j].reversedBy # NoJournal
<1> DEFINE e == [journal[j] EXCEPT !.reversedBy = Fresh]
<1>1. Fresh \in Journals /\ IsStatus(Fresh, {"none"}) /\ Fresh # j
  BY FreshIsNew DEF IsStatus
<1>2. journal[j] \in Rows
  BY Rowed DEF IsStatus
<1>3. /\ e \in Rows /\ e.status = journal[j].status /\ e.kind = journal[j].kind
      /\ e.amount = journal[j].amount /\ e.month = journal[j].month
      /\ e.reversedBy = Fresh
  BY <1>1, <1>2 DEF Rows
<1>4. journal' = [journal EXCEPT ![Fresh] = r, ![j] = e]
  BY <1>1 DEF TypeOKLedger
<1> HIDE DEF e
<1>5. /\ journal'[Fresh] = r /\ journal'[j] = e
      /\ \A k \in Journals \ {Fresh, j} : journal'[k] = journal[k]
      /\ journal' \in [Journals -> Rows \cup {NoRow0}]
  BY <1>1, <1>3, <1>4 DEF TypeOKLedger, NoRow0
<1>6. Enters(Fresh, r)
  BY <1>1, <1>3, <1>5 DEF Enters
<1>7. PostedStay(j)
  BY <1>1, <1>3, <1>5, LedgerAssumption DEF PostedStay, IsStatus
<1> QED BY <1>1, <1>3, <1>5, <1>6, <1>7, LedgerAssumption

\* A batch is reversed: what it inserts and what it gives back.
LEMMA CommitUnbatchEffect ==
  ASSUME PostingInv, NEW u \in Users, CommitUnbatch(u),
         NEW b, b = plan[u].batch, NEW j, j = tx[u].journal,
         NEW r, r = Row("posted", "undo", tx[u].amount, tx[u].month, u, j)
  PROVE  /\ b \in Batches /\ batch[b].status = "posted" /\ j = batch[b].journal
         /\ r.amount = -Total(batch[b].rows) /\ r.kind = "undo"
         /\ Enters(Fresh, r) /\ PostedStay(j) /\ TypeOKLedger'
         /\ journal'[j].reversedBy # NoJournal
         /\ batch' \in [Batches -> BatchRows \cup {NoRow}]
         /\ batch'[b].status = "reversed" /\ batch'[b].journal = j
         /\ batch'[b].rows = batch[b].rows /\ \A c \in Batches \ {b} : batch'[c] = batch[c]
         /\ queue' \in [Sales -> QueueRows \cup {NoRow}]
         /\ batch[b].rows \in SUBSET Sales
         /\ \A s \in batch[b].rows : queue'[s].status = "pending" /\ queue'[s].batch = NoBatch
                                     /\ queue'[s] # NoRow /\ queue[s].status = "posted"
         /\ \A s \in Sales \ batch[b].rows : queue'[s] = queue[s]
<1> DEFINE rows == batch[b].rows
<1>1. tx[u].op = "unbatch" /\ TxKnows(u)
  BY DEF CommitUnbatch, PostingInv, TransactionInv
<1>2. tx[u] \in Txs
  BY <1>1 DEF PostingInv, TypeOK, TypeOKLedger, Idle
<1>3. /\ b \in Batches /\ batch[b].status = "posted" /\ j = batch[b].journal
      /\ tx[u].amount = -journal[j].amount
  BY <1>1 DEF TxKnows
<1>4. batch[b] \in BatchRows /\ j \in Journals /\ rows \in SUBSET Sales
  BY <1>3 DEF PostingInv, TypeOK, BatchRows, NoRow
<1>5. IsStatus(j, {"posted"}) /\ journal[j].amount = Total(rows)
  BY <1>3 DEF PostingInv, BatchInv, Journaled
<1>6. tx[u].amount \in Int /\ tx[u].month \in Months
  BY <1>2 DEF Txs
<1>7. /\ r \in Rows /\ r.status = "posted" /\ r.kind = "undo" /\ r.amount = tx[u].amount
  BY <1>4, <1>6, RowType DEF Statuses, Kinds
<1>8. /\ Drawable /\ balance' = balance + r.amount
      /\ journal' = [journal EXCEPT ![Fresh] = r, ![j].reversedBy = Fresh]
  BY DEF CommitUnbatch, Post
<1>9. /\ Enters(Fresh, r) /\ PostedStay(j)
      /\ journal' \in [Journals -> Rows \cup {NoRow0}]
      /\ journal'[j].reversedBy # NoJournal
  BY <1>4, <1>5, <1>7, <1>8, MirrorWrites DEF PostingInv, TypeOK
<1>10. UNCHANGED <<period, closing, repair>> /\ Release(u)
  BY DEF CommitUnbatch
<1>11. balance' \in Int
  BY <1>6, <1>7, <1>8 DEF PostingInv, TypeOK, TypeOKLedger
<1>12. TypeOKLedger'
  BY <1>9, <1>10, <1>11, ReleaseTyped DEF PostingInv, TypeOK, TypeOKLedger, NoRow0
<1> DEFINE e == [batch[b] EXCEPT !.status = "reversed"]
<1>13. /\ e \in BatchRows /\ e.status = "reversed" /\ e.journal = j /\ e.rows = rows
  BY <1>3, <1>4 DEF BatchRows
<1>14. batch' = [batch EXCEPT ![b] = e]
  BY DEF CommitUnbatch
<1>15. queue' = [s \in Sales |-> IF queue[s] # NoRow /\ queue[s].batch = b
                   THEN [queue[s] EXCEPT !.status = "pending", !.batch = NoBatch]
                   ELSE queue[s]]
  BY DEF CommitUnbatch
<1> HIDE DEF e
<1>16. /\ batch' \in [Batches -> BatchRows \cup {NoRow}] /\ batch'[b] = e
       /\ \A c \in Batches \ {b} : batch'[c] = batch[c]
  BY <1>3, <1>13, <1>14 DEF PostingInv, TypeOK
<1>17. \A s \in Sales : queue[s] # NoRow /\ queue[s].batch = b <=> s \in rows
  <2>1. \A s \in rows : queue[s].status = "posted" /\ queue[s].batch = b
    BY <1>3 DEF PostingInv, QueueInv, BatchedRows
  <2>2. ASSUME NEW s \in Sales, queue[s] # NoRow, queue[s].batch = b PROVE s \in rows
    <3>1. b # NoBatch
      BY <1>3, PostingAssumption
    <3>2. queue[s].status = "posted"
      BY <2>2, <3>1 DEF PostingInv, QueueInv, LooseRows
    <3> QED BY <2>2, <3>2 DEF PostingInv, QueueInv, PostedRows
  <2>3. \A s \in rows : queue[s] # NoRow
    BY <2>1 DEF NoRow
  <2> HIDE DEF rows
  <2> QED BY <2>1, <2>2, <2>3
<1>18. ASSUME NEW s \in rows
       PROVE  queue'[s] \in QueueRows /\ queue'[s].status = "pending"
              /\ queue'[s].batch = NoBatch /\ queue[s].status = "posted"
  <2>0. s \in Sales /\ queue[s].status = "posted"
    BY <1>3, <1>4 DEF PostingInv, QueueInv, BatchedRows
  <2>1. queue[s] \in QueueRows
    BY <2>0 DEF PostingInv, TypeOK, NoRow
  <2>2. queue'[s] = [queue[s] EXCEPT !.status = "pending", !.batch = NoBatch]
    BY <1>15, <1>17, <2>0
  <2>3. queue'[s] = [status |-> "pending", day |-> queue[s].day, batch |-> NoBatch]
    BY <2>1, <2>2 DEF QueueRows
  <2> QED BY <2>0, <2>1, <2>3 DEF QueueRows, QueueStatuses
<1>19. \A s \in Sales \ rows : queue'[s] = queue[s]
  BY <1>15, <1>17
<1>20. queue' \in [Sales -> QueueRows \cup {NoRow}]
  <2>1. \A s \in Sales : queue'[s] \in QueueRows \cup {NoRow}
    BY <1>18, <1>19 DEF PostingInv, TypeOK
  <2> QED BY <1>15, <2>1
<1>21. \A s \in rows : queue'[s] # NoRow
  BY <1>18 DEF NoRow
<1>22. r.amount = -Total(rows)
  BY <1>3, <1>5, <1>7
<1> QED BY <1>3, <1>4, <1>7, <1>9, <1>12, <1>13, <1>16, <1>18, <1>19, <1>20, <1>21, <1>22

LEMMA CommitUnbatchStep ==
  ASSUME PostingInv, NEW u \in Users, CommitUnbatch(u)
  PROVE  PostingInv'
<1> DEFINE b == plan[u].batch
           j == tx[u].journal
           rows == batch[b].rows
           r == Row("posted", "undo", tx[u].amount, tx[u].month, u, j)
<1>1. /\ b \in Batches /\ batch[b].status = "posted" /\ j = batch[b].journal
      /\ Enters(Fresh, r) /\ PostedStay(j) /\ TypeOKLedger'
      /\ journal'[j].reversedBy # NoJournal
      /\ batch' \in [Batches -> BatchRows \cup {NoRow}]
      /\ batch'[b].status = "reversed" /\ batch'[b].journal = j
      /\ batch'[b].rows = rows /\ \A c \in Batches \ {b} : batch'[c] = batch[c]
      /\ queue' \in [Sales -> QueueRows \cup {NoRow}]
      /\ rows \in SUBSET Sales
      /\ \A s \in rows : queue'[s].status = "pending" /\ queue'[s].batch = NoBatch
                         /\ queue'[s] # NoRow /\ queue[s].status = "posted"
      /\ \A s \in Sales \ rows : queue'[s] = queue[s]
  BY CommitUnbatchEffect
<1>2. UNCHANGED <<saleVars, period, closing, repair, bypassed>> /\ Release(u)
      /\ tx[u].op = "unbatch"
  BY DEF CommitUnbatch
<1> HIDE DEF r
<1>3. TypeOK'
  BY <1>1, <1>2, ReleaseTyped DEF PostingInv, TypeOK, TypeOKSales, saleVars
<1>4. Captured'
  <2>1. \A s \in rows : sale[s].state # "none"
    BY <1>1 DEF PostingInv, Captured, NoRow
  <2> QED BY <1>1, <1>2, <2>1 DEF PostingInv, Captured, saleVars
<1>5. LooseRows'
  BY <1>1 DEF PostingInv, QueueInv, LooseRows
<1>6. PostedRows'
  <2> SUFFICES ASSUME NEW s \in Sales, queue'[s].status = "posted"
               PROVE  /\ queue'[s].batch \in Batches
                      /\ batch'[queue'[s].batch].status = "posted"
                      /\ s \in batch'[queue'[s].batch].rows
    BY DEF PostedRows
  <2>1. s \notin rows /\ queue'[s] = queue[s]
    BY <1>1
  <2>2. /\ queue[s].batch \in Batches /\ batch[queue[s].batch].status = "posted"
        /\ s \in batch[queue[s].batch].rows
    BY <2>1 DEF PostingInv, QueueInv, PostedRows
  <2>3. queue[s].batch # b
    BY <2>1, <2>2
  <2> QED BY <1>1, <2>1, <2>2, <2>3
<1>7. BatchedRows'
  <2> SUFFICES ASSUME NEW c \in Batches, batch'[c].status = "posted", NEW s \in batch'[c].rows
               PROVE  queue'[s].status = "posted" /\ queue'[s].batch = c
    BY DEF BatchedRows
  <2>1. c # b /\ batch'[c] = batch[c]
    BY <1>1
  <2>2. queue[s].status = "posted" /\ queue[s].batch = c
    BY <2>1 DEF PostingInv, QueueInv, BatchedRows
  <2>3. s \in Sales
    BY <2>1 DEF PostingInv, TypeOK, BatchRows, NoRow
  <2>4. s \notin rows
    BY <1>1, <2>1, <2>2 DEF PostingInv, QueueInv, BatchedRows
  <2> QED BY <1>1, <2>2, <2>3, <2>4
<1>8. Journaled'
  <2> SUFFICES ASSUME NEW c \in Batches, batch'[c].status # "none"
               PROVE  LET k == batch'[c].journal IN
                      /\ journal'[k].status = "posted"
                      /\ journal'[k].amount = Total(batch'[c].rows)
                      /\ batch'[c].status = "reversed" => journal'[k].reversedBy # NoJournal
    BY DEF Journaled, IsStatus
  <2>1. /\ batch[c].status # "none" /\ batch'[c].journal = batch[c].journal
        /\ batch'[c].rows = batch[c].rows
        /\ batch'[c].status = "reversed" => c = b \/ batch[c].status = "reversed"
    BY <1>1
  <2> DEFINE k == batch[c].journal
  <2>2. k \in Journals
    BY <2>1 DEF PostingInv, TypeOK, BatchRows, NoRow
  <2>3. /\ IsStatus(k, {"posted"}) /\ journal[k].amount = Total(batch[c].rows)
        /\ batch[c].status = "reversed" => journal[k].reversedBy # NoJournal
    BY <2>1 DEF PostingInv, BatchInv, Journaled
  <2>4. /\ journal'[k].status = "posted" /\ journal'[k].amount = Total(batch[c].rows)
        /\ batch[c].status = "reversed" => journal'[k].reversedBy # NoJournal
    BY <1>1, <2>2, <2>3 DEF PostedStay
  <2>5. c = b => k = j
    BY <1>1
  <2> HIDE DEF k, j
  <2>6. batch'[c].journal = k
    BY <2>1 DEF k
  <2> QED BY <1>1, <2>1, <2>4, <2>5, <2>6
<1>9. OwnJournal'
  BY <1>1 DEF PostingInv, BatchInv, OwnJournal
<1>10. TransactionInv'
  <2>1. \A v \in Users \ {u} : Reversing(v) => tx[v].journal # j
    BY <1>2 DEF PostingInv, TransactionInv, OneReverses, Reversing
  <2>2. \A v \in Users \ {u} : tx[v].op = "unbatch" =>
           batch'[plan[v].batch] = batch[plan[v].batch]
    <3> SUFFICES ASSUME NEW v \in Users \ {u}, tx[v].op = "unbatch"
                 PROVE  batch'[plan[v].batch] = batch[plan[v].batch]
      OBVIOUS
    <3>1. TxKnows(v)
      BY DEF PostingInv, TransactionInv
    <3>2. plan[v].batch \in Batches /\ tx[v].journal = batch[plan[v].batch].journal
      BY <3>1 DEF TxKnows
    <3>3. plan[v].batch # b
      BY <1>1, <2>1, <3>2 DEF Reversing
    <3> QED BY <1>1, <3>2, <3>3
  <2> HIDE DEF j
  <2> QED BY <1>1, <1>2, <2>1, <2>2, ReleaseTyped, OthersKnow
<1> QED BY <1>3, <1>4, <1>5, <1>6, <1>7, <1>8, <1>9, <1>10
    DEF PostingInv, QueueInv, BatchInv

-----------------------------------------------------------------------------
\* The ledger screen reverses a journal, a batch's or any other.
LEMMA ScreenReversalStep ==
  ASSUME PostingInv, NEW u \in Users, CommitReverse(u), UNCHANGED <<saleVars, queueVars>>
  PROVE  PostingInv' /\ \E k \in Journals : IsOf(k, {"reversal"})'
<1> DEFINE j == tx[u].journal
           r == Row("posted", "reversal", tx[u].amount, tx[u].month, u, j)
<1>1. tx[u].op = "reverse" /\ TxKnows(u) /\ Link(u, "reversal")
  BY DEF CommitReverse, PostingInv, TransactionInv
<1>2. tx[u] \in Txs
  BY <1>1 DEF PostingInv, TypeOK, TypeOKLedger, Idle
<1>3. j \in Journals /\ IsStatus(j, {"posted"}) /\ tx[u].amount = -journal[j].amount
  BY <1>1 DEF TxKnows
<1>4. /\ Links(Fresh, r, j) /\ r.kind = "reversal"
      /\ journal' \in [Journals -> Rows \cup {NoRow0}]
      /\ balance' = balance + r.amount
  BY <1>1, <1>2, <1>3, LinkEffect DEF PostingInv, TypeOK
<1> HIDE DEF r
<1>5. UNCHANGED <<saleVars, period, closing, repair, queue, batch, plan, bypassed>>
      /\ tx' = [tx EXCEPT ![u] = Idle]
  BY <1>1 DEF Link, queueVars
<1>6. balance' \in Int /\ tx' \in [Users -> Txs \cup {Idle}]
  BY <1>4, <1>5 DEF Links, Rows, PostingInv, TypeOK, TypeOKLedger
<1>7. TypeOKLedger'
  BY <1>4, <1>5, <1>6 DEF PostingInv, TypeOK, TypeOKLedger, NoRow0
<1>8. TypeOK'
  BY <1>5, <1>7 DEF PostingInv, TypeOK, TypeOKSales, saleVars
<1>9. PostedStay(j)
  BY <1>4, LedgerAssumption DEF PostedStay, Links, Kept, IsStatus
<1>10. Captured' /\ QueueInv'
  BY <1>5 DEF PostingInv, Captured, QueueInv, LooseRows, PostedRows, BatchedRows, saleVars
<1>11. BatchInv'
  <2>1. \A c \in Batches : batch[c].status # "none" => batch[c].journal \in Journals
    BY DEF PostingInv, TypeOK, BatchRows, NoRow
  <2>2. Journaled'
    BY <1>5, <1>9, <2>1 DEF PostingInv, BatchInv, Journaled, PostedStay, IsStatus
  <2> QED BY <1>5, <2>2 DEF PostingInv, BatchInv, OwnJournal
<1>12. TransactionInv'
  <2>1. \A v \in Users \ {u} : Reversing(v) => tx[v].journal # j
    BY <1>1 DEF PostingInv, TransactionInv, OneReverses, Reversing
  <2> HIDE DEF j
  <2> QED BY <1>5, <1>9, <2>1, OthersKnow
<1>13. \E k \in Journals : IsOf(k, {"reversal"})'
  <2>1. PICK k \in Journals : journal'[k] = r
    BY <1>4 DEF Links
  <2>2. journal'[k].status = "posted" /\ journal'[k].kind = "reversal"
    BY <1>4, <2>1 DEF Links
  <2> QED BY <2>2 DEF IsOf, IsStatus
<1> QED BY <1>8, <1>10, <1>11, <1>12, <1>13 DEF PostingInv

-----------------------------------------------------------------------------
(* Revenue and queue.                                                       *)

Untouched == \A j \in Journals : ~IsOf(j, {"reversal"})

\* Nothing but the commits moves the revenue or the posted rows.
LEMMA TiesKept ==
  ASSUME LedgerTiesToQueue, journal' = journal, PostedSales' = PostedSales
  PROVE  LedgerTiesToQueue'
<1>1. PostedTotal({"document", "undo"}, Months)' = PostedTotal({"document", "undo"}, Months)
  BY DEF PostedTotal, IsStatus
<1>2. Untouched' = Untouched
  BY DEF Untouched, IsOf, IsStatus
<1> QED BY <1>1, <1>2 DEF LedgerTiesToQueue, PostedSales, Untouched

LEMMA CommitBatchTies ==
  ASSUME PostingInv, LedgerTiesToQueue, NEW u \in Users, NEW b \in Batches, CommitBatch(u, b)
  PROVE  LedgerTiesToQueue'
<1> DEFINE rows == plan[u].rows
           r == Row("posted", "document", tx[u].amount, tx[u].month, u, NoJournal)
<1>1. /\ rows \in SUBSET Sales /\ \A s \in rows : queue[s].status = "pending"
      /\ r.amount = Total(rows) /\ r.kind = "document"
      /\ Enters(Fresh, r) /\ TypeOKLedger'
      /\ \A s \in rows : queue'[s].status = "posted"
      /\ \A s \in Sales \ rows : queue'[s] = queue[s]
  BY CommitBatchEffect
<1> HIDE DEF rows, r
<1>2. PostedSales' = PostedSales \cup rows /\ PostedSales \cap rows = {}
  BY <1>1 DEF PostedSales
<1>3. PostedSales \in SUBSET Sales
  BY DEF PostedSales
<1>4. Total(PostedSales') = Total(PostedSales) + Total(rows)
  BY <1>1, <1>2, <1>3, TotalJoin
<1>5. PostedTotal(Takings, Months)' = PostedTotal(Takings, Months) + Total(rows)
  BY <1>1, EntersMovesTotal DEF PostingInv, TypeOK, Takings
<1>6. Untouched' => Untouched
  BY <1>1, ReversalsStay DEF Untouched
<1>7. Untouched => PostedTotal(Takings, Months) = Total(PostedSales)
  BY DEF LedgerTiesToQueue, Untouched, Takings, PostedSales
<1>8. Untouched' => PostedTotal(Takings, Months)' = Total(PostedSales')
  BY <1>4, <1>5, <1>6, <1>7
<1> QED BY <1>8 DEF LedgerTiesToQueue, Untouched, Takings, PostedSales

LEMMA CommitUnbatchTies ==
  ASSUME PostingInv, LedgerTiesToQueue, NEW u \in Users, CommitUnbatch(u)
  PROVE  LedgerTiesToQueue'
<1> DEFINE b == plan[u].batch
           j == tx[u].journal
           rows == batch[b].rows
           r == Row("posted", "undo", tx[u].amount, tx[u].month, u, j)
<1>1. /\ rows \in SUBSET Sales /\ r.amount = -Total(rows) /\ r.kind = "undo"
      /\ Enters(Fresh, r) /\ TypeOKLedger'
      /\ \A s \in rows : queue'[s].status = "pending" /\ queue[s].status = "posted"
      /\ \A s \in Sales \ rows : queue'[s] = queue[s]
  BY CommitUnbatchEffect
<1> HIDE DEF rows, r
<1>2. PostedSales = PostedSales' \cup rows /\ PostedSales' \cap rows = {}
  BY <1>1 DEF PostedSales
<1>3. PostedSales' \in SUBSET Sales
  BY DEF PostedSales
<1>4. Total(PostedSales) = Total(PostedSales') + Total(rows)
  BY <1>1, <1>2, <1>3, TotalJoin
<1>5. PostedTotal(Takings, Months)' = PostedTotal(Takings, Months) + (-Total(rows))
  BY <1>1, EntersMovesTotal DEF PostingInv, TypeOK, Takings
<1>6. Untouched' => Untouched
  BY <1>1, ReversalsStay DEF Untouched
<1>7. Untouched => PostedTotal(Takings, Months) = Total(PostedSales)
  BY DEF LedgerTiesToQueue, Untouched, Takings, PostedSales
<1>8. Total(rows) \in Int /\ Total(PostedSales') \in Int
  BY <1>1, <1>3, TotalSpread
<1>9. Untouched' => PostedTotal(Takings, Months)' = Total(PostedSales')
  BY <1>4, <1>5, <1>6, <1>7, <1>8
<1> QED BY <1>9 DEF LedgerTiesToQueue, Untouched, Takings, PostedSales

-----------------------------------------------------------------------------
(* Periods and the rows of their days.                                      *)

PeriodInv == StrandedOnlyWhileClosed /\ ClosedMonthIsPosted

\* The month of a row that is in the queue.
LEMMA RowsMonth ==
  ASSUME PostingInv, NEW s \in Sales, queue[s].status \in {"pending", "stranded"}
  PROVE  queue[s].day \in Days /\ MonthOf[queue[s].day] \in Months
BY PostingAssumption DEF PostingInv, TypeOK, QueueRows, NoRow

\* Steps that set no month.
Calm ==
  /\ UNCHANGED <<period, bypassed>>
  /\ \A b \in Batches : batch[b].status = "reversed" => batch'[b] = batch[b]
  /\ \A s \in Sales :
       \/ queue'[s] = queue[s]
       \/ queue'[s].status \in {"cancelled", "posted"}
       \/ /\ queue'[s].status = "pending"
          /\ \/ period[MonthOf[queue'[s].day]] = "open"
             \/ \E b \in Batches : batch'[b].status = "reversed" /\ s \in batch'[b].rows

LEMMA CalmKeeps ==
  ASSUME PostingInv, PeriodInv, Calm
  PROVE  PeriodInv'
<1>1. StrandedOnlyWhileClosed'
  BY DEF PeriodInv, StrandedOnlyWhileClosed, Calm
<1>2. ClosedMonthIsPosted'
  <2> SUFFICES ASSUME NEW s \in Sales, queue'[s].status = "pending",
                      period[MonthOf[queue'[s].day]] = "closed"
               PROVE  \/ MonthOf[queue'[s].day] \in bypassed
                      \/ \E b \in Batches : batch'[b].status = "reversed" /\ s \in batch'[b].rows
    BY DEF ClosedMonthIsPosted, Calm
  <2>1. CASE queue'[s] = queue[s]
    <3>1. \/ MonthOf[queue[s].day] \in bypassed
          \/ \E b \in Batches : batch[b].status = "reversed" /\ s \in batch[b].rows
      BY <2>1 DEF PeriodInv, ClosedMonthIsPosted
    <3> QED BY <2>1, <3>1 DEF Calm
  <2>2. CASE queue'[s] # queue[s]
    BY <2>2 DEF Calm
  <2> QED BY <2>1, <2>2
<1> QED BY <1>1, <1>2 DEF PeriodInv

LEMMA SetsKeeps ==
  ASSUME PostingInv, PeriodInv, NEW m \in Months, NEW to \in PeriodStatuses, Sets(m, to)
  PROVE  PeriodInv'
<1>0. /\ period' = [period EXCEPT ![m] = to] /\ period \in [Months -> PeriodStatuses]
      /\ UNCHANGED <<batch, bypassed>>
  BY DEF Sets, PostingInv, TypeOK, TypeOKLedger
<1>a. period'[m] = to /\ \A n \in Months \ {m} : period'[n] = period[n]
  BY <1>0
<1> DEFINE n(s) == MonthOf[queue[s].day]
<1>b. ASSUME NEW s \in Sales, queue[s].status \in {"pending", "stranded"}
      PROVE  /\ n(s) \in Months
             /\ n(s) = m /\ queue[s].status = "pending" => s \in Unposted(m)
             /\ n(s) = m /\ queue[s].status = "stranded" => s \in Stranded(m)
  BY <1>b, RowsMonth DEF Unposted, Stranded, PendingOn, RowsIn, DaysOf
<1>c. ASSUME NEW s \in Unposted(m) \cup Stranded(m) PROVE n(s) = m
  BY DEF Unposted, Stranded, PendingOn, RowsIn, DaysOf
<1>1. ASSUME NEW s \in Sales, queue'[s].status = "stranded"
      PROVE  period'[MonthOf[queue'[s].day]] # "open" \/ MonthOf[queue'[s].day] \in bypassed'
  <2>1. CASE queue'[s] = queue[s]
    <3>1. n(s) \in Months /\ (period[n(s)] # "open" \/ n(s) \in bypassed)
      BY <1>1, <2>1, <1>b DEF PeriodInv, StrandedOnlyWhileClosed
    <3>2. CASE n(s) # m  BY <1>0, <1>a, <2>1, <3>1, <3>2
    <3>3. CASE n(s) = m
      <4>1. s \in Stranded(m)
        BY <1>1, <1>b, <2>1, <3>3
      <4>2. to # "open"
        BY <1>1, <2>1, <4>1 DEF Sets, SweptRow
      <4> QED BY <1>a, <2>1, <3>3, <4>2
    <3> QED BY <3>2, <3>3
  <2>2. CASE queue'[s] # queue[s]
    <3>1. to = "closed" /\ s \in Unposted(m) /\ queue'[s].day = queue[s].day
      BY <1>1, <2>2 DEF Sets, SweptRow
    <3>2. n(s) = m
      BY <3>1, <1>c
    <3> QED BY <1>a, <3>1, <3>2
  <2> QED BY <2>1, <2>2
<1>2. ASSUME NEW s \in Sales, queue'[s].status = "pending",
             period'[MonthOf[queue'[s].day]] = "closed"
      PROVE  \/ MonthOf[queue'[s].day] \in bypassed'
             \/ \E b \in Batches : batch'[b].status = "reversed" /\ s \in batch'[b].rows
  <2>1. CASE queue'[s] = queue[s]
    <3>1. n(s) \in Months /\ queue[s].status = "pending" /\ period'[n(s)] = "closed"
      BY <1>2, <2>1, <1>b
    <3>2. period[n(s)] = "closed"
      <4>1. CASE n(s) # m  BY <1>a, <3>1, <4>1
      <4>2. CASE n(s) = m
        <5>1. s \in Unposted(m) /\ to = "closed"
          BY <1>a, <1>b, <3>1, <4>2
        <5>2. period[m] = "closed"
          BY <2>1, <3>1, <5>1 DEF Sets, SweptRow
        <5> QED BY <4>2, <5>2
      <4> QED BY <4>1, <4>2
    <3>3. \/ n(s) \in bypassed
          \/ \E b \in Batches : batch[b].status = "reversed" /\ s \in batch[b].rows
      BY <3>1, <3>2 DEF PeriodInv, ClosedMonthIsPosted
    <3> QED BY <1>0, <2>1, <3>3
  <2>2. CASE queue'[s] # queue[s]
    <3>1. to = "open" /\ s \in Stranded(m) /\ queue'[s].day = queue[s].day
      BY <1>2, <2>2 DEF Sets, SweptRow
    <3>2. n(s) = m
      BY <3>1, <1>c
    <3> QED BY <1>2, <1>a, <3>1, <3>2
  <2> QED BY <2>1, <2>2
<1> QED BY <1>1, <1>2 DEF PeriodInv, StrandedOnlyWhileClosed, ClosedMonthIsPosted

LEMMA BypassKeeps ==
  ASSUME PostingInv, PeriodInv, NEW m \in Months, Bypass(m)
  PROVE  PeriodInv'
<1>1. /\ UNCHANGED <<queue, batch>> /\ bypassed \subseteq Months
      /\ bypassed' = {n \in Months : n \in bypassed \/ period'[n] # period[n]}
  BY DEF Bypass, PostingInv, TypeOK
<1>2. \A s \in Sales : queue[s].status \in {"pending", "stranded"} =>
        MonthOf[queue[s].day] \in Months
  BY RowsMonth
<1>3. StrandedOnlyWhileClosed'
  BY <1>1, <1>2 DEF PeriodInv, StrandedOnlyWhileClosed
<1>4. ClosedMonthIsPosted'
  BY <1>1, <1>2 DEF PeriodInv, ClosedMonthIsPosted
<1> QED BY <1>3, <1>4 DEF PeriodInv

-----------------------------------------------------------------------------
\* The inductive invariant: the queue, the sums and the months.
IInv == PostingInv /\ LedgerTiesToQueue /\ PeriodInv

LEMMA InitIInv == Init => IInv
<1> SUFFICES ASSUME Init PROVE IInv
  OBVIOUS
<1>1. /\ TypeOKSales /\ \A s \in Sales : queue[s] = NoRow /\ queue[s].status = "none"
      /\ \A b \in Batches : batch[b] = NoRow /\ batch[b].status = "none"
      /\ \A u \in Users : tx[u] = Idle /\ plan[u] = NoPlan
      /\ \A j \in Journals : IsStatus(j, {"none"})
  BY DEF Init, InitSales, InitLedger, TypeOKSales, SaleRows, SaleStates, NoRow, IsStatus
<1>2. TypeOKLedger
  BY LedgerAssumption DEF Init, InitLedger, TypeOKLedger, PeriodStatuses, Rests
<1>3. TypeOK
  <2>1. NoPlan \in Plans
    BY DEF NoPlan, Plans
  <2> QED BY <1>1, <1>2, <2>1 DEF Init, TypeOK
<1>4. Captured /\ QueueInv
  BY <1>1 DEF Captured, QueueInv, LooseRows, PostedRows, BatchedRows
<1>5. BatchInv
  BY <1>1 DEF BatchInv, Journaled, OwnJournal
<1>6. TransactionInv
  BY <1>1 DEF TransactionInv, TxKnows, OneReverses, Reversing, Idle
<1>7. LedgerTiesToQueue
  <2>1. PostedSales = {} /\ {} \in SUBSET Sales
    BY <1>1 DEF PostedSales
  <2>2. Total({}) = 0
    <3>1. {} \cap {} = {} /\ {} \cup {} = {}
      OBVIOUS
    <3>2. Total({}) = Total({}) + Total({})
      BY <2>1, <3>1, TotalJoin
    <3> QED BY <2>1, <3>2, TotalSpread
  <2>3. PostedTotal(Takings, Months) = 0
    <3>1. \A j \in Journals : Share(Takings, Months)[j] = 0
      BY <1>1 DEF Share, IsStatus
    <3>2. Share(Takings, Months) \in [Journals -> Int]
          /\ PostedTotal(Takings, Months) = SumFunction(Share(Takings, Months))
      BY <1>2, Shares
    <3> QED BY <3>1, <3>2, SumZero, LedgerAssumption
  <2> QED BY <2>1, <2>2, <2>3 DEF LedgerTiesToQueue, Takings, PostedSales
<1>8. PeriodInv
  BY <1>1 DEF PeriodInv, StrandedOnlyWhileClosed, ClosedMonthIsPosted
<1> QED BY <1>3, <1>4, <1>5, <1>6, <1>7, <1>8 DEF IInv, PostingInv

\* A step that leaves the posted rows, the ledger and the months alone.
LEMMA QuietRowsStep ==
  ASSUME IInv, TypeOK', Captured', QuietRows, PeriodInv'
  PROVE  IInv'
<1>1. QueueInv' /\ BatchInv' /\ TransactionInv' /\ PostedSales' = PostedSales
  BY QuietRowsKeep DEF IInv
<1>2. LedgerTiesToQueue'
  BY <1>1, TiesKept DEF IInv, QuietRows
<1> QED BY <1>1, <1>2 DEF IInv, PostingInv

LEMMA SaleSteps ==
  ASSUME IInv, NEW s \in Sales,
         ReverseSale(s) \/ \E d \in Days : Checkout(s, d)
  PROVE  IInv'
<1>1. CASE ReverseSale(s)
  <2>1. TypeOK' /\ Captured' /\ QuietRows
    BY <1>1, ReverseSaleStep DEF IInv
  <2>2. Calm
    <3>1. /\ queue' = [queue EXCEPT ![s].status = "cancelled"]
          /\ UNCHANGED <<ledgerVars, batch, plan, bypassed>>
          /\ queue[s].status \in {"pending", "cancelled"}
      BY <1>1 DEF ReverseSale
    <3>2. queue[s] \in QueueRows
      BY <3>1 DEF IInv, PostingInv, TypeOK, NoRow
    <3>3. queue'[s].status = "cancelled" /\ \A t \in Sales \ {s} : queue'[t] = queue[t]
      BY <3>1, <3>2, RowRestated DEF IInv, PostingInv, TypeOK, QueueStatuses
    <3> QED BY <3>1, <3>3 DEF Calm, ledgerVars
  <2> QED BY <2>1, <2>2, CalmKeeps, QuietRowsStep DEF IInv
<1>2. ASSUME NEW d \in Days, Checkout(s, d) PROVE IInv'
  <2>1. TypeOK' /\ Captured' /\ QuietRows
    BY <1>2, CheckoutStep DEF IInv
  <2>2. Calm
    <3>1. /\ queue' = [queue EXCEPT ![s] = [status |-> "pending", day |-> d, batch |-> NoBatch]]
          /\ UNCHANGED <<ledgerVars, batch, plan, bypassed>>
          /\ period[MonthOf[d]] = "open"
      BY <1>2 DEF Checkout
    <3>2. /\ queue'[s].status = "pending" /\ queue'[s].day = d
          /\ \A t \in Sales \ {s} : queue'[t] = queue[t]
      BY <3>1 DEF IInv, PostingInv, TypeOK
    <3> QED BY <3>1, <3>2 DEF Calm, ledgerVars
  <2> QED BY <2>1, <2>2, CalmKeeps, QuietRowsStep DEF IInv
<1> QED BY <1>1, <1>2

LEMMA OnlyTxStep ==
  ASSUME IInv, PostingInv', PostedSales' = PostedSales,
         UNCHANGED <<journal, period, queue, batch, bypassed>>
  PROVE  IInv'
<1>1. Calm
  BY DEF Calm
<1>2. PeriodInv' /\ LedgerTiesToQueue'
  BY <1>1, CalmKeeps, TiesKept DEF IInv
<1> QED BY <1>2 DEF IInv

LEMMA PostingSteps ==
  ASSUME IInv, NEW u \in Users, PostingStep(u)
  PROVE  IInv'
<1>1. ASSUME NEW D \in Buckets, PlanBatch(u, D) PROVE IInv'
  <2>1. PostingInv' /\ PostedSales' = PostedSales
    BY <1>1, PlanBatchStep DEF IInv
  <2>2. UNCHANGED <<journal, period, queue, batch, bypassed>>
    BY <1>1 DEF PlanBatch
  <2> QED BY <2>1, <2>2, OnlyTxStep
<1>2. ASSUME NEW b \in Batches, BeginUnbatch(u, b) PROVE IInv'
  <2>1. PostingInv' /\ PostedSales' = PostedSales
    BY <1>2, BeginUnbatchStep DEF IInv
  <2>2. UNCHANGED <<journal, period, queue, batch, bypassed>>
    BY <1>2 DEF BeginUnbatch
  <2> QED BY <2>1, <2>2, OnlyTxStep
<1>3. CASE AbandonTx(u)
  <2>1. PostingInv' /\ PostedSales' = PostedSales
    <3>1. PostingInv
      BY DEF IInv
    <3>2. AbandonTx(u) \/ (Abort(u) /\ UNCHANGED <<saleVars, queueVars>>)
      BY <1>3
    <3> QED BY <3>1, <3>2, AbandonStep, Zenon
  <2>2. UNCHANGED <<journal, period, queue, batch, bypassed>>
    BY <1>3 DEF AbandonTx
  <2> QED BY <2>1, <2>2, OnlyTxStep
<1>4. ASSUME NEW b \in Batches, CommitBatch(u, b) PROVE IInv'
  <2>1. PostingInv' /\ LedgerTiesToQueue'
    BY <1>4, CommitBatchStep, CommitBatchTies DEF IInv
  <2> DEFINE rows == plan[u].rows
  <2>2. /\ \A s \in rows : queue'[s].status = "posted"
        /\ \A s \in Sales \ rows : queue'[s] = queue[s]
        /\ batch[b].status = "none" /\ \A c \in Batches \ {b} : batch'[c] = batch[c]
    BY <1>4, CommitBatchEffect DEF IInv
  <2>3. UNCHANGED <<period, bypassed>>
    BY <1>4 DEF CommitBatch
  <2>4. Calm
    <3> HIDE DEF rows
    <3> QED BY <2>2, <2>3 DEF Calm
  <2> QED BY <2>1, <2>4, CalmKeeps DEF IInv
<1>5. CASE CommitUnbatch(u)
  <2>1. PostingInv' /\ LedgerTiesToQueue'
    BY <1>5, CommitUnbatchStep, CommitUnbatchTies DEF IInv
  <2> DEFINE b == plan[u].batch
             rows == batch[b].rows
  <2>2. /\ b \in Batches /\ batch[b].status = "posted"
        /\ batch'[b].status = "reversed" /\ batch'[b].rows = rows
        /\ \A c \in Batches \ {b} : batch'[c] = batch[c]
        /\ \A s \in rows : queue'[s].status = "pending"
        /\ \A s \in Sales \ rows : queue'[s] = queue[s]
    BY <1>5, CommitUnbatchEffect DEF IInv
  <2>3. UNCHANGED <<period, bypassed>>
    BY <1>5 DEF CommitUnbatch
  <2>4. Calm
    <3> HIDE DEF rows, b
    <3> QED BY <2>2, <2>3 DEF Calm
  <2> QED BY <2>1, <2>4, CalmKeeps DEF IInv
<1> QED BY <1>1, <1>2, <1>3, <1>4, <1>5 DEF PostingStep

LEMMA PeriodEndSteps ==
  ASSUME IInv, NEW u \in Users, PeriodEndStep(u)
  PROVE  IInv'
<1>1. ASSUME NEW m \in Months, NEW to \in PeriodStatuses, NEW forced \in BOOLEAN,
             ClosePeriod(u, m, to, forced) \/ LegacyClosePeriod(u, m, to, forced)
      PROVE  IInv'
  <2>1. TypeOK' /\ Captured' /\ QuietRows /\ Sets(m, to)
    BY <1>1, PeriodEndEffect DEF IInv
  <2> QED BY <2>1, SetsKeeps, QuietRowsStep DEF IInv
<1>2. ASSUME NEW m \in Months, Bypass(m) PROVE IInv'
  BY <1>2, BypassEffect, BypassKeeps, QuietRowsStep DEF IInv
<1>3. ASSUME NEW m \in Months, ClosingLost(m), UNCHANGED <<saleVars, queueVars>> PROVE IInv'
  <2>1. TypeOK' /\ Captured' /\ QuietRows
    BY <1>3, ClosingLostEffect DEF IInv
  <2>2. Calm
    BY <1>3 DEF Calm, ClosingLost, queueVars
  <2> QED BY <2>1, <2>2, CalmKeeps, QuietRowsStep DEF IInv
<1> QED BY <1>1, <1>2, <1>3 DEF PeriodEndStep

LEMMA ScreenSteps ==
  ASSUME IInv, NEW u \in Users, ScreenStep(u)
  PROVE  IInv'
<1>1. UNCHANGED <<saleVars, queueVars>>
  BY DEF ScreenStep
<1>2. ASSUME NEW j \in Journals, NEW today \in Months, BeginReverse(u, j, today) PROVE IInv'
  <2>1. PostingInv' /\ PostedSales' = PostedSales
    BY <1>1, <1>2, BeginReverseScreenStep DEF IInv
  <2>2. UNCHANGED <<journal, period, queue, batch, bypassed>>
    BY <1>1, <1>2 DEF BeginReverse, queueVars
  <2> QED BY <2>1, <2>2, OnlyTxStep
<1>3. CASE CommitReverse(u)
  <2>1. PostingInv' /\ \E k \in Journals : IsOf(k, {"reversal"})'
    BY <1>1, <1>3, ScreenReversalStep DEF IInv
  <2>2. LedgerTiesToQueue'
    BY <2>1 DEF LedgerTiesToQueue
  <2>3. Calm
    BY <1>1, <1>3 DEF Calm, CommitReverse, Link, queueVars
  <2> QED BY <2>1, <2>2, <2>3, CalmKeeps DEF IInv
<1>4. CASE Abort(u)
  <2>1. PostingInv' /\ PostedSales' = PostedSales
    BY <1>1, <1>4, AbandonStep DEF IInv
  <2>2. UNCHANGED <<journal, period, queue, batch, bypassed>>
    BY <1>1, <1>4 DEF Abort, queueVars
  <2> QED BY <2>1, <2>2, OnlyTxStep
<1> QED BY <1>2, <1>3, <1>4 DEF ScreenStep

LEMMA NextIInv == IInv /\ [Next]_vars => IInv'
<1> SUFFICES ASSUME IInv, [Next]_vars PROVE IInv'
  OBVIOUS
<1>1. CASE UNCHANGED vars
  <2>1. UNCHANGED <<sale, shelf, journal, balance, period, closing, tx, repair,
                    queue, batch, plan, bypassed>>
    BY <1>1 DEF vars, saleVars, ledgerVars, queueVars
  <2>2. TypeOK' /\ Captured' /\ QuietRows /\ Calm
    BY <2>1 DEF IInv, PostingInv, TypeOK, TypeOKSales, TypeOKLedger, Captured,
       QuietRows, Calm
  <2> QED BY <2>2, CalmKeeps, QuietRowsStep DEF IInv
<1>2. CASE Next
  BY <1>2, SaleSteps, PostingSteps, PeriodEndSteps, ScreenSteps DEF Next
<1> QED BY <1>1, <1>2

LEMMA Invariance == Spec => []IInv
BY InitIInv, NextIInv, PTL DEF Spec

-----------------------------------------------------------------------------
\* Every reachable state of the queue and of what it is composed with is well
\* typed.
THEOREM PostingTypeCorrect == Spec => []TypeOK
<1>1. IInv => TypeOK  BY DEF IInv, PostingInv
<1> QED BY <1>1, Invariance, PTL

\* Whatever batches, reversals, voids and period ends overlap, a sale stands in
\* the ledger at most once, in the batch its queue row names.
THEOREM StandsInBooksOnce == Spec => []InBooksOnce
<1>1. IInv => InBooksOnce
  <2> SUFFICES ASSUME IInv, NEW s \in Sales, NEW b \in InBooks(s)
               PROVE  queue[s].status = "posted" /\ queue[s].batch = b
    BY DEF InBooksOnce
  <2>1. /\ b \in Batches /\ batch[b].status # "none" /\ s \in batch[b].rows
        /\ journal[batch[b].journal].reversedBy = NoJournal
    BY DEF InBooks
  <2>2. batch[b].status # "reversed"
    BY <2>1 DEF IInv, PostingInv, BatchInv, Journaled
  <2>3. batch[b].status = "posted"
    BY <2>1, <2>2 DEF IInv, PostingInv, TypeOK, BatchRows, NoRow
  <2> QED BY <2>1, <2>3 DEF IInv, PostingInv, QueueInv, BatchedRows
<1> QED BY <1>1, Invariance, PTL

\* While nobody reverses from the ledger screen, the revenue of the ledger is
\* the price of the posted rows, for any prices, days and months.
THEOREM RevenueTiesToQueue == Spec => []LedgerTiesToQueue
<1>1. IInv => LedgerTiesToQueue  BY DEF IInv
<1> QED BY <1>1, Invariance, PTL

\* What a forced close strands comes back with its month, whichever endpoint
\* that asks the queue closed it and opens it.
THEOREM StrandedComesBack == Spec => []StrandedOnlyWhileClosed
<1>1. IInv => StrandedOnlyWhileClosed  BY DEF IInv, PeriodInv
<1> QED BY <1>1, Invariance, PTL

\* A closed month leaves no sale pending that never reached the ledger, unless
\* an endpoint that does not ask the queue has set it.
THEOREM ClosedMonthsArePosted == Spec => []ClosedMonthIsPosted
<1>1. IInv => ClosedMonthIsPosted  BY DEF IInv, PeriodInv
<1> QED BY <1>1, Invariance, PTL
=============================================================================

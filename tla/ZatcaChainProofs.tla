-------------------------- MODULE ZatcaChainProofs --------------------------
(***************************************************************************)
(* The hash chain and the document numbers of ZatcaChain, for every set of *)
(* requests, documents and counters.                                       *)
(*                                                                         *)
(* The chain is linear because a request that works on its stamp holds the *)
(* head row exclusively and has read the committed head (HeadKept), and    *)
(* because its document, whose row it holds, is not stamped (RowKept).     *)
(* Numbers have no gaps because a request that has taken one holds the     *)
(* counter until it ends (NumberKept).                                     *)
(*                                                                         *)
(* Deadlocks form on the head row only because the place of a request tells *)
(* what it holds and the other way round (Owned): locks before the head row *)
(* are taken in one order, and no counter numbers both memos and the        *)
(* invoices they reduce.                                                   *)
(***************************************************************************)
EXTENDS ZatcaChain, FiniteSetTheorems, TLAPS

\* A request that has locked its document's row.
PastRow(r) == at[r] \in {"number", "original", "share", "upgrade", "work"}

\* A request that has taken its number.
PastNumber(r) == at[r] \in {"original", "share", "upgrade", "work"}

RowKept == \A r \in Requests :
  PastRow(r) => rowBy[Of[r]] = r /\ stamps[Of[r]] = NoDoc

NumberKept == \A r \in Requests :
  LET c == CounterOf[Of[r]] IN
  PastNumber(r) => counterBy[c] = r /\ number[r] = serials[c] + 1

HeadKept == \A r \in Requests : at[r] = "work" => headBy = r /\ seen[r] = head

Mine(c) == {d \in Stamped : CounterOf[d] = c}

Counted == \A c \in Counters :
  /\ IsFiniteSet(Mine(c))
  /\ Cardinality(Mine(c)) = serials[c]
  /\ {stamps[d].serial : d \in Mine(c)} = 1..serials[c]

Kept == RowKept /\ NumberKept /\ HeadKept

IInv == TypeOK /\ Kept /\ ChainIsLinear /\ Counted

-----------------------------------------------------------------------------
\* No actor but a committing request changes what is stamped.
Quiet == UNCHANGED <<head, serials, stamps>>

\* What a step of request r does to the locks and the places of the others.
Alone(r) ==
  /\ \A q \in Requests \ {r} :
       at'[q] = at[q] /\ number'[q] = number[q] /\ seen'[q] = seen[q]
  /\ \A d \in Docs : rowBy[d] \notin {r, Nobody} => rowBy'[d] = rowBy[d]
  /\ \A c \in Counters : counterBy[c] \notin {r, Nobody} => counterBy'[c] = counterBy[c]
  /\ headBy \notin {r, Nobody} => headBy' = headBy

\* A step of one request that stamps nothing keeps what the others hold.
LEMMA OthersKeep ==
  ASSUME TypeOK, Kept, NEW r \in Requests, Quiet, Alone(r),
         NEW q \in Requests, q # r
  PROVE  /\ PastRow(q)' => rowBy'[Of[q]] = q /\ stamps'[Of[q]] = NoDoc
         /\ PastNumber(q)' => /\ counterBy'[CounterOf[Of[q]]] = q
                              /\ number'[q] = serials'[CounterOf[Of[q]]] + 1
         /\ at'[q] = "work" => headBy' = q /\ seen'[q] = head'
<1>1. /\ Of[q] \in Docs /\ CounterOf[Of[q]] \in Counters
      /\ q # Nobody
      /\ at'[q] = at[q] /\ number'[q] = number[q] /\ seen'[q] = seen[q]
  BY ChainAssumption DEF Alone
<1>2. PastRow(q)' => rowBy'[Of[q]] = q /\ stamps'[Of[q]] = NoDoc
  BY <1>1 DEF Kept, RowKept, PastRow, Alone, Quiet
<1>3. PastNumber(q)' => /\ counterBy'[CounterOf[Of[q]]] = q
                        /\ number'[q] = serials'[CounterOf[Of[q]]] + 1
  BY <1>1 DEF Kept, NumberKept, PastNumber, Alone, Quiet
<1>4. at'[q] = "work" => headBy' = q /\ seen'[q] = head'
  BY <1>1 DEF Kept, HeadKept, Alone, Quiet
<1> QED BY <1>2, <1>3, <1>4

\* So it keeps everything, if r itself keeps what it holds.
LEMMA QuietKeeps ==
  ASSUME IInv, NEW r \in Requests, Quiet, Alone(r),
         PastRow(r)' => rowBy'[Of[r]] = r /\ stamps'[Of[r]] = NoDoc,
         PastNumber(r)' => /\ counterBy'[CounterOf[Of[r]]] = r
                           /\ number'[r] = serials'[CounterOf[Of[r]]] + 1,
         at'[r] = "work" => headBy' = r /\ seen'[r] = head'
  PROVE  Kept' /\ ChainIsLinear' /\ Counted'
<1>1. Kept'
  <2>1. ASSUME NEW q \in Requests
        PROVE  /\ PastRow(q)' => rowBy'[Of[q]] = q /\ stamps'[Of[q]] = NoDoc
               /\ PastNumber(q)' => /\ counterBy'[CounterOf[Of[q]]] = q
                                    /\ number'[q] = serials'[CounterOf[Of[q]]] + 1
               /\ at'[q] = "work" => headBy' = q /\ seen'[q] = head'
    <3>1. CASE q = r  BY <3>1
    <3>2. CASE q # r  BY <3>2, OthersKeep DEF IInv
    <3> QED BY <3>1, <3>2
  <2> QED BY <2>1 DEF Kept, RowKept, NumberKept, HeadKept
<1>2. Stamped' = Stamped
  BY DEF Quiet, Stamped
<1>3. ChainIsLinear'
  BY <1>2 DEF IInv, ChainIsLinear, Quiet
<1>4. \A c : Mine(c)' = Mine(c)
  BY <1>2 DEF Mine
<1>5. Counted'
  BY <1>4 DEF IInv, Counted, Quiet
<1> QED BY <1>1, <1>3, <1>5

-----------------------------------------------------------------------------
LEMMA InitTyped == Init => TypeOK
BY ChainAssumption DEF Init, TypeOK, Heads, Waits, Ended, Holders

LEMMA ReleaseTyped ==
  ASSUME TypeOK, NEW r, Release(r)
  PROVE  /\ rowBy' \in [Docs -> Holders]
         /\ counterBy' \in [Counters -> Holders]
         /\ sharers' \subseteq Requests
         /\ headBy' \in Holders
BY DEF TypeOK, Release, Holders

\* Every step keeps the types.
LEMMA NextTyped == TypeOK /\ [Next]_vars => TypeOK'
<1> SUFFICES ASSUME TypeOK, [Next]_vars PROVE TypeOK'
  OBVIOUS
<1> USE ChainAssumption
<1>1. CASE UNCHANGED vars
  BY <1>1 DEF TypeOK, vars
<1>2. ASSUME NEW r \in Requests, Begin(r) PROVE TypeOK'
  BY <1>2 DEF TypeOK, Begin, locks, Waits
<1>3. ASSUME NEW r \in Requests, LockRow(r) PROVE TypeOK'
  BY <1>3 DEF TypeOK, LockRow, Arrive, Following, locks, Waits, Ended, Holders
<1>4. ASSUME NEW r \in Requests, TakeNumber(r) PROVE TypeOK'
  BY <1>4 DEF TypeOK, TakeNumber, Arrive, Following, Waits, Holders
<1>5. ASSUME NEW r \in Requests, LockOriginal(r) PROVE TypeOK'
  BY <1>5 DEF TypeOK, LockOriginal, Arrive, Following, Waits, Holders
<1>6. ASSUME NEW r \in Requests, ShareHead(r) PROVE TypeOK'
  BY <1>6 DEF TypeOK, ShareHead, Arrive, Following, Waits, Holders
<1>7. ASSUME NEW r \in Requests, LockHead(r) PROVE TypeOK'
  BY <1>7 DEF TypeOK, LockHead, Arrive, Following, Waits, Holders
<1>8. ASSUME NEW r \in Requests, Commit(r) PROVE TypeOK'
  <2>1. Release(r)
    BY <1>8 DEF Commit
  <2>2. /\ head' \in Heads
        /\ stamps' \in [Docs -> Stamps \cup {NoDoc}]
    BY <1>8 DEF TypeOK, Commit, HeadAfter, Heads, Stamps
  <2>3. /\ serials' \in [Counters -> Nat]
        /\ at' \in [Requests -> Waits \cup Ended \cup {"idle", "work"}]
        /\ tries' = tries /\ number' = number /\ seen' = seen
    BY <1>8 DEF TypeOK, Commit, Ended
  <2> QED BY <2>1, <2>2, <2>3, ReleaseTyped DEF TypeOK
<1>9. ASSUME NEW r \in Requests, WorkFails(r) PROVE TypeOK'
  BY <1>9, ReleaseTyped DEF TypeOK, WorkFails, Ended
<1>10. ASSUME NEW r \in Requests, Victim(r) PROVE TypeOK'
  BY <1>10, ReleaseTyped DEF TypeOK, Victim, Ended, Waits
<1>11. CASE Crash
  BY <1>11 DEF TypeOK, Crash, Ended, Waits, Holders
<1> QED
  BY <1>1, <1>2, <1>3, <1>4, <1>5, <1>6, <1>7, <1>8, <1>9, <1>10, <1>11
  DEF Next, Progress, Detect

\* The chain model's state is well typed, whatever the requests do.
THEOREM ChainTypeCorrect == Spec => []TypeOK
<1>1. Init => TypeOK  BY InitTyped
<1>2. TypeOK /\ [Next]_vars => TypeOK'  BY NextTyped
<1> QED BY <1>1, <1>2, PTL DEF Spec

-----------------------------------------------------------------------------
\* The steps that stamp nothing.

LEMMA ReleaseAlone ==
  ASSUME TypeOK, NEW r \in Requests, Release(r), UNCHANGED <<number, seen>>,
         \A q \in Requests \ {r} : at'[q] = at[q]
  PROVE  Alone(r)
BY ChainAssumption DEF TypeOK, Release, Alone

LEMMA BeginKeeps ==
  ASSUME IInv, NEW r \in Requests, Begin(r)
  PROVE  Kept' /\ ChainIsLinear' /\ Counted'
<1>1. Quiet
  BY DEF Begin, Quiet
<1>2. Alone(r)
  BY DEF IInv, TypeOK, Begin, Alone, locks
<1>3. ~PastRow(r)' /\ ~PastNumber(r)' /\ at'[r] # "work"
  BY DEF IInv, TypeOK, Begin, PastRow, PastNumber
<1> QED BY <1>1, <1>2, <1>3, QuietKeeps

LEMMA LockRowKeeps ==
  ASSUME IInv, NEW r \in Requests, LockRow(r)
  PROVE  Kept' /\ ChainIsLinear' /\ Counted'
<1>1. CASE ~Issuable(Of[r])
  <2>1. Quiet
    BY <1>1 DEF LockRow, Quiet
  <2>2. Alone(r)
    BY <1>1 DEF IInv, TypeOK, LockRow, Alone, locks
  <2>3. ~PastRow(r)' /\ ~PastNumber(r)' /\ at'[r] # "work"
    BY <1>1 DEF IInv, TypeOK, LockRow, PastRow, PastNumber
  <2> QED BY <2>1, <2>2, <2>3, QuietKeeps
<1>2. CASE Issuable(Of[r])
  <2>1. Quiet
    BY <1>2 DEF LockRow, Arrive, Quiet
  <2>2. rowBy[Of[r]] \in {r, Nobody}
    BY <1>2 DEF LockRow, Arrive, BlockedBy
  <2>3. Alone(r)
    BY <1>2, <2>2, ChainAssumption DEF IInv, TypeOK, LockRow, Arrive, Alone
  <2>4. at'[r] = Following("row", r)
    BY <1>2 DEF IInv, TypeOK, LockRow, Arrive
  <2>5. at'[r] = "number"
    BY <2>4 DEF Following
  <2>6. rowBy'[Of[r]] = r
    BY <1>2, ChainAssumption DEF IInv, TypeOK, LockRow
  <2>7. stamps'[Of[r]] = NoDoc
    BY <1>2, <2>1 DEF Issuable, Quiet
  <2> QED BY <2>1, <2>3, <2>5, <2>6, <2>7, QuietKeeps DEF PastNumber
<1> QED BY <1>1, <1>2

LEMMA TakeNumberKeeps ==
  ASSUME IInv, NEW r \in Requests, TakeNumber(r)
  PROVE  Kept' /\ ChainIsLinear' /\ Counted'
<1> DEFINE c == CounterOf[Of[r]]
<1>1. Quiet /\ rowBy' = rowBy
  BY DEF TakeNumber, Arrive, Quiet
<1>2. counterBy[c] \in {r, Nobody} /\ c \in Counters
  BY ChainAssumption DEF TakeNumber, Arrive, BlockedBy
<1>3. Alone(r)
  BY <1>2 DEF IInv, TypeOK, TakeNumber, Arrive, Alone
<1>4. /\ at'[r] # "work" /\ at[r] = "number"
      /\ counterBy'[c] = r /\ number'[r] = serials[c] + 1
  BY <1>2 DEF IInv, TypeOK, TakeNumber, Arrive, Following
<1>5. rowBy[Of[r]] = r /\ stamps[Of[r]] = NoDoc
  BY <1>4 DEF IInv, Kept, RowKept, PastRow
<1>6. rowBy'[Of[r]] = r /\ stamps'[Of[r]] = NoDoc /\ serials' = serials
  BY <1>1, <1>5 DEF Quiet
<1> QED BY <1>1, <1>3, <1>4, <1>6, QuietKeeps

LEMMA LockOriginalKeeps ==
  ASSUME IInv, NEW r \in Requests, LockOriginal(r)
  PROVE  Kept' /\ ChainIsLinear' /\ Counted'
<1> DEFINE c == CounterOf[Of[r]]
<1>1. Quiet /\ counterBy' = counterBy /\ number' = number
  BY DEF LockOriginal, Arrive, Quiet
<1>2. rowBy[Original[Of[r]]] \in {r, Nobody}
  BY DEF LockOriginal, Arrive, BlockedBy
<1>3. Alone(r)
  BY <1>2 DEF IInv, TypeOK, LockOriginal, Arrive, Alone
<1>4. at'[r] # "work" /\ at[r] = "original"
  BY DEF IInv, TypeOK, LockOriginal, Arrive, Following
<1>5. /\ rowBy[Of[r]] = r /\ stamps[Of[r]] = NoDoc
      /\ counterBy[c] = r /\ number[r] = serials[c] + 1
  BY <1>4 DEF IInv, Kept, RowKept, NumberKept, PastRow, PastNumber
<1>6. rowBy'[Of[r]] = r
  BY <1>5, ChainAssumption DEF IInv, TypeOK, LockOriginal
<1>7. /\ stamps'[Of[r]] = NoDoc
      /\ counterBy'[c] = r /\ number'[r] = serials'[c] + 1
  BY <1>1, <1>5 DEF Quiet
<1> QED BY <1>1, <1>3, <1>4, <1>6, <1>7, QuietKeeps

LEMMA ShareHeadKeeps ==
  ASSUME IInv, NEW r \in Requests, ShareHead(r)
  PROVE  Kept' /\ ChainIsLinear' /\ Counted'
<1> DEFINE c == CounterOf[Of[r]]
<1>1. Quiet /\ UNCHANGED <<rowBy, counterBy, number>>
  BY DEF ShareHead, Arrive, Quiet
<1>2. Alone(r)
  BY DEF IInv, TypeOK, ShareHead, Arrive, Alone
<1>3. at'[r] # "work" /\ at[r] = "share"
  BY DEF IInv, TypeOK, ShareHead, Arrive, Following
<1>4. /\ rowBy[Of[r]] = r /\ stamps[Of[r]] = NoDoc
      /\ counterBy[c] = r /\ number[r] = serials[c] + 1
  BY <1>3 DEF IInv, Kept, RowKept, NumberKept, PastRow, PastNumber
<1>5. /\ rowBy'[Of[r]] = r /\ stamps'[Of[r]] = NoDoc
      /\ counterBy'[c] = r /\ number'[r] = serials'[c] + 1
  BY <1>1, <1>4 DEF Quiet
<1> QED BY <1>1, <1>2, <1>3, <1>5, QuietKeeps

LEMMA LockHeadKeeps ==
  ASSUME IInv, NEW r \in Requests, LockHead(r)
  PROVE  Kept' /\ ChainIsLinear' /\ Counted'
<1> DEFINE c == CounterOf[Of[r]]
<1>1. Quiet /\ UNCHANGED <<rowBy, counterBy, number>>
  BY DEF LockHead, Arrive, Quiet
<1>2. at[r] = "upgrade" /\ headBy \in {r, Nobody}
  BY DEF LockHead, Arrive, BlockedBy
<1>3. Alone(r)
  BY <1>2 DEF IInv, TypeOK, LockHead, Arrive, Alone
<1>4. headBy' = r /\ seen'[r] = head'
  BY DEF IInv, TypeOK, LockHead, Arrive
<1>5. /\ rowBy[Of[r]] = r /\ stamps[Of[r]] = NoDoc
      /\ counterBy[c] = r /\ number[r] = serials[c] + 1
  BY <1>2 DEF IInv, Kept, RowKept, NumberKept, PastRow, PastNumber
<1>6. /\ rowBy'[Of[r]] = r /\ stamps'[Of[r]] = NoDoc
      /\ counterBy'[c] = r /\ number'[r] = serials'[c] + 1
  BY <1>1, <1>5 DEF Quiet
<1> QED BY <1>1, <1>3, <1>4, <1>6, QuietKeeps

\* A request that ends without a stamp, or that a deadlock sends back.
LEMMA LetGoKeeps ==
  ASSUME IInv, NEW r \in Requests, WorkFails(r) \/ Victim(r)
  PROVE  Kept' /\ ChainIsLinear' /\ Counted'
<1>1. Quiet /\ Release(r) /\ UNCHANGED <<number, seen>>
  BY DEF WorkFails, Victim, Quiet
<1>2. /\ \A q \in Requests \ {r} : at'[q] = at[q]
      /\ at'[r] \in {"failed", "row"}
  BY DEF IInv, TypeOK, WorkFails, Victim
<1>3. Alone(r)
  BY <1>1, <1>2, ReleaseAlone DEF IInv
<1>4. ~PastRow(r)' /\ ~PastNumber(r)' /\ at'[r] # "work"
  BY <1>2 DEF PastRow, PastNumber
<1> QED BY <1>1, <1>3, <1>4, QuietKeeps

LEMMA CrashKeeps ==
  ASSUME IInv, Crash
  PROVE  Kept' /\ ChainIsLinear' /\ Counted'
<1>1. Quiet
  BY DEF Crash, Quiet
<1>2. ASSUME NEW r \in Requests
      PROVE ~PastRow(r)' /\ ~PastNumber(r)' /\ at'[r] # "work"
  BY DEF IInv, TypeOK, Crash, Waits, Ended, PastRow, PastNumber
<1>3. Kept'
  BY <1>2 DEF Kept, RowKept, NumberKept, HeadKept
<1>4. Stamped' = Stamped /\ \A c : Mine(c)' = Mine(c)
  BY <1>1 DEF Quiet, Stamped, Mine
<1>5. ChainIsLinear'
  BY <1>1, <1>4 DEF IInv, ChainIsLinear, Quiet
<1>6. Counted'
  BY <1>1, <1>4 DEF IInv, Counted, Quiet
<1> QED BY <1>3, <1>5, <1>6

-----------------------------------------------------------------------------
\* The step that stamps.

\* What a committing request knows and does.
LEMMA CommitEffect ==
  ASSUME IInv, NEW r \in Requests, Commit(r)
  PROVE  LET d == Of[r]
             c == CounterOf[d] IN
         /\ d \in Docs /\ c \in Counters
         /\ stamps[d] = NoDoc
         /\ stamps' = [stamps EXCEPT ![d] = [prev |-> head.hash, icv |-> head.icv + 1,
                                             serial |-> serials[c] + 1]]
         /\ head' = [hash |-> d, icv |-> head.icv + 1]
         /\ serials' = [serials EXCEPT ![c] = serials[c] + 1]
         /\ Stamped' = Stamped \cup {d}
         /\ \A e \in Stamped : e # d /\ stamps'[e] = stamps[e]
         /\ stamps'[d] = [prev |-> head.hash, icv |-> head.icv + 1,
                          serial |-> serials[c] + 1]
<1> DEFINE d == Of[r]
           c == CounterOf[d]
           s == [prev |-> head.hash, icv |-> head.icv + 1, serial |-> serials[c] + 1]
<1>1. at[r] = "work"
  BY DEF Commit
<1>2. d \in Docs /\ c \in Counters
  BY ChainAssumption
<1>3. stamps[d] = NoDoc /\ seen[r] = head /\ number[r] = serials[c] + 1
  BY <1>1 DEF IInv, Kept, RowKept, NumberKept, HeadKept, PastRow, PastNumber
<1>4. stamps' = [stamps EXCEPT ![d] = s]
  BY <1>3 DEF Commit
<1>5. head' = [hash |-> d, icv |-> head.icv + 1]
  BY <1>3 DEF Commit, HeadAfter
<1>6. serials' = [serials EXCEPT ![c] = serials[c] + 1]
  BY <1>3 DEF Commit
<1>7. s \in Stamps
  BY <1>2 DEF IInv, TypeOK, Heads, Stamps
<1>8. s # NoDoc
  BY <1>7, StampAssumption
<1>9. stamps'[d] = s /\ \A e \in Docs \ {d} : stamps'[e] = stamps[e]
  BY <1>2, <1>4 DEF IInv, TypeOK
<1> HIDE DEF s, d
<1>10. Stamped' = Stamped \cup {d}
  BY <1>2, <1>3, <1>8, <1>9 DEF Stamped
<1>11. \A e \in Stamped : e # d /\ stamps'[e] = stamps[e]
  BY <1>3, <1>9 DEF Stamped
<1> QED BY <1>2, <1>3, <1>4, <1>5, <1>6, <1>9, <1>10, <1>11 DEF s, d

LEMMA CommitKeepsChain ==
  ASSUME IInv, NEW r \in Requests, Commit(r)
  PROVE  ChainIsLinear'
<1> DEFINE d == Of[r]
           s == [prev |-> head.hash, icv |-> head.icv + 1, serial |-> serials[CounterOf[d]] + 1]
           h == [hash |-> d, icv |-> head.icv + 1]
<1>0. /\ d \in Docs /\ head' = h /\ stamps'[d] = s
      /\ Stamped' = Stamped \cup {d}
      /\ \A e \in Stamped : e # d /\ stamps'[e] = stamps[e]
  BY CommitEffect
<1>a. /\ s.prev = head.hash /\ s.icv = head.icv + 1
      /\ h.hash = d /\ h.icv = head.icv + 1
  OBVIOUS
<1> HIDE DEF s, h
<1>1. /\ d \in Docs
      /\ head'.hash = d /\ head'.icv = head.icv + 1
      /\ Stamped' = Stamped \cup {d}
      /\ \A e \in Stamped : e # d /\ stamps'[e] = stamps[e]
      /\ stamps'[d].prev = head.hash /\ stamps'[d].icv = head.icv + 1
  BY <1>0, <1>a
<1> HIDE DEF d
<1>2. head.icv \in Nat /\ Stamped \subseteq Docs /\ Seed \notin Docs
  BY ChainAssumption DEF IInv, TypeOK, Heads, Stamped
<1>3. \A e \in Stamped : /\ stamps[e].icv \in 1..head.icv
                         /\ stamps[e].prev # head.hash
  <2> SUFFICES ASSUME NEW e \in Stamped
               PROVE  stamps[e].icv \in 1..head.icv /\ stamps[e].prev # head.hash
    OBVIOUS
  <2>1. stamps[e].icv \in 1..head.icv /\ head.icv # 0
    BY <1>2 DEF IInv, ChainIsLinear
  <2>2. head.hash \in Stamped /\ stamps[head.hash].icv = head.icv
    BY <2>1 DEF IInv, ChainIsLinear
  <2>3. CASE stamps[e].icv = 1
    BY <2>2, <2>1, <2>3, <1>2 DEF IInv, ChainIsLinear
  <2>4. CASE stamps[e].icv # 1
    BY <2>1, <2>2, <2>4, <1>2 DEF IInv, ChainIsLinear
  <2> QED BY <2>1, <2>3, <2>4
<1>4. ASSUME NEW e \in Stamped', NEW f \in Stamped',
             stamps'[e].icv = stamps'[f].icv \/ stamps'[e].prev = stamps'[f].prev
      PROVE  e = f
  <2>1. CASE e \in Stamped /\ f \in Stamped
    BY <2>1, <1>1, <1>4 DEF IInv, ChainIsLinear
  <2>2. CASE e = d /\ f \in Stamped
    BY <2>2, <1>1, <1>2, <1>3, <1>4
  <2>3. CASE f = d /\ e \in Stamped
    BY <2>3, <1>1, <1>2, <1>3, <1>4
  <2> QED BY <1>1, <2>1, <2>2, <2>3
<1>5. ASSUME NEW e \in Stamped'
      PROVE  /\ stamps'[e].icv \in 1..head'.icv
             /\ IF stamps'[e].icv = 1 THEN stamps'[e].prev = Seed
                ELSE /\ stamps'[e].prev \in Stamped'
                     /\ stamps'[stamps'[e].prev].icv = stamps'[e].icv - 1
  <2>1. CASE e \in Stamped
    <3>1. stamps'[e] = stamps[e] /\ stamps[e].icv \in 1..head.icv
      BY <2>1, <1>1, <1>3
    <3>2. CASE stamps[e].icv = 1
      BY <3>1, <3>2, <2>1, <1>1, <1>2 DEF IInv, ChainIsLinear
    <3>3. CASE stamps[e].icv # 1
      <4>1. stamps[e].prev \in Stamped /\ stamps[stamps[e].prev].icv = stamps[e].icv - 1
        BY <3>3, <2>1 DEF IInv, ChainIsLinear
      <4> QED BY <4>1, <3>1, <3>3, <1>1, <1>2
    <3> QED BY <3>2, <3>3
  <2>2. CASE e = d
    <3>1. CASE head.icv = 0
      BY <2>2, <3>1, <1>1, <1>2 DEF IInv, ChainIsLinear
    <3>2. CASE head.icv # 0
      <4>1. head.hash \in Stamped /\ stamps[head.hash].icv = head.icv
        BY <3>2 DEF IInv, ChainIsLinear
      <4> QED BY <4>1, <2>2, <3>2, <1>1, <1>2
    <3> QED BY <3>1, <3>2
  <2> QED BY <1>1, <2>1, <2>2
<1>6. head'.icv # 0 /\ head'.hash \in Stamped' /\ stamps'[head'.hash].icv = head'.icv
  BY <1>1, <1>2
<1> QED BY <1>4, <1>5, <1>6 DEF ChainIsLinear

LEMMA CommitKeepsCounted ==
  ASSUME IInv, NEW r \in Requests, Commit(r)
  PROVE  Counted'
<1> DEFINE d == Of[r]
           c == CounterOf[d]
           s == [prev |-> head.hash, icv |-> head.icv + 1, serial |-> serials[c] + 1]
<1>0. /\ d \in Docs /\ c \in Counters /\ stamps'[d] = s
      /\ serials' = [serials EXCEPT ![c] = serials[c] + 1]
      /\ Stamped' = Stamped \cup {d}
      /\ \A e \in Stamped : e # d /\ stamps'[e] = stamps[e]
  BY CommitEffect
<1>a. s.serial = serials[c] + 1
  OBVIOUS
<1> HIDE DEF s
<1>1. /\ d \in Docs /\ c \in Counters /\ d \notin Stamped
      /\ serials' = [serials EXCEPT ![c] = serials[c] + 1]
      /\ Stamped' = Stamped \cup {d}
      /\ \A e \in Stamped : e # d /\ stamps'[e] = stamps[e]
      /\ stamps'[d].serial = serials[c] + 1
  BY <1>0, <1>a
<1>2. serials \in [Counters -> Nat]
  BY DEF IInv, TypeOK
<1> SUFFICES ASSUME NEW k \in Counters
             PROVE  /\ IsFiniteSet(Mine(k)')
                    /\ Cardinality(Mine(k)') = serials'[k]
                    /\ {stamps'[e].serial : e \in Mine(k)'} = 1..serials'[k]
  BY DEF Counted
<1>3. /\ IsFiniteSet(Mine(k)) /\ Cardinality(Mine(k)) = serials[k]
      /\ {stamps[e].serial : e \in Mine(k)} = 1..serials[k]
  BY DEF IInv, Counted
<1> HIDE DEF d
<1>4. CASE k = c
  <2>1. Mine(k)' = Mine(k) \cup {d} /\ d \notin Mine(k)
    BY <1>1, <1>4 DEF Mine
  <2>2. IsFiniteSet(Mine(k)') /\ Cardinality(Mine(k)') = serials[k] + 1
    BY <2>1, <1>3, FS_AddElement
  <2>3. serials'[k] = serials[k] + 1 /\ serials[k] \in Nat
    BY <1>1, <1>2, <1>4
  <2>4. \A e \in Mine(k) : stamps'[e].serial = stamps[e].serial
    BY <1>1 DEF Mine
  <2>5. {stamps'[e].serial : e \in Mine(k)'} = {stamps[e].serial : e \in Mine(k)} \cup {serials[k] + 1}
    BY <2>1, <2>4, <1>1, <1>4
  <2>6. 1..(serials[k] + 1) = 1..serials[k] \cup {serials[k] + 1}
    BY <2>3
  <2> QED BY <2>2, <2>3, <2>5, <2>6, <1>3
<1>5. CASE k # c
  <2>1. Mine(k)' = Mine(k)
    BY <1>1, <1>5 DEF Mine
  <2>2. serials'[k] = serials[k]
    BY <1>1, <1>2, <1>5
  <2>3. \A e \in Mine(k) : stamps'[e].serial = stamps[e].serial
    BY <1>1 DEF Mine
  <2>4. {stamps'[e].serial : e \in Mine(k)'} = {stamps[e].serial : e \in Mine(k)}
    BY <2>1, <2>3
  <2> QED BY <2>1, <2>2, <2>4, <1>3
<1> QED BY <1>4, <1>5

LEMMA CommitKeepsLocks ==
  ASSUME IInv, NEW r \in Requests, Commit(r)
  PROVE  Kept'
<1> DEFINE d == Of[r]
           c == CounterOf[d]
<1>1. /\ d \in Docs /\ c \in Counters /\ at[r] = "work"
      /\ rowBy[d] = r /\ counterBy[c] = r /\ headBy = r
  BY ChainAssumption
  DEF Commit, IInv, Kept, RowKept, NumberKept, HeadKept, PastRow, PastNumber
<1>2. /\ Release(r) /\ UNCHANGED <<number, seen>>
      /\ at' = [at EXCEPT ![r] = "issued"]
  BY DEF Commit
<1>3. Alone(r)
  BY <1>2, ReleaseAlone DEF IInv, TypeOK
<1>4. /\ \A e \in Docs \ {d} : stamps'[e] = stamps[e]
      /\ \A k \in Counters \ {c} : serials'[k] = serials[k]
  BY CommitEffect DEF IInv, TypeOK
<1>5. ~PastRow(r)' /\ ~PastNumber(r)' /\ at'[r] # "work"
  BY <1>2 DEF IInv, TypeOK, PastRow, PastNumber
<1> HIDE DEF d, c
<1>6. ASSUME NEW q \in Requests, q # r
      PROVE  /\ PastRow(q)' => rowBy'[Of[q]] = q /\ stamps'[Of[q]] = NoDoc
             /\ PastNumber(q)' => /\ counterBy'[CounterOf[Of[q]]] = q
                                  /\ number'[q] = serials'[CounterOf[Of[q]]] + 1
             /\ at'[q] # "work"
  <2>1. /\ Of[q] \in Docs /\ CounterOf[Of[q]] \in Counters /\ q # Nobody
        /\ at'[q] = at[q] /\ number'[q] = number[q]
    BY <1>3, <1>6, ChainAssumption DEF Alone
  <2>2. at[q] # "work"
    BY <1>1, <1>6 DEF IInv, Kept, HeadKept
  <2>3. PastRow(q)' => rowBy'[Of[q]] = q /\ stamps'[Of[q]] = NoDoc
    BY <2>1, <1>1, <1>3, <1>4, <1>6 DEF IInv, Kept, RowKept, PastRow, Alone
  <2>4. PastNumber(q)' => /\ counterBy'[CounterOf[Of[q]]] = q
                          /\ number'[q] = serials'[CounterOf[Of[q]]] + 1
    BY <2>1, <1>1, <1>3, <1>4, <1>6 DEF IInv, Kept, NumberKept, PastNumber, Alone
  <2> QED BY <2>1, <2>2, <2>3, <2>4
<1> QED BY <1>5, <1>6 DEF Kept, RowKept, NumberKept, HeadKept

-----------------------------------------------------------------------------
LEMMA InitIInv == Init => IInv
<1> SUFFICES ASSUME Init PROVE IInv
  OBVIOUS
<1>1. TypeOK
  BY InitTyped
<1>2. Kept
  BY DEF Init, Kept, RowKept, NumberKept, HeadKept, PastRow, PastNumber
<1>3. Stamped = {} /\ \A c : Mine(c) = {}
  BY DEF Init, Stamped, Mine
<1>4. ChainIsLinear
  BY <1>3 DEF Init, ChainIsLinear
<1>5. Counted
  <2> SUFFICES ASSUME NEW c \in Counters
               PROVE  /\ IsFiniteSet(Mine(c)) /\ Cardinality(Mine(c)) = serials[c]
                      /\ {stamps[d].serial : d \in Mine(c)} = 1..serials[c]
    BY DEF Counted
  <2>1. serials[c] = 0
    BY DEF Init
  <2>2. IsFiniteSet({}) /\ Cardinality({}) = 0
    BY FS_EmptySet
  <2>3. {stamps[d].serial : d \in {}} = {} /\ 1..0 = {}
    OBVIOUS
  <2> QED BY <1>3, <2>1, <2>2, <2>3
<1> QED BY <1>1, <1>2, <1>4, <1>5 DEF IInv

LEMMA NextIInv == IInv /\ [Next]_vars => IInv'
<1> SUFFICES ASSUME IInv, [Next]_vars PROVE IInv'
  OBVIOUS
<1>1. TypeOK'
  BY NextTyped DEF IInv
<1>2. CASE UNCHANGED vars
  <2>1. Stamped' = Stamped /\ \A c : Mine(c)' = Mine(c)
    BY <1>2 DEF vars, Stamped, Mine
  <2>2. Kept' /\ ChainIsLinear' /\ Counted'
    BY <1>2, <2>1 DEF vars, IInv, Kept, RowKept, NumberKept, HeadKept, PastRow,
       PastNumber, ChainIsLinear, Counted
  <2> QED BY <1>1, <2>2 DEF IInv
<1>3. ASSUME NEW r \in Requests, Begin(r) \/ Progress(r) \/ WorkFails(r) \/ Victim(r)
      PROVE  Kept' /\ ChainIsLinear' /\ Counted'
  <2>1. CASE Begin(r)  BY <2>1, BeginKeeps
  <2>2. CASE LockRow(r)  BY <2>2, LockRowKeeps
  <2>3. CASE TakeNumber(r)  BY <2>3, TakeNumberKeeps
  <2>4. CASE LockOriginal(r)  BY <2>4, LockOriginalKeeps
  <2>5. CASE ShareHead(r)  BY <2>5, ShareHeadKeeps
  <2>6. CASE LockHead(r)  BY <2>6, LockHeadKeeps
  <2>7. CASE Commit(r)  BY <2>7, CommitKeepsChain, CommitKeepsCounted, CommitKeepsLocks
  <2>8. CASE WorkFails(r) \/ Victim(r)  BY <2>8, LetGoKeeps
  <2> QED BY <1>3, <2>1, <2>2, <2>3, <2>4, <2>5, <2>6, <2>7, <2>8 DEF Progress
<1>4. CASE Crash  BY <1>1, <1>4, CrashKeeps DEF IInv
<1> QED BY <1>1, <1>2, <1>3, <1>4 DEF Next, Detect, IInv

\* Whatever interleaves, fails, deadlocks or crashes, committed documents form
\* one gap-free chain that ends at the head.
THEOREM ChainStaysLinear == Spec => []ChainIsLinear
<1>1. IInv => ChainIsLinear  BY DEF IInv
<1> QED BY <1>1, InitIInv, NextIInv, PTL DEF Spec

\* And the numbers of each counter are 1, 2, ... n, one for each document.
THEOREM NumbersStayGapless == Spec => []NumbersHaveNoGaps
<1>1. IInv => NumbersHaveNoGaps  BY DEF IInv, Counted, Mine, NumbersHaveNoGaps
<1> QED BY <1>1, InitIInv, NextIInv, PTL DEF Spec

-----------------------------------------------------------------------------
(* Who waits for whom.  The locks tell where their holders are, and that is *)
(* enough to see that a circle can only close on the head row.             *)

\* A document's row is held by a request about it, or by one that reduces it.
RowOwned == \A d \in Docs, q \in Requests : rowBy[d] = q =>
  \/ Of[q] = d /\ PastRow(q)
  \/ Original[Of[q]] = d /\ at[q] \in {"share", "upgrade", "work"}

\* A counter is held by a request that numbers from it.
CounterOwned == \A c \in Counters, q \in Requests :
  counterBy[c] = q => CounterOf[Of[q]] = c /\ PastNumber(q)

\* The head row is shared by those that go on to lock it, and locked by one
\* that waits for nothing more.
HeadOwned == \A q \in Requests :
  /\ q \in sharers => at[q] \in {"upgrade", "work"}
  /\ headBy = q => at[q] = "work"

\* Only a memo that reduces an invoice waits for one.
MemosReduce == \A q \in Requests : at[q] = "original" => Original[Of[q]] # NoDoc

Owned == RowOwned /\ CounterOwned /\ HeadOwned /\ MemosReduce

OwnedInv == TypeOK /\ Owned

\* A request that arrives at a lock and takes it: its place tells what it holds.
LEMMA ArriveOwned ==
  ASSUME OwnedInv, NEW r \in Requests,
         \/ (LockRow(r) /\ Issuable(Of[r])) \/ TakeNumber(r) \/ LockOriginal(r)
         \/ ShareHead(r) \/ LockHead(r)
  PROVE  Owned'
<1> USE ChainAssumption
<1>0. /\ \A q \in Requests : q # Nobody
      /\ \A q \in Requests : Of[q] \in Docs /\ CounterOf[Of[q]] \in Counters
  OBVIOUS
<1>1. CASE LockRow(r) /\ Issuable(Of[r])
  <2>1. /\ at[r] = "row" /\ at' = [at EXCEPT ![r] = "number"]
        /\ rowBy' = [rowBy EXCEPT ![Of[r]] = r]
        /\ UNCHANGED <<counterBy, sharers, headBy>>
    BY <1>1 DEF LockRow, Arrive, Following
  <2>2. RowOwned'
    BY <2>1, <1>0 DEF OwnedInv, TypeOK, Owned, RowOwned, PastRow
  <2>3. CounterOwned'
    BY <2>1 DEF OwnedInv, TypeOK, Owned, CounterOwned, PastNumber
  <2>4. HeadOwned' /\ MemosReduce'
    BY <2>1 DEF OwnedInv, TypeOK, Owned, HeadOwned, MemosReduce
  <2> QED BY <2>2, <2>3, <2>4 DEF Owned
<1>2. CASE TakeNumber(r)
  <2>1. /\ at[r] = "number"
        /\ at' = [at EXCEPT ![r] = IF Original[Of[r]] # NoDoc THEN "original" ELSE "share"]
        /\ counterBy' = [counterBy EXCEPT ![CounterOf[Of[r]]] = r]
        /\ UNCHANGED <<rowBy, sharers, headBy>>
    BY <1>2 DEF TakeNumber, Arrive, Following
  <2>2. RowOwned'
    BY <2>1 DEF OwnedInv, TypeOK, Owned, RowOwned, PastRow
  <2>3. CounterOwned'
    BY <2>1, <1>0 DEF OwnedInv, TypeOK, Owned, CounterOwned, PastNumber
  <2>4. HeadOwned' /\ MemosReduce'
    BY <2>1 DEF OwnedInv, TypeOK, Owned, HeadOwned, MemosReduce
  <2> QED BY <2>2, <2>3, <2>4 DEF Owned
<1>3. CASE LockOriginal(r)
  <2>1. /\ at[r] = "original" /\ at' = [at EXCEPT ![r] = "share"]
        /\ rowBy' = [rowBy EXCEPT ![Original[Of[r]]] = r]
        /\ UNCHANGED <<counterBy, sharers, headBy>>
    BY <1>3 DEF LockOriginal, Arrive, Following
  <2>2. RowOwned'
    BY <2>1, <1>0 DEF OwnedInv, TypeOK, Owned, RowOwned, PastRow
  <2>3. CounterOwned'
    BY <2>1 DEF OwnedInv, TypeOK, Owned, CounterOwned, PastNumber
  <2>4. HeadOwned' /\ MemosReduce'
    BY <2>1 DEF OwnedInv, TypeOK, Owned, HeadOwned, MemosReduce
  <2> QED BY <2>2, <2>3, <2>4 DEF Owned
<1>4. CASE ShareHead(r)
  <2>1. /\ at[r] = "share" /\ at' = [at EXCEPT ![r] = "upgrade"]
        /\ sharers' = sharers \cup {r}
        /\ UNCHANGED <<rowBy, counterBy, headBy>>
    BY <1>4 DEF ShareHead, Arrive, Following
  <2>2. RowOwned'
    BY <2>1 DEF OwnedInv, TypeOK, Owned, RowOwned, PastRow
  <2>3. CounterOwned'
    BY <2>1 DEF OwnedInv, TypeOK, Owned, CounterOwned, PastNumber
  <2>4. HeadOwned' /\ MemosReduce'
    BY <2>1 DEF OwnedInv, TypeOK, Owned, HeadOwned, MemosReduce
  <2> QED BY <2>2, <2>3, <2>4 DEF Owned
<1>5. CASE LockHead(r)
  <2>1. /\ at[r] = "upgrade" /\ at' = [at EXCEPT ![r] = "work"] /\ headBy' = r
        /\ UNCHANGED <<rowBy, counterBy, sharers>>
    BY <1>5 DEF LockHead, Arrive, Following
  <2>2. RowOwned'
    BY <2>1 DEF OwnedInv, TypeOK, Owned, RowOwned, PastRow
  <2>3. CounterOwned'
    BY <2>1 DEF OwnedInv, TypeOK, Owned, CounterOwned, PastNumber
  <2>4. HeadOwned' /\ MemosReduce'
    BY <2>1 DEF OwnedInv, TypeOK, Owned, HeadOwned, MemosReduce
  <2> QED BY <2>2, <2>3, <2>4 DEF Owned
<1> QED BY <1>1, <1>2, <1>3, <1>4, <1>5

\* A request that lets go of everything leaves the others where they were.
LEMMA ReleaseOwned ==
  ASSUME OwnedInv, NEW r \in Requests, Release(r),
         \A q \in Requests \ {r} : at'[q] = at[q], at'[r] # "original"
  PROVE  Owned'
<1> USE ChainAssumption
<1>1. /\ \A d \in Docs, q \in Requests : rowBy'[d] = q => q # r /\ rowBy[d] = q
      /\ \A c \in Counters, q \in Requests : counterBy'[c] = q => q # r /\ counterBy[c] = q
      /\ \A q \in Requests : q \in sharers' => q # r /\ q \in sharers
      /\ \A q \in Requests : headBy' = q => q # r /\ headBy = q
  BY DEF Release
<1>2. RowOwned'
  BY <1>1 DEF OwnedInv, Owned, RowOwned, PastRow
<1>3. CounterOwned'
  BY <1>1 DEF OwnedInv, Owned, CounterOwned, PastNumber
<1>4. HeadOwned'
  BY <1>1 DEF OwnedInv, Owned, HeadOwned
<1>5. MemosReduce'
  BY DEF OwnedInv, Owned, MemosReduce
<1> QED BY <1>2, <1>3, <1>4, <1>5 DEF Owned

\* A request that holds nothing and takes nothing.
LEMMA IdleOwned ==
  ASSUME OwnedInv, NEW r \in Requests, at[r] \in {"idle", "row"},
         UNCHANGED locks, \A q \in Requests \ {r} : at'[q] = at[q],
         at'[r] # "original"
  PROVE  Owned'
<1> USE ChainAssumption DEF locks
<1>1. RowOwned'
  BY DEF OwnedInv, Owned, RowOwned, PastRow
<1>2. CounterOwned'
  BY DEF OwnedInv, Owned, CounterOwned, PastNumber
<1>3. HeadOwned' /\ MemosReduce'
  BY DEF OwnedInv, Owned, HeadOwned, MemosReduce
<1> QED BY <1>1, <1>2, <1>3 DEF Owned

LEMMA NextOwned == OwnedInv /\ [Next]_vars => OwnedInv'
<1> SUFFICES ASSUME OwnedInv, [Next]_vars PROVE Owned'
  BY NextTyped DEF OwnedInv
<1>1. CASE UNCHANGED vars
  BY <1>1 DEF vars, OwnedInv, Owned, RowOwned, CounterOwned, HeadOwned,
     MemosReduce, PastRow, PastNumber
<1>2. ASSUME NEW r \in Requests, Begin(r) PROVE Owned'
  <2>1. at[r] = "idle" /\ at' = [at EXCEPT ![r] = "row"] /\ UNCHANGED locks
    BY <1>2 DEF Begin
  <2>2. at'[r] = "row" /\ \A q \in Requests \ {r} : at'[q] = at[q]
    BY <2>1 DEF OwnedInv, TypeOK
  <2> QED BY <2>1, <2>2, IdleOwned
<1>3. ASSUME NEW r \in Requests, LockRow(r), ~Issuable(Of[r]) PROVE Owned'
  <2>1. at[r] = "row" /\ at' = [at EXCEPT ![r] = "failed"] /\ UNCHANGED locks
    BY <1>3 DEF LockRow
  <2>2. at'[r] = "failed" /\ \A q \in Requests \ {r} : at'[q] = at[q]
    BY <2>1 DEF OwnedInv, TypeOK
  <2> QED BY <2>1, <2>2, IdleOwned
<1>4. ASSUME NEW r \in Requests, Commit(r) \/ WorkFails(r) \/ Victim(r) PROVE Owned'
  <2>1. Release(r)
    BY <1>4 DEF Commit, WorkFails, Victim
  <2>2. at'[r] # "original" /\ \A q \in Requests \ {r} : at'[q] = at[q]
    BY <1>4 DEF OwnedInv, TypeOK, Commit, WorkFails, Victim
  <2> QED BY <2>1, <2>2, ReleaseOwned
<1>5. CASE Crash
  <2>1. /\ rowBy' = [d \in Docs |-> Nobody] /\ counterBy' = [c \in Counters |-> Nobody]
        /\ sharers' = {} /\ headBy' = Nobody
        /\ \A r \in Requests : at'[r] # "original"
    BY <1>5 DEF Crash, Waits
  <2> QED BY <2>1, ChainAssumption DEF Owned, RowOwned, CounterOwned, HeadOwned, MemosReduce
<1> QED BY <1>1, <1>2, <1>3, <1>4, <1>5, ArriveOwned DEF Next, Progress, Detect

LEMMA InitOwned == Init => OwnedInv
<1> SUFFICES ASSUME Init PROVE Owned
  BY InitTyped DEF OwnedInv
<1> QED BY ChainAssumption DEF Init, Owned, RowOwned, CounterOwned, HeadOwned, MemosReduce

-----------------------------------------------------------------------------
\* In a circle, everybody is waited for by another of it: without one that is
\* not, the rest would still wait for each other.
LEMMA EverybodyIsWaitedFor ==
  ASSUME NEW S \in Circles, NEW r \in S
  PROVE  \E p \in S : r \in BlockedBy(p)
<1> SUFFICES ASSUME \A p \in S : r \notin BlockedBy(p) PROVE FALSE
  OBVIOUS
<1> DEFINE U == S \ {r}
<1>1. \A p \in S : BlockedBy(p) \cap S # {}
  BY DEF Circles, Stuck
<1>2. \A p \in S : BlockedBy(p) \cap U # {}
  BY <1>1
<1>3. Stuck(U)
  BY <1>2 DEF Stuck
<1>4. U \in SUBSET S /\ U # S
  OBVIOUS
<1> QED BY <1>3, <1>4 DEF Circles

\* Where the members of a circle are.  None waits to share the head: it would
\* wait for one that waits for nothing.  None waits for its own row: it holds
\* nothing anybody waits for.
LEMMA PlacesInACircle ==
  ASSUME OwnedInv, NEW S \in Circles, NEW r \in S
  PROVE  at[r] \in {"number", "original", "upgrade"}
<1> USE ChainAssumption
<1>0. S \subseteq Requests
  BY DEF Circles
<1>1. ASSUME NEW p \in S PROVE at[p] \in Waits
  <2>1. BlockedBy(p) # {}
    BY DEF Circles, Stuck
  <2> QED BY <2>1 DEF BlockedBy, Waits
<1>2. at[r] # "share"
  <2>1. SUFFICES ASSUME at[r] = "share" PROVE FALSE
    OBVIOUS
  <2>2. PICK q \in S : q \in BlockedBy(r)
    BY DEF Circles, Stuck
  <2>3. headBy = q
    BY <2>1, <2>2 DEF BlockedBy
  <2>4. at[q] = "work"
    BY <1>0, <2>3 DEF OwnedInv, Owned, HeadOwned
  <2> QED BY <1>1, <2>4 DEF Waits
<1>3. at[r] # "row"
  <2>1. SUFFICES ASSUME at[r] = "row" PROVE FALSE
    OBVIOUS
  <2>2. /\ \A d \in Docs : rowBy[d] # r
        /\ \A c \in Counters : counterBy[c] # r
        /\ r \notin sharers /\ headBy # r
    BY <1>0, <2>1 DEF OwnedInv, Owned, RowOwned, CounterOwned, HeadOwned, PastRow, PastNumber
  <2>3. PICK p \in S : r \in BlockedBy(p)
    BY EverybodyIsWaitedFor
  <2>4. /\ Of[p] \in Docs /\ CounterOf[Of[p]] \in Counters
        /\ at[p] = "original" => Original[Of[p]] \in Docs
    BY <1>0 DEF OwnedInv, Owned, MemosReduce
  <2> QED BY <2>2, <2>3, <2>4 DEF BlockedBy
<1> QED BY <1>1, <1>2, <1>3 DEF Waits

\* A request that waits for a counter in a circle waits for a memo that has
\* its number and waits for the invoice it reduces.
LEMMA NumberWaitsForMemo ==
  ASSUME OwnedInv, NEW S \in Circles, NEW r \in S, at[r] = "number",
         \A p \in S : at[p] # "upgrade"
  PROVE  \E q \in S : /\ at[q] = "original"
                      /\ Original[Of[q]] # NoDoc
                      /\ CounterOf[Of[q]] = CounterOf[Of[r]]
<1>0. S \subseteq Requests /\ Of \in [Requests -> Docs] /\ CounterOf \in [Docs -> Counters]
  BY ChainAssumption DEF Circles
<1>1. PICK q \in S : q \in BlockedBy(r)
  BY DEF Circles, Stuck
<1>2. counterBy[CounterOf[Of[r]]] = q
  BY <1>1 DEF BlockedBy
<1>3. CounterOf[Of[q]] = CounterOf[Of[r]] /\ PastNumber(q)
  BY <1>0, <1>2 DEF OwnedInv, Owned, CounterOwned
<1>4. at[q] = "original"
  BY <1>3, PlacesInACircle DEF PastNumber
<1>5. Original[Of[q]] # NoDoc
  BY <1>0, <1>4 DEF OwnedInv, Owned, MemosReduce
<1> QED BY <1>3, <1>4, <1>5

\* A memo that waits for an invoice in a circle waits for a request about that
\* invoice.
LEMMA MemoWaitsForInvoice ==
  ASSUME OwnedInv, NEW S \in Circles, NEW r \in S, at[r] = "original",
         \A p \in S : at[p] # "upgrade"
  PROVE  \E q \in S : Of[q] = Original[Of[r]] /\ at[q] \in {"number", "original"}
<1>0. S \subseteq Requests
  BY DEF Circles
<1>1. Original[Of[r]] \in Docs
  BY <1>0, ChainAssumption DEF OwnedInv, Owned, MemosReduce
<1>2. PICK q \in S : q \in BlockedBy(r)
  BY DEF Circles, Stuck
<1>3. rowBy[Original[Of[r]]] = q
  BY <1>2 DEF BlockedBy
<1>4. at[q] \in {"number", "original"}
  BY PlacesInACircle
<1>5. Of[q] = Original[Of[r]]
  BY <1>0, <1>1, <1>3, <1>4 DEF OwnedInv, Owned, RowOwned
<1> QED BY <1>4, <1>5

LEMMA CirclesAreUpgrades == OwnedInv => OnlyUpgradesCollide
<1> SUFFICES ASSUME OwnedInv, NEW S \in Circles
             PROVE  \A r \in S : at[r] = "upgrade"
  BY DEF OnlyUpgradesCollide
<1> DEFINE U == {r \in S : at[r] = "upgrade"}
<1>0. S \subseteq Requests /\ S # {}
  BY DEF Circles, Stuck
<1>1. CASE U # {}
  <2>1. ASSUME NEW r \in U PROVE BlockedBy(r) \cap U # {}
    <3>1. PICK q \in S : q \in BlockedBy(r)
      BY DEF Circles, Stuck
    <3>2. q \in sharers \/ headBy = q
      BY <3>1 DEF BlockedBy
    <3>3. at[q] \in {"upgrade", "work"}
      BY <1>0, <3>2 DEF OwnedInv, Owned, HeadOwned
    <3>4. at[q] = "upgrade"
      BY <3>3, PlacesInACircle
    <3> QED BY <3>1, <3>4
  <2>2. Stuck(U)
    BY <1>1, <2>1 DEF Stuck
  <2>3. U = S
    BY <2>2 DEF Circles
  <2> QED BY <2>3
<1>2. CASE U = {}
  <2>0. \A p \in S : at[p] # "upgrade"
    BY <1>2
  <2>1. ASSUME NEW r \in S, at[r] = "original" PROVE FALSE
    <3>1. Original[Of[r]] # NoDoc /\ Of[r] \in Docs
      BY <1>0, <2>1, ChainAssumption DEF OwnedInv, Owned, MemosReduce
    <3>2. PICK q \in S : Of[q] = Original[Of[r]] /\ at[q] \in {"number", "original"}
      BY <2>0, <2>1, MemoWaitsForInvoice
    <3>3. PICK p \in S : /\ at[p] = "original" /\ Original[Of[p]] # NoDoc
                         /\ CounterOf[Of[p]] = CounterOf[Of[q]]
      <4>1. CASE at[q] = "number"  BY <4>1, <2>0, NumberWaitsForMemo
      <4>2. CASE at[q] = "original"
        BY <4>2, <1>0 DEF OwnedInv, Owned, MemosReduce
      <4> QED BY <3>2, <4>1, <4>2
    <3>4. Of[p] \in Docs
      BY <1>0, ChainAssumption
    <3>5. CounterOf[Original[Of[r]]] # CounterOf[Of[p]]
      BY <3>1, <3>3, <3>4, ChainAssumption
    <3> QED BY <3>2, <3>3, <3>5
  <2>2. PICK r \in S : TRUE
    BY <1>0
  <2>3. at[r] = "number"
    BY <2>0, <2>1, PlacesInACircle
  <2>4. \E q \in S : at[q] = "original"
    BY <2>0, <2>3, NumberWaitsForMemo
  <2> QED BY <2>1, <2>4
<1> QED BY <1>1, <1>2

\* Whatever requests meet, the order of the locks leaves one way to deadlock:
\* shares of the head row that wait for each other to be made exclusive.
THEOREM OnlyUpgradesDeadlock == Spec => []OnlyUpgradesCollide
BY InitOwned, NextOwned, CirclesAreUpgrades, PTL DEF Spec
=============================================================================

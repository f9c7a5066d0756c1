------------------------ MODULE ZatcaSubmissionProofs ------------------------
(***************************************************************************)
(* The ZATCA submission queue of ZatcaSubmission, for any number of sales, *)
(* workers, attempts and faults.                                           *)
(*                                                                         *)
(* That a document is accepted once is not inductive: what has been        *)
(* accepted says nothing about what may yet be submitted.  The invariant   *)
(* counts both.  A document has a chance for its sale or return still to   *)
(* come or to be enqueued, one while its row is pending, and one for every *)
(* worker that holds it and has not had it accepted; every step but a      *)
(* fault moves a chance on, turns it into an acceptance or gives it up.    *)
(***************************************************************************)
EXTENDS ZatcaSubmission, FiniteSetTheorems, TLAPS

Unborn(d) ==
  IF d[1] = "sale" THEN sale[SaleOf(d)].state = "none" ELSE ~sale[SaleOf(d)].credited

Settling(m) == m.stage \in {"accepted", "saved"}

\* A worker with m in memory may yet submit d.
Holding(m, d) == d \in DOMAIN m.rows /\ ~(Settling(m) /\ m.doc = d)
Holders(d)    == {w \in Workers : Holding(worker[w], d)}

Waits(d)    == IF Unborn(d) \/ d \in announced THEN 1 ELSE 0
Queued(d)   == IF queue[d].status = "pending" THEN 1 ELSE 0
Holds(m, d) == IF Holding(m, d) THEN 1 ELSE 0

\* How often d has been and may yet be accepted.
Chances(d) == accepted[d] + Waits(d) + Queued(d) + Cardinality(Holders(d))

-----------------------------------------------------------------------------
AnnouncedAreBorn == \A d \in announced : ~Unborn(d)

HeldAreQueued == \A w \in Workers : \A d \in DOMAIN worker[w].rows : queue[d] # NoRow

HasDoc(m) ==
  m.stage \in {"loaded", "accepted", "rejected", "saved", "refused"} =>
    m.doc \in DOMAIN m.rows

AtWork == \A w \in Workers : HasDoc(worker[w])

ChancesHold == \A d \in Docs : Chances(d) <= 1 + faults

Accepted == \A w \in Workers : Settling(worker[w]) => accepted[worker[w].doc] > 0
Done     == \A d \in Docs : queue[d].status = "done" => accepted[d] > 0
Failed   == \A d \in Docs : queue[d].status = "failed" /\ faults = 0 => Chances(d) = 0

SubmissionInv == /\ TypeOK /\ AnnouncedAreBorn /\ HeldAreQueued /\ AtWork
                 /\ ChancesHold /\ Accepted /\ Done /\ Failed

-----------------------------------------------------------------------------
(* Types.                                                                   *)

LEMMA RowIs ==
  ASSUME TypeOK, NEW d \in Docs
  PROVE  /\ queue[d] # NoRow => queue[d] \in RowsOf
         /\ queue[d].status \in {"none", "pending", "running", "done", "failed"}
         /\ queue[d].status # "none" => queue[d] \in RowsOf
         /\ queue[d] \in RowsOf => queue[d] # NoRow
BY DEF TypeOK, RowsOf, NoRow

LEMMA MemoryIs ==
  ASSUME TypeOK, NEW w \in Workers
  PROVE  /\ worker[w] = [stage |-> worker[w].stage, rows |-> worker[w].rows,
                         doc |-> worker[w].doc]
         /\ worker[w].stage \in Stages
         /\ DOMAIN worker[w].rows \subseteq Docs
         /\ worker[w].rows \in [DOMAIN worker[w].rows -> Nat]
         /\ worker[w].doc \in Docs \cup {NoDoc}
<1>1. worker[w] \in Memory
  BY DEF TypeOK
<1>2. PICK S \in SUBSET Docs : worker[w].rows \in [S -> Nat]
  BY <1>1 DEF Memory
<1>3. DOMAIN worker[w].rows = S
  BY <1>2
<1> QED
  BY <1>1, <1>2, <1>3 DEF Memory

\* What a worker may have in memory.
LEMMA MemoryType ==
  ASSUME NEW st \in Stages, NEW S \in SUBSET Docs, NEW f \in [S -> Nat],
         NEW d \in Docs \cup {NoDoc}
  PROVE  [stage |-> st, rows |-> f, doc |-> d] \in Memory
BY DEF Memory

LEMMA IdleType == Idle \in Memory
<1>1. <<>> \in [{} -> Nat]
  OBVIOUS
<1>2. Idle = [stage |-> "idle", rows |-> <<>>, doc |-> NoDoc]
  BY DEF Idle
<1>3. "idle" \in Stages
  BY DEF Stages
<1> QED
  BY <1>1, <1>2, <1>3, MemoryType

-----------------------------------------------------------------------------
(* Counting.                                                                *)

LEMMA CountChange ==
  ASSUME NEW S, NEW T, NEW w, IsFiniteSet(S), S \ {w} = T \ {w}
  PROVE  /\ IsFiniteSet(T) /\ Cardinality(S) \in Nat /\ Cardinality(T) \in Nat
         /\ Cardinality(T) - (IF w \in T THEN 1 ELSE 0) =
              Cardinality(S) - (IF w \in S THEN 1 ELSE 0)
<1>1. IsFiniteSet(S \ {w})
  BY FS_RemoveElement
<1>2. /\ IsFiniteSet((S \ {w}) \cup {w})
      /\ Cardinality((S \ {w}) \cup {w}) = Cardinality(S \ {w}) + 1
  BY <1>1, FS_AddElement
<1>3. Cardinality(S \ {w}) \in Nat
  BY <1>1, FS_CardinalityType
<1>4. ASSUME NEW U, U \ {w} = S \ {w}
      PROVE  /\ IsFiniteSet(U) /\ Cardinality(U) \in Nat
             /\ Cardinality(U) - (IF w \in U THEN 1 ELSE 0) = Cardinality(S \ {w})
  <2>1. CASE w \in U
    <3>1. U = (S \ {w}) \cup {w}
      BY <1>4, <2>1
    <3> QED BY <1>2, <1>3, <2>1, <3>1
  <2>2. CASE w \notin U
    <3>1. U = S \ {w}
      BY <1>4, <2>2
    <3> QED BY <1>1, <1>3, <2>2, <3>1
  <2> QED BY <2>1, <2>2
<1> QED BY <1>4

LEMMA ChancesType ==
  ASSUME TypeOK, NEW d \in Docs
  PROVE  /\ accepted[d] \in Nat /\ Waits(d) \in 0..1 /\ Queued(d) \in 0..1
         /\ IsFiniteSet(Holders(d)) /\ Cardinality(Holders(d)) \in Nat
         /\ Chances(d) \in Nat
<1>1. IsFiniteSet(Holders(d))
  BY SubmissionAssumption, FS_Subset DEF Holders
<1>2. Cardinality(Holders(d)) \in Nat
  BY <1>1, FS_CardinalityType
<1>3. accepted[d] \in Nat /\ Waits(d) \in 0..1 /\ Queued(d) \in 0..1
  BY DEF TypeOK, Waits, Queued
<1> QED BY <1>1, <1>2, <1>3 DEF Chances

LEMMA ChancesAreNat == TypeOK => \A d \in Docs : Chances(d) \in Nat
BY ChancesType

\* A document that a worker holds has one of its chances there.
LEMMA HeldChance ==
  ASSUME TypeOK, NEW d \in Docs, NEW w \in Workers, Holding(worker[w], d)
  PROVE  Cardinality(Holders(d)) >= 1
<1>1. w \in Holders(d)
  BY DEF Holders
<1> QED BY <1>1, ChancesType, FS_EmptySet

\* What is left to show of a step when its types are known.
LEMMA InvKept ==
  ASSUME SubmissionInv, TypeOK', AnnouncedAreBorn', HeldAreQueued', AtWork', Accepted',
         faults' >= faults,
         \A d \in Docs :
           /\ Chances(d)' <= Chances(d) + (faults' - faults)
           /\ queue'[d].status = "done" => accepted'[d] > 0
           /\ queue'[d].status = "failed" /\ faults' = 0 =>
                queue[d].status = "failed" \/ Chances(d)' = 0
  PROVE  SubmissionInv'
<1>1. faults \in Nat /\ faults' \in Nat
  BY SubmissionAssumption DEF SubmissionInv, TypeOK
<1>2. \A d \in Docs : Chances(d) \in Nat
  BY ChancesAreNat DEF SubmissionInv
<1>3. \A d \in Docs : Chances(d)' \in Nat
  <2>1. TypeOK' => (\A d \in Docs : Chances(d) \in Nat)'
    BY ChancesAreNat, PTL
  <2> QED BY <2>1
<1>4. ChancesHold'
  BY <1>1, <1>2, <1>3 DEF SubmissionInv, ChancesHold
<1>5. Failed'
  BY <1>1, <1>2, <1>3 DEF SubmissionInv, Failed
<1>6. Done'
  BY DEF Done
<1> QED BY <1>4, <1>5, <1>6 DEF SubmissionInv
-----------------------------------------------------------------------------
(* A step of one worker.                                                    *)

Alters(w, m) == worker' = [worker EXCEPT ![w] = m]

LEMMA OthersStay ==
  ASSUME TypeOK, NEW w \in Workers, NEW m, Alters(w, m)
  PROVE  worker'[w] = m /\ \A v \in Workers \ {w} : worker'[v] = worker[v]
BY DEF TypeOK, Alters

\* The chances of a document change behind a step of w by what w holds, by the
\* queue row and by what the authority has accepted.
LEMMA ChancesMove ==
  ASSUME TypeOK, NEW w \in Workers, NEW m, Alters(w, m), NEW d \in Docs,
         accepted'[d] \in Nat
  PROVE  /\ Chances(d) = accepted[d] + Waits(d) + Queued(d) + Cardinality(Holders(d))
         /\ Chances(d)' = accepted'[d] + Waits(d)' + Queued(d)' + Cardinality(Holders(d)')
         /\ Waits(d)' \in 0..1 /\ Queued(d)' \in 0..1
         /\ Cardinality(Holders(d)) \in Nat /\ Cardinality(Holders(d)') \in Nat
         /\ Cardinality(Holders(d)') - Holds(m, d) =
              Cardinality(Holders(d)) - Holds(worker[w], d)
<1>1. Holders(d) \ {w} = Holders(d)' \ {w}
  BY OthersStay DEF Holders, Holding, Settling
<1>2. IsFiniteSet(Holders(d))
  BY ChancesType
<1>3. /\ (w \in Holders(d)) <=> Holding(worker[w], d)
      /\ (w \in Holders(d)') <=> Holding(m, d)
  BY OthersStay DEF Holders, Holding, Settling
<1>4. /\ Cardinality(Holders(d)) \in Nat /\ Cardinality(Holders(d)') \in Nat
      /\ Cardinality(Holders(d)') - (IF w \in Holders(d)' THEN 1 ELSE 0) =
           Cardinality(Holders(d)) - (IF w \in Holders(d) THEN 1 ELSE 0)
  BY <1>1, <1>2, CountChange
<1> QED BY <1>3, <1>4 DEF Chances, Waits, Queued, Holds

\* A turn of w that leaves m in its memory.
LEMMA TurnKept ==
  ASSUME SubmissionInv, TypeOK', NEW w \in Workers, NEW m \in Memory, Alters(w, m),
         HasDoc(m), Settling(m) => accepted'[m.doc] > 0,
         \A d \in DOMAIN m.rows : queue[d] # NoRow,
         sale' = sale \/ \A d \in Docs : Unborn(d)' <=> Unborn(d),
         announced' = announced, faults' >= faults,
         \A d \in Docs :
           /\ accepted'[d] >= accepted[d]
           /\ queue[d] # NoRow => queue'[d] # NoRow
           /\ accepted'[d] + Queued(d)' + Holds(m, d) <=
                accepted[d] + Queued(d) + Holds(worker[w], d) + (faults' - faults)
           /\ queue'[d].status = "done" => queue[d].status = "done" \/ accepted'[d] > 0
           /\ queue'[d].status = "failed" =>
                \/ queue[d].status = "failed" \/ faults' > faults
                \/ accepted'[d] + Queued(d)' + Holds(m, d) <
                     accepted[d] + Queued(d) + Holds(worker[w], d)
  PROVE  SubmissionInv'
<1> USE DEF SubmissionInv
<1>1. faults \in Nat /\ faults' \in Nat
  BY SubmissionAssumption DEF TypeOK
<1>2. \A d \in Docs : (Unborn(d)' <=> Unborn(d)) /\ Waits(d)' = Waits(d)
  BY DEF Unborn, Waits
<1>3. \A v \in Workers : v # w => worker'[v] = worker[v]
  BY OthersStay
<1>4. worker'[w] = m
  BY OthersStay
<1>5. \A d \in Docs : /\ accepted[d] \in Nat /\ accepted'[d] \in Nat
                      /\ Queued(d) \in 0..1 /\ Queued(d)' \in 0..1
                      /\ Waits(d) \in 0..1
                      /\ Holds(m, d) \in 0..1 /\ Holds(worker[w], d) \in 0..1
  BY DEF TypeOK, Queued, Waits, Holds
<1>6. \A d \in Docs :
        /\ Chances(d)' <= Chances(d) + (faults' - faults)
        /\ queue'[d].status = "failed" /\ faults' = 0 =>
             queue[d].status = "failed" \/ Chances(d)' = 0
  <2> TAKE d \in Docs
  <2>1. /\ Chances(d) = accepted[d] + Waits(d) + Queued(d) + Cardinality(Holders(d))
        /\ Chances(d)' = accepted'[d] + Waits(d)' + Queued(d)' + Cardinality(Holders(d)')
        /\ Cardinality(Holders(d)) \in Nat /\ Cardinality(Holders(d)') \in Nat
        /\ Cardinality(Holders(d)') - Holds(m, d) =
             Cardinality(Holders(d)) - Holds(worker[w], d)
    BY <1>5, ChancesMove
  <2>2. Chances(d)' <= Chances(d) + (faults' - faults)
    BY <1>1, <1>2, <1>5, <2>1
  <2>3. ASSUME queue'[d].status = "failed", queue[d].status # "failed", faults' = 0
        PROVE  Chances(d)' = 0
    <3>1. faults = 0 /\ Chances(d) <= 1
      BY <1>1, <2>3 DEF ChancesHold
    <3>2. accepted'[d] + Queued(d)' + Holds(m, d) <
            accepted[d] + Queued(d) + Holds(worker[w], d)
      BY <2>3, <3>1
    <3>3. Chances(d)' < Chances(d)
      BY <1>2, <1>5, <2>1, <3>2
    <3>4. Chances(d) \in Nat /\ Chances(d)' \in Nat
      BY <1>2, <1>5, <2>1
    <3> QED BY <3>1, <3>3, <3>4
  <2> QED BY <2>2, <2>3
<1>7. AnnouncedAreBorn'
  BY <1>2 DEF AnnouncedAreBorn, TypeOK
<1>8. HeldAreQueued'
  <2> SUFFICES ASSUME NEW v \in Workers, NEW d \in DOMAIN worker'[v].rows
               PROVE  queue'[d] # NoRow
    BY DEF HeldAreQueued
  <2>1. DOMAIN m.rows \subseteq Docs /\ DOMAIN worker[v].rows \subseteq Docs
    BY MemoryIs DEF Memory
  <2>2. queue[d] # NoRow /\ d \in Docs
    BY <1>3, <1>4, <2>1 DEF HeldAreQueued
  <2> QED BY <2>2
<1>9. AtWork'
  BY <1>3, <1>4 DEF AtWork, HasDoc
<1>10. Accepted'
  <2> SUFFICES ASSUME NEW v \in Workers, Settling(worker'[v])
               PROVE  accepted'[worker'[v].doc] > 0
    BY DEF Accepted, Settling
  <2>1. CASE v = w
    BY <1>4, <2>1
  <2>2. CASE v # w
    <3>1. worker'[v] = worker[v] /\ worker[v].doc \in Docs
      BY <1>3, <2>2, MemoryIs DEF AtWork, HasDoc, Settling
    <3> QED BY <1>5, <3>1 DEF Accepted
  <2> QED BY <2>1, <2>2
<1>11. \A d \in Docs : queue'[d].status = "done" => accepted'[d] > 0
  BY <1>5 DEF Done
<1> QED BY <1>6, <1>7, <1>8, <1>9, <1>10, <1>11, InvKept
-----------------------------------------------------------------------------
(* What a worker does to its memory and to the queue.                       *)

LEMMA ProceedIs ==
  ASSUME TypeOK, NEW w \in Workers, NEW d \in Docs, Proceed(w, d)
  PROVE  \E m \in Memory : /\ Alters(w, m) /\ HasDoc(m) /\ ~Settling(m)
                           /\ DOMAIN m.rows = DOMAIN worker[w].rows \ {d}
<1> DEFINE rest == DOMAIN worker[w].rows \ {d}
           next == [stage |-> "working", rows |-> Restrict(worker[w].rows, rest),
                    doc |-> NoDoc]
<1>1. rest \in SUBSET Docs /\ Restrict(worker[w].rows, rest) \in [rest -> Nat]
  BY MemoryIs DEF Restrict
<1>2. next \in Memory
  BY <1>1, MemoryType DEF Stages
<1>3. CASE rest = {}
  <2>1. Alters(w, Idle) /\ Idle \in Memory
    BY <1>3, IdleType DEF Proceed, Alters
  <2>2. DOMAIN Idle.rows = {} /\ HasDoc(Idle) /\ ~Settling(Idle)
    BY DEF Idle, HasDoc, Settling
  <2> QED BY <1>3, <2>1, <2>2
<1>4. CASE rest # {}
  <2>1. Alters(w, next)
    BY <1>4 DEF Proceed, Alters
  <2>2. DOMAIN next.rows = rest /\ HasDoc(next) /\ ~Settling(next)
    BY <1>1 DEF HasDoc, Settling
  <2> QED BY <1>2, <2>1, <2>2
<1> QED BY <1>3, <1>4

At(w, st, d) == [stage |-> st, rows |-> worker[w].rows, doc |-> d]

LEMMA StageIs ==
  ASSUME TypeOK, NEW w \in Workers, NEW st \in Stages, NEW d \in Docs \cup {NoDoc}
  PROVE  /\ At(w, st, d) \in Memory
         /\ Stage(w, d, st) => Alters(w, At(w, st, d))
<1>1. At(w, st, d) \in Memory
  BY MemoryIs, MemoryType DEF At
<1>2. Stage(w, d, st) => Alters(w, At(w, st, d))
  BY DEF Stage, Alters, At
<1> QED BY <1>1, <1>2

LEMMA NextStageIs ==
  ASSUME TypeOK, NEW w \in Workers, NEW st \in Stages,
         worker' = [worker EXCEPT ![w].stage = st]
  PROVE  /\ At(w, st, worker[w].doc) \in Memory
         /\ Alters(w, At(w, st, worker[w].doc))
<1> DEFINE now == [stage |-> worker[w].stage, rows |-> worker[w].rows,
                   doc |-> worker[w].doc]
<1>1. worker[w] = now /\ now.doc \in Docs \cup {NoDoc}
  BY MemoryIs
<1>2. [worker[w] EXCEPT !.stage = st] = At(w, st, worker[w].doc)
  <2>1. [now EXCEPT !.stage = st] = At(w, st, worker[w].doc)
    BY DEF At
  <2> HIDE DEF now
  <2> QED BY <1>1, <2>1
<1> QED BY <1>1, <1>2, StageIs DEF Alters

\* A document is worked on only while it is among the rows.
LEMMA RowInHand ==
  ASSUME SubmissionInv, NEW w \in Workers, NEW d \in DOMAIN worker[w].rows
  PROVE  d \in Docs /\ queue[d] # NoRow /\ queue[d] \in RowsOf /\ worker[w].rows[d] \in Nat
BY MemoryIs, RowIs DEF SubmissionInv, HeldAreQueued

LEMMA RetryKept ==
  ASSUME SubmissionInv, NEW w \in Workers, NEW d \in DOMAIN worker[w].rows,
         Retry(w, d), Settling(worker[w]) => worker[w].doc = d,
         UNCHANGED <<saleVars, announced, onboarded, deleting>>,
         faults' \in 0..MaxFaults,
         \/ faults' = faults /\ accepted' = accepted /\ ~Settling(worker[w])
         \/ faults' = faults + 1 /\ accepted' = accepted
         \/ faults' = faults + 1 /\ Accept(d) /\ ~Settling(worker[w])
  PROVE  SubmissionInv'
<1>1. /\ d \in Docs /\ queue[d] # NoRow
      /\ worker[w].rows[d] + 1 \in Nat
  BY RowInHand
<1>2. PICK m \in Memory : /\ Alters(w, m) /\ HasDoc(m) /\ ~Settling(m)
                          /\ DOMAIN m.rows = DOMAIN worker[w].rows \ {d}
  BY <1>1, ProceedIs DEF Retry, SubmissionInv
<1>3. PICK row \in RowsOf : /\ row.status \in {"pending", "failed"}
                            /\ queue' = [queue EXCEPT ![d] = row]
  <2> DEFINE n   == worker[w].rows[d] + 1
             row == [status |-> IF n >= MaxAttempts THEN "failed" ELSE "pending",
                     attempts |-> n]
  <2>1. queue' = [queue EXCEPT ![d] = row]
    BY DEF Retry
  <2>2. row \in RowsOf /\ row.status \in {"pending", "failed"}
    BY <1>1 DEF RowsOf
  <2> QED BY <2>1, <2>2
<1>4. queue' \in [Docs -> RowsOf \cup {NoRow}]
  BY <1>1, <1>3 DEF SubmissionInv, TypeOK
<1>5. TypeOK'
  BY <1>1, <1>2, <1>4 DEF SubmissionInv, TypeOK, TypeOKSales, saleVars, Alters, Accept
<1>6. \A e \in Docs : e # d => queue'[e] = queue[e]
  BY <1>3 DEF SubmissionInv, TypeOK
<1>7. queue'[d] = row /\ row # NoRow
  BY <1>1, <1>3 DEF SubmissionInv, TypeOK, RowsOf, NoRow
<1>8. \A e \in Docs : accepted[e] \in Nat /\ accepted'[e] \in Nat
  BY <1>5 DEF SubmissionInv, TypeOK
<1>9. faults \in Nat /\ faults' \in Nat /\ faults' >= faults
  BY SubmissionAssumption DEF SubmissionInv, TypeOK
<1>10. \A e \in Docs : e # d =>
         accepted'[e] = accepted[e] /\ Holds(m, e) = Holds(worker[w], e)
  BY <1>2 DEF Holds, Holding, Accept, SubmissionInv, TypeOK
<1>11. /\ Holds(m, d) = 0
       /\ Holds(worker[w], d) = IF Settling(worker[w]) THEN 0 ELSE 1
  BY <1>2 DEF Holds, Holding
<1>12. \/ accepted'[d] = accepted[d] /\ (faults' = faults => ~Settling(worker[w]))
       \/ accepted'[d] = accepted[d] + 1 /\ faults' = faults + 1 /\ ~Settling(worker[w])
  <2>1. Accept(d) => accepted'[d] = accepted[d] + 1
    BY <1>1 DEF Accept, SubmissionInv, TypeOK
  <2> QED BY <1>9, <2>1
<1>13. \A e \in Docs :
           /\ accepted'[e] >= accepted[e]
           /\ queue[e] # NoRow => queue'[e] # NoRow
           /\ accepted'[e] + Queued(e)' + Holds(m, e) <=
                accepted[e] + Queued(e) + Holds(worker[w], e) + (faults' - faults)
           /\ queue'[e].status = "done" => queue[e].status = "done" \/ accepted'[e] > 0
           /\ queue'[e].status = "failed" =>
                \/ queue[e].status = "failed" \/ faults' > faults
                \/ accepted'[e] + Queued(e)' + Holds(m, e) <
                     accepted[e] + Queued(e) + Holds(worker[w], e)
  <2> TAKE e \in Docs
  <2>1. CASE e # d
    <3>1. Queued(e)' = Queued(e)
      BY <1>6, <2>1 DEF Queued
    <3>2. Queued(e) \in 0..1 /\ Holds(worker[w], e) \in 0..1
      BY DEF Queued, Holds
    <3> QED BY <1>6, <1>8, <1>9, <1>10, <2>1, <3>1, <3>2
  <2>2. CASE e = d
    <3>1. /\ Queued(d) \in 0..1
          /\ Queued(d)' = IF row.status = "pending" THEN 1 ELSE 0
      BY <1>7 DEF Queued
    <3> QED BY <1>1, <1>3, <1>7, <1>8, <1>9, <1>11, <1>12, <2>2, <3>1
  <2> QED BY <2>1, <2>2
<1>14. \A e \in DOMAIN m.rows : queue[e] # NoRow
  BY <1>2, RowInHand
<1>15. sale' = sale /\ announced' = announced
  BY DEF saleVars
<1> QED BY <1>2, <1>5, <1>9, <1>13, <1>14, <1>15, TurnKept
-----------------------------------------------------------------------------
(* The steps of a worker.                                                   *)

\* Another stage of the same rows.
LEMMA StageKept ==
  ASSUME SubmissionInv, NEW w \in Workers, NEW st \in Stages,
         NEW d \in Docs \cup {NoDoc}, Alters(w, At(w, st, d)), HasDoc(At(w, st, d)),
         UNCHANGED <<shelf, queue, announced, onboarded, deleting, faults>>,
         sale' \in [Sales -> SaleRows],
         sale' = sale \/ \A e \in Docs : Unborn(e)' <=> Unborn(e),
         accepted' \in [Docs -> Nat],
         Settling(At(w, st, d)) => accepted'[d] > 0,
         \A e \in Docs :
           /\ accepted'[e] >= accepted[e]
           /\ accepted'[e] + Holds(At(w, st, d), e) = accepted[e] + Holds(worker[w], e)
  PROVE  SubmissionInv'
<1> DEFINE m == At(w, st, d)
<1>1. m \in Memory
  BY StageIs DEF SubmissionInv
<1>2. TypeOK'
  BY <1>1 DEF SubmissionInv, TypeOK, TypeOKSales, Alters
<1>3. faults \in Nat
  BY SubmissionAssumption DEF SubmissionInv, TypeOK
<1>4. \A e \in Docs : Queued(e)' = Queued(e) /\ Queued(e) \in 0..1
  BY DEF Queued
<1>5. \A e \in Docs : /\ accepted[e] \in Nat /\ accepted'[e] \in Nat
                      /\ Holds(m, e) \in 0..1 /\ Holds(worker[w], e) \in 0..1
  BY DEF SubmissionInv, TypeOK, Holds
<1>6. \A e \in DOMAIN m.rows : queue[e] # NoRow
  BY RowInHand DEF At
<1>7. Settling(m) => accepted'[m.doc] > 0
  BY DEF At
<1>8. HasDoc(m) /\ Alters(w, m)
  OBVIOUS
<1>9. \A e \in Docs : accepted'[e] + Holds(m, e) = accepted[e] + Holds(worker[w], e)
  OBVIOUS
<1> HIDE DEF m
<1> QED BY <1>1, <1>2, <1>3, <1>4, <1>5, <1>6, <1>7, <1>8, <1>9, TurnKept

LEMMA LoadKept == ASSUME SubmissionInv, NEW w \in Workers, Load(w) PROVE SubmissionInv'
<1>1. worker[w].stage = "working" /\ ~Settling(worker[w])
  BY DEF Load, Settling
<1>2. PICK d \in DOMAIN worker[w].rows :
        \/ Found(d) /\ Stage(w, d, "loaded") /\ UNCHANGED queue
        \/ ~Found(d) /\ Retry(w, d)
  BY DEF Load
<1>3. d \in Docs
  BY RowInHand
<1>4. UNCHANGED <<saleVars, announced, accepted, onboarded, deleting, faults>>
  BY DEF Load
<1>5. faults' \in 0..MaxFaults /\ sale' \in [Sales -> SaleRows] /\ accepted' \in [Docs -> Nat]
  BY <1>4 DEF SubmissionInv, TypeOK, TypeOKSales, saleVars
<1>6. CASE Retry(w, d)
  BY <1>1, <1>4, <1>5, <1>6, RetryKept
<1>7. CASE Stage(w, d, "loaded") /\ UNCHANGED queue
  <2> DEFINE m == At(w, "loaded", d)
  <2>1. "loaded" \in Stages
    BY DEF Stages
  <2>2. Alters(w, m)
    BY <1>3, <1>7, <2>1, StageIs DEF SubmissionInv
  <2>3. HasDoc(m) /\ ~Settling(m)
    BY DEF At, HasDoc, Settling
  <2>4. \A e \in Docs : Holds(m, e) = Holds(worker[w], e)
    BY <1>1, <2>3 DEF Holds, Holding, At
  <2>5. \A e \in Docs : accepted[e] \in Nat
    BY DEF SubmissionInv, TypeOK
  <2> QED BY <1>3, <1>4, <1>5, <1>7, <2>1, <2>2, <2>3, <2>4, <2>5, StageKept DEF saleVars
<1> QED BY <1>2, <1>6, <1>7

\* The document a worker is at.
LEMMA DocInHand ==
  ASSUME SubmissionInv, NEW w \in Workers,
         worker[w].stage \in {"loaded", "accepted", "rejected", "saved", "refused"}
  PROVE  worker[w].doc \in DOMAIN worker[w].rows /\ worker[w].doc \in Docs
BY RowInHand DEF SubmissionInv, AtWork, HasDoc

LEMMA SubmitKept == ASSUME SubmissionInv, NEW w \in Workers, Submit(w) PROVE SubmissionInv'
<1> DEFINE d == worker[w].doc
<1>1. worker[w].stage = "loaded" /\ ~Settling(worker[w])
  BY DEF Submit, Settling
<1>2. d \in DOMAIN worker[w].rows /\ d \in Docs
  BY <1>1, DocInHand
<1>3. UNCHANGED <<saleVars, announced, onboarded, deleting>>
  BY DEF Submit
<1>4. faults \in 0..MaxFaults /\ sale \in [Sales -> SaleRows] /\ accepted \in [Docs -> Nat]
  BY DEF SubmissionInv, TypeOK, TypeOKSales
<1>5. \/ Stage(w, d, "accepted") /\ Accept(d) /\ UNCHANGED <<queue, faults>>
      \/ Stage(w, d, "rejected") /\ UNCHANGED <<queue, accepted, faults>>
      \/ Retry(w, d) /\ UNCHANGED <<accepted, faults>>
      \/ Retry(w, d) /\ Accept(d) /\ Fault
  BY DEF Submit
<1> HIDE DEF d
<1>6. CASE Stage(w, d, "accepted") /\ Accept(d) /\ UNCHANGED <<queue, faults>>
  <2> DEFINE m == At(w, "accepted", d)
  <2>1. "accepted" \in Stages
    BY DEF Stages
  <2>2. Alters(w, m)
    BY <1>2, <1>6, <2>1, StageIs DEF SubmissionInv
  <2>3. HasDoc(m) /\ Settling(m)
    BY <1>2 DEF At, HasDoc, Settling
  <2>4. accepted' = [accepted EXCEPT ![d] = @ + 1] /\ accepted' \in [Docs -> Nat]
    BY <1>2, <1>4, <1>6 DEF Accept
  <2>5. \A e \in Docs :
          Holds(m, e) = IF e = d THEN 0 ELSE Holds(worker[w], e)
    BY <1>1, <2>3 DEF Holds, Holding, At
  <2>6. Holds(worker[w], d) = 1
    BY <1>1, <1>2 DEF Holds, Holding
  <2>7. \A e \in Docs : Holds(worker[w], e) \in 0..1 /\ accepted[e] \in Nat
    BY <1>4 DEF Holds
  <2>8. \A e \in Docs : /\ accepted'[e] >= accepted[e]
                        /\ accepted'[e] + Holds(m, e) = accepted[e] + Holds(worker[w], e)
    BY <1>4, <2>4, <2>5, <2>6, <2>7
  <2>9. accepted'[d] > 0
    BY <1>2, <1>4, <2>4
  <2> HIDE DEF m
  <2> QED BY <1>2, <1>3, <1>4, <1>6, <2>1, <2>2, <2>3, <2>4, <2>8, <2>9, StageKept
          DEF saleVars, m
<1>7. CASE Stage(w, d, "rejected") /\ UNCHANGED <<queue, accepted, faults>>
  <2> DEFINE m == At(w, "rejected", d)
  <2>1. "rejected" \in Stages
    BY DEF Stages
  <2>2. Alters(w, m)
    BY <1>2, <1>7, <2>1, StageIs DEF SubmissionInv
  <2>3. HasDoc(m) /\ ~Settling(m)
    BY <1>2 DEF At, HasDoc, Settling
  <2>4. \A e \in Docs : Holds(m, e) = Holds(worker[w], e)
    BY <1>1, <2>3 DEF Holds, Holding, At
  <2>5. \A e \in Docs : accepted[e] \in Nat
    BY <1>4
  <2> HIDE DEF m
  <2> QED BY <1>2, <1>3, <1>4, <1>7, <2>1, <2>2, <2>3, <2>4, <2>5, StageKept
          DEF saleVars, m
<1>8. CASE Retry(w, d) /\ UNCHANGED <<accepted, faults>>
  BY <1>1, <1>2, <1>3, <1>4, <1>8, RetryKept
<1>9. CASE Retry(w, d) /\ Accept(d) /\ Fault
  <2>1. faults' \in 0..MaxFaults /\ faults' = faults + 1
    BY <1>4, <1>9, SubmissionAssumption DEF Fault
  <2> QED BY <1>1, <1>2, <1>3, <1>9, <2>1, RetryKept
<1> QED BY <1>5, <1>6, <1>7, <1>8, <1>9

LEMMA PersistKept == ASSUME SubmissionInv, NEW w \in Workers, Persist(w) PROVE SubmissionInv'
<1> DEFINE d  == worker[w].doc
           st == IF worker[w].stage = "accepted" THEN "saved" ELSE "refused"
           m  == At(w, st, d)
<1>1. worker[w].stage \in {"accepted", "rejected"} /\ Stage(w, d, st)
  BY DEF Persist
<1>2. d \in DOMAIN worker[w].rows /\ d \in Docs
  BY <1>1, DocInHand
<1>3. st \in Stages /\ Alters(w, m)
  BY <1>1, <1>2, StageIs DEF SubmissionInv, Stages
<1>4. HasDoc(m) /\ (Settling(m) <=> Settling(worker[w]))
  BY <1>1, <1>2 DEF At, HasDoc, Settling
<1>5. \A e \in Docs : Holds(m, e) = Holds(worker[w], e)
  BY <1>4 DEF Holds, Holding, At
<1>6. accepted' = accepted /\ accepted \in [Docs -> Nat]
  BY DEF Persist, SubmissionInv, TypeOK
<1>7. Settling(m) => accepted'[d] > 0
  BY <1>4, <1>6 DEF SubmissionInv, Accepted
<1>8. /\ sale' \in [Sales -> SaleRows]
      /\ \A s \in Sales : /\ sale'[s].state = sale[s].state
                          /\ sale'[s].credited = sale[s].credited
  <2>1. sale \in [Sales -> SaleRows]
    BY DEF SubmissionInv, TypeOK, TypeOKSales
  <2>2. sale' = sale \/ sale' = [sale EXCEPT ![SaleOf(d)].submitted = TRUE]
    BY DEF Persist
  <2>3. ASSUME NEW s \in Sales
        PROVE  LET x == [sale[s] EXCEPT !.submitted = TRUE]
               IN  x \in SaleRows /\ x.state = sale[s].state /\ x.credited = sale[s].credited
    BY <2>1 DEF SaleRows
  <2>4. SaleOf(d) \in Sales
    BY <1>2 DEF Docs, SaleOf
  <2> HIDE DEF d
  <2>5. CASE sale' = [sale EXCEPT ![SaleOf(d)].submitted = TRUE]
    BY <2>1, <2>3, <2>4, <2>5
  <2> QED BY <2>1, <2>2, <2>5
<1>9. \A e \in Docs : Unborn(e)' <=> Unborn(e)
  BY <1>8 DEF Unborn, Docs, SaleOf
<1>10. UNCHANGED <<shelf, queue, announced, onboarded, deleting, faults>>
  BY DEF Persist
<1> HIDE DEF m, st, d
<1>11. \A e \in Docs : accepted[e] \in Nat
  BY <1>6
<1> QED BY <1>2, <1>3, <1>4, <1>5, <1>6, <1>7, <1>8, <1>9, <1>10, <1>11, StageKept DEF m

LEMMA SettleKept == ASSUME SubmissionInv, NEW w \in Workers, Settle(w) PROVE SubmissionInv'
<1> DEFINE d == worker[w].doc
<1>1. \/ /\ worker[w].stage = "saved" /\ Proceed(w, d)
         /\ queue' = [queue EXCEPT ![d].status = "done"]
      \/ worker[w].stage = "refused" /\ Retry(w, d)
  BY DEF Settle
<1>2. d \in DOMAIN worker[w].rows /\ d \in Docs /\ queue[d] \in RowsOf
  BY <1>1, DocInHand, RowInHand
<1>3. UNCHANGED <<saleVars, announced, accepted, onboarded, deleting, faults>>
  BY DEF Settle
<1>4. faults \in 0..MaxFaults /\ queue \in [Docs -> RowsOf \cup {NoRow}]
  BY DEF SubmissionInv, TypeOK
<1>5. CASE worker[w].stage = "refused" /\ Retry(w, d)
  <2>1. ~Settling(worker[w])
    BY <1>5 DEF Settling
  <2> QED BY <1>2, <1>3, <1>4, <1>5, <2>1, RetryKept
<1>6. CASE /\ worker[w].stage = "saved" /\ Proceed(w, d)
           /\ queue' = [queue EXCEPT ![d].status = "done"]
  <2>1. PICK m \in Memory : /\ Alters(w, m) /\ HasDoc(m) /\ ~Settling(m)
                            /\ DOMAIN m.rows = DOMAIN worker[w].rows \ {d}
    BY <1>2, <1>6, ProceedIs DEF SubmissionInv
  <2>2. [queue[d] EXCEPT !.status = "done"] \in RowsOf
    BY <1>2 DEF RowsOf
  <2>3. /\ queue' \in [Docs -> RowsOf \cup {NoRow}]
        /\ \A e \in Docs : e # d => queue'[e] = queue[e]
        /\ queue'[d].status = "done" /\ queue'[d] # NoRow
    BY <1>2, <1>4, <1>6, <2>2 DEF RowsOf, NoRow
  <2>4. TypeOK'
    BY <1>3, <2>1, <2>3 DEF SubmissionInv, TypeOK, TypeOKSales, saleVars, Alters
  <2>5. \A e \in Docs : Holds(m, e) = Holds(worker[w], e)
    BY <1>6, <2>1 DEF Holds, Holding, Settling
  <2>6. \A e \in Docs : /\ accepted[e] \in Nat /\ Queued(e) \in 0..1
                        /\ Queued(e)' = IF e = d THEN 0 ELSE Queued(e)
    BY <2>3 DEF SubmissionInv, TypeOK, Queued
  <2>7. accepted[d] > 0
    BY <1>6 DEF SubmissionInv, Accepted, Settling
  <2>8. \A e \in DOMAIN m.rows : queue[e] # NoRow
    BY <2>1, RowInHand
  <2>9. \A e \in Docs : Holds(m, e) \in 0..1
    BY DEF Holds
  <2> QED BY <1>3, <1>4, <2>1, <2>3, <2>4, <2>5, <2>6, <2>7, <2>8, <2>9, TurnKept
          DEF saleVars
<1> QED BY <1>1, <1>5, <1>6

LEMMA StatementFailsKept ==
  ASSUME SubmissionInv, NEW w \in Workers, StatementFails(w) PROVE SubmissionInv'
<1>1. worker[w].stage \in {"accepted", "rejected", "saved"} /\ Retry(w, worker[w].doc)
  BY DEF StatementFails
<1>2. worker[w].doc \in DOMAIN worker[w].rows
  BY <1>1, DocInHand
<1>3. faults' \in 0..MaxFaults /\ faults' = faults + 1
  BY SubmissionAssumption DEF StatementFails, Fault, SubmissionInv, TypeOK
<1>4. UNCHANGED <<saleVars, announced, accepted, onboarded, deleting>>
  BY DEF StatementFails
<1> QED BY <1>1, <1>2, <1>3, <1>4, RetryKept

LEMMA ForgetKept == ASSUME SubmissionInv, NEW w \in Workers, Forget(w) PROVE SubmissionInv'
<1>1. Alters(w, Idle) /\ Idle \in Memory
  BY IdleType DEF Forget, Alters
<1>2. DOMAIN Idle.rows = {} /\ HasDoc(Idle) /\ ~Settling(Idle)
  BY DEF Idle, HasDoc, Settling
<1>3. UNCHANGED <<saleVars, queue, announced, accepted, onboarded, deleting>>
  BY DEF Forget
<1>4. faults \in Nat /\ faults' \in 0..MaxFaults /\ faults' = faults + 1
  BY SubmissionAssumption DEF Forget, Fault, SubmissionInv, TypeOK
<1>5. TypeOK'
  BY <1>1, <1>3, <1>4 DEF SubmissionInv, TypeOK, TypeOKSales, saleVars, Alters
<1>6. \A e \in Docs : /\ accepted[e] \in Nat
                      /\ Queued(e) \in 0..1 /\ Queued(e)' = Queued(e)
                      /\ Holds(Idle, e) = 0 /\ Holds(worker[w], e) \in 0..1
  BY <1>2, <1>3 DEF SubmissionInv, TypeOK, Queued, Holds, Holding
<1>7. accepted' = accepted /\ queue' = queue /\ sale' = sale /\ announced' = announced
  BY <1>3 DEF saleVars
<1> QED BY <1>1, <1>2, <1>4, <1>5, <1>6, <1>7, TurnKept

-----------------------------------------------------------------------------
(* A batch.                                                                 *)

LEMMA MarkIs ==
  ASSUME TypeOK, NEW S \in SUBSET Docs, \A d \in S : queue[d] \in RowsOf,
         NEW status \in {"pending", "running"}, Mark(S, status)
  PROVE  /\ queue' \in [Docs -> RowsOf \cup {NoRow}]
         /\ \A d \in Docs : /\ queue[d] # NoRow => queue'[d] # NoRow
                            /\ d \notin S => queue'[d] = queue[d]
                            /\ d \in S => queue'[d].status = status
<1>1. \A d \in Docs :
        queue'[d] = IF d \in S THEN [queue[d] EXCEPT !.status = status] ELSE queue[d]
  BY DEF Mark
<1>2. \A d \in S : LET x == [queue[d] EXCEPT !.status = status]
                   IN  x \in RowsOf /\ x.status = status
  BY DEF RowsOf
<1>3. \A x \in RowsOf : x # NoRow
  BY DEF RowsOf, NoRow
<1>4. queue' = [d \in Docs |-> queue'[d]]
  BY DEF Mark
<1>5. \A d \in Docs : queue'[d] \in RowsOf \cup {NoRow}
  BY <1>1, <1>2 DEF TypeOK
<1> QED BY <1>1, <1>2, <1>3, <1>4, <1>5

Fresh(S, st) == [stage |-> st, rows |-> [d \in S |-> queue[d].attempts], doc |-> NoDoc]

LEMMA BatchIs ==
  ASSUME TypeOK, NEW S \in Batches, NEW st \in {"claimed", "reading"}
  PROVE  /\ S \in SUBSET Docs
         /\ \A d \in S : queue[d] \in RowsOf /\ queue[d].status = "pending"
         /\ Fresh(S, st) \in Memory /\ HasDoc(Fresh(S, st)) /\ ~Settling(Fresh(S, st))
         /\ DOMAIN Fresh(S, st).rows = S
<1>1. S \in SUBSET Docs /\ \A d \in S : queue[d].status = "pending"
  BY DEF Batches, Pending
<1>2. \A d \in S : queue[d] \in RowsOf
  BY <1>1, RowIs
<1>3. [d \in S |-> queue[d].attempts] \in [S -> Nat]
  BY <1>2 DEF RowsOf
<1>4. st \in Stages
  BY DEF Stages
<1>5. Fresh(S, st) \in Memory
  BY <1>1, <1>3, <1>4, MemoryType DEF Fresh
<1> QED BY <1>1, <1>2, <1>5 DEF Fresh, HasDoc, Settling

LEMMA ClaimKept == ASSUME SubmissionInv, NEW w \in Workers, Claim(w) PROVE SubmissionInv'
<1>1. PICK S \in Batches : /\ worker[w] = Idle /\ ReadInto(w, S, "claimed")
                           /\ Mark(S, "running")
                           /\ UNCHANGED <<saleVars, announced, accepted, onboarded,
                                          deleting, faults>>
  BY DEF Claim
<1> DEFINE m == Fresh(S, "claimed")
<1>2. Alters(w, m)
  BY <1>1 DEF ReadInto, Alters, Fresh
<1>3. /\ S \in SUBSET Docs
      /\ \A d \in S : queue[d] \in RowsOf /\ queue[d].status = "pending"
      /\ m \in Memory /\ HasDoc(m) /\ ~Settling(m) /\ DOMAIN m.rows = S
  BY BatchIs DEF SubmissionInv
<1> HIDE DEF m
<1>4. /\ queue' \in [Docs -> RowsOf \cup {NoRow}]
      /\ \A d \in Docs : /\ queue[d] # NoRow => queue'[d] # NoRow
                         /\ d \notin S => queue'[d] = queue[d]
                         /\ d \in S => queue'[d].status = "running"
  BY <1>1, <1>3, MarkIs DEF SubmissionInv
<1>5. TypeOK'
  BY <1>1, <1>2, <1>3, <1>4 DEF SubmissionInv, TypeOK, TypeOKSales, saleVars, Alters
<1>6. \A e \in Docs : /\ Holds(worker[w], e) = 0
                      /\ Holds(m, e) = IF e \in S THEN 1 ELSE 0
                      /\ Queued(e) = IF e \in S THEN 1 ELSE Queued(e)
                      /\ Queued(e)' = IF e \in S THEN 0 ELSE Queued(e)
                      /\ Queued(e) \in 0..1 /\ accepted[e] \in Nat
  BY <1>1, <1>3, <1>4 DEF Holds, Holding, Idle, Queued, SubmissionInv, TypeOK
<1>7. \A e \in DOMAIN m.rows : queue[e] # NoRow
  BY <1>3, RowIs DEF SubmissionInv
<1>8. /\ faults' = faults /\ faults \in Nat /\ accepted' = accepted
      /\ sale' = sale /\ announced' = announced
  BY <1>1, SubmissionAssumption DEF saleVars, SubmissionInv, TypeOK
<1> QED BY <1>2, <1>3, <1>4, <1>5, <1>6, <1>7, <1>8, TurnKept

LEMMA ReadUnlockedKept ==
  ASSUME SubmissionInv, NEW w \in Workers, ReadUnlocked(w) PROVE SubmissionInv'
<1>1. PICK S \in Batches : /\ worker[w] = Idle /\ ReadInto(w, S, "reading") /\ Fault
                           /\ UNCHANGED <<saleVars, queue, announced, accepted,
                                          onboarded, deleting>>
  BY DEF ReadUnlocked
<1> DEFINE m == Fresh(S, "reading")
<1>2. Alters(w, m)
  BY <1>1 DEF ReadInto, Alters, Fresh
<1>3. /\ \A d \in S : queue[d] \in RowsOf
      /\ m \in Memory /\ HasDoc(m) /\ ~Settling(m) /\ DOMAIN m.rows = S /\ S \subseteq Docs
  BY BatchIs DEF SubmissionInv
<1> HIDE DEF m
<1>4. faults \in Nat /\ faults' \in 0..MaxFaults /\ faults' = faults + 1
  BY <1>1, SubmissionAssumption DEF Fault, SubmissionInv, TypeOK
<1>5. TypeOK'
  BY <1>1, <1>2, <1>3, <1>4 DEF SubmissionInv, TypeOK, TypeOKSales, saleVars, Alters
<1>6. \A e \in Docs : /\ Holds(worker[w], e) \in 0..1 /\ Holds(worker[w], e) = 0
                      /\ Holds(m, e) \in 0..1
                      /\ Queued(e)' = Queued(e) /\ Queued(e) \in 0..1 /\ accepted[e] \in Nat
  BY <1>1 DEF Holds, Holding, Idle, Queued, SubmissionInv, TypeOK
<1>7. \A e \in DOMAIN m.rows : queue[e] # NoRow
  BY <1>3, RowIs DEF SubmissionInv
<1>8. accepted' = accepted /\ queue' = queue /\ sale' = sale /\ announced' = announced
  BY <1>1 DEF saleVars
<1> QED BY <1>2, <1>3, <1>4, <1>5, <1>6, <1>7, <1>8, TurnKept

LEMMA MarkUnlockedKept ==
  ASSUME SubmissionInv, NEW w \in Workers, MarkUnlocked(w) PROVE SubmissionInv'
<1> DEFINE S == DOMAIN worker[w].rows \cap Pending
           m == At(w, "claimed", worker[w].doc)
<1>1. /\ worker[w].stage = "reading" /\ Mark(S, "running")
      /\ worker' = [worker EXCEPT ![w].stage = "claimed"]
      /\ UNCHANGED <<saleVars, announced, accepted, onboarded, deleting, faults>>
  BY DEF MarkUnlocked
<1>2. "claimed" \in Stages /\ worker[w].doc \in Docs \cup {NoDoc}
  BY MemoryIs DEF SubmissionInv, Stages
<1>3. Alters(w, m) /\ m \in Memory
  BY <1>1, <1>2, NextStageIs DEF SubmissionInv
<1>4. HasDoc(m) /\ ~Settling(m) /\ DOMAIN m.rows = DOMAIN worker[w].rows
  BY DEF At, HasDoc, Settling
<1>5. S \in SUBSET Docs /\ \A d \in S : queue[d] \in RowsOf
  BY RowInHand DEF Pending
<1> HIDE DEF m, S
<1>6. /\ queue' \in [Docs -> RowsOf \cup {NoRow}]
      /\ \A d \in Docs : /\ queue[d] # NoRow => queue'[d] # NoRow
                         /\ d \notin S => queue'[d] = queue[d]
                         /\ d \in S => queue'[d].status = "running"
  BY <1>1, <1>5, MarkIs DEF SubmissionInv
<1>7. TypeOK'
  BY <1>1, <1>3, <1>6 DEF SubmissionInv, TypeOK, TypeOKSales, saleVars, Alters
<1>8. \A e \in Docs : /\ Holds(m, e) = Holds(worker[w], e) /\ Holds(m, e) \in 0..1
                      /\ Queued(e)' <= Queued(e) /\ Queued(e) \in 0..1 /\ Queued(e)' \in 0..1
                      /\ accepted[e] \in Nat
  BY <1>1, <1>4, <1>6 DEF Holds, Holding, Settling, Queued, SubmissionInv, TypeOK
<1>9. \A e \in DOMAIN m.rows : queue[e] # NoRow
  BY <1>4, RowInHand
<1>10. /\ faults' = faults /\ faults \in Nat /\ accepted' = accepted
       /\ sale' = sale /\ announced' = announced
  BY <1>1, SubmissionAssumption DEF saleVars, SubmissionInv, TypeOK
<1> QED BY <1>3, <1>4, <1>6, <1>7, <1>8, <1>9, <1>10, TurnKept

LEMMA LoadCredentialsKept ==
  ASSUME SubmissionInv, NEW w \in Workers, LoadCredentials(w) PROVE SubmissionInv'
<1>1. /\ worker[w].stage = "claimed" /\ ~Settling(worker[w])
      /\ UNCHANGED <<saleVars, announced, accepted, onboarded, deleting>>
      /\ \/ /\ worker' = [worker EXCEPT ![w].stage = "working"]
            /\ UNCHANGED <<queue, faults>>
         \/ /\ IF onboarded THEN Fault ELSE UNCHANGED faults
            /\ Mark(DOMAIN worker[w].rows, "pending")
            /\ worker' = [worker EXCEPT ![w] = Idle]
  BY DEF LoadCredentials, Settling
<1>2. \A e \in Docs : accepted[e] \in Nat
  BY DEF SubmissionInv, TypeOK
<1>3. CASE worker' = [worker EXCEPT ![w].stage = "working"] /\ UNCHANGED <<queue, faults>>
  <2> DEFINE d == worker[w].doc
             m == At(w, "working", d)
  <2>1. "working" \in Stages /\ d \in Docs \cup {NoDoc}
    BY MemoryIs DEF SubmissionInv, Stages
  <2>2. Alters(w, m)
    BY <1>3, <2>1, NextStageIs DEF SubmissionInv
  <2>3. HasDoc(m) /\ ~Settling(m)
    BY DEF At, HasDoc, Settling
  <2>4. \A e \in Docs : Holds(m, e) = Holds(worker[w], e)
    BY <1>1, <2>3 DEF Holds, Holding, At
  <2>5. sale' \in [Sales -> SaleRows] /\ accepted' \in [Docs -> Nat]
    BY <1>1 DEF SubmissionInv, TypeOK, TypeOKSales, saleVars
  <2> HIDE DEF m, d
  <2> QED BY <1>1, <1>2, <1>3, <2>1, <2>2, <2>3, <2>4, <2>5, StageKept DEF saleVars, m
<1>4. CASE /\ IF onboarded THEN Fault ELSE UNCHANGED faults
           /\ Mark(DOMAIN worker[w].rows, "pending")
           /\ worker' = [worker EXCEPT ![w] = Idle]
  <2> DEFINE S == DOMAIN worker[w].rows
  <2>1. S \in SUBSET Docs /\ \A d \in S : queue[d] \in RowsOf
    BY RowInHand
  <2>2. /\ queue' \in [Docs -> RowsOf \cup {NoRow}]
        /\ \A d \in Docs : /\ queue[d] # NoRow => queue'[d] # NoRow
                           /\ d \notin S => queue'[d] = queue[d]
                           /\ d \in S => queue'[d].status = "pending"
    BY <1>4, <2>1, MarkIs DEF SubmissionInv
  <2>3. Alters(w, Idle) /\ Idle \in Memory
    BY <1>4, IdleType DEF Alters
  <2>4. DOMAIN Idle.rows = {} /\ HasDoc(Idle) /\ ~Settling(Idle)
    BY DEF Idle, HasDoc, Settling
  <2>5. faults \in Nat /\ faults' \in 0..MaxFaults /\ faults' >= faults
    BY <1>4, SubmissionAssumption DEF Fault, SubmissionInv, TypeOK
  <2>6. TypeOK'
    BY <1>1, <2>2, <2>3, <2>5 DEF SubmissionInv, TypeOK, TypeOKSales, saleVars, Alters
  <2>7. \A e \in Docs :
          /\ Holds(Idle, e) = 0 /\ Holds(worker[w], e) = IF e \in S THEN 1 ELSE 0
          /\ Queued(e)' = IF e \in S THEN 1 ELSE Queued(e)
          /\ Queued(e) \in 0..1
    BY <1>1, <2>2, <2>4 DEF Holds, Holding, Queued
  <2>8. accepted' = accepted /\ sale' = sale /\ announced' = announced
    BY <1>1 DEF saleVars
  <2> HIDE DEF S
  <2> QED BY <1>2, <2>2, <2>3, <2>4, <2>5, <2>6, <2>7, <2>8, TurnKept
<1> QED BY <1>1, <1>3, <1>4

-----------------------------------------------------------------------------
(* The sales side.                                                          *)

\* A step that leaves the workers and the authority alone.
LEMMA QuietKept ==
  ASSUME SubmissionInv, TypeOK', worker' = worker, accepted' = accepted, faults' >= faults,
         AnnouncedAreBorn',
         \A d \in Docs :
           /\ Waits(d)' + Queued(d)' <= Waits(d) + Queued(d)
           /\ queue[d] # NoRow => queue'[d] # NoRow
           /\ queue'[d].status \in {"done", "failed"} => queue'[d].status = queue[d].status
  PROVE  SubmissionInv'
<1> USE DEF SubmissionInv
<1>1. faults \in Nat /\ faults' \in Nat
  BY SubmissionAssumption DEF TypeOK
<1>2. \A d \in Docs : /\ Chances(d) \in Nat /\ Waits(d) \in 0..1 /\ Waits(d)' \in 0..1
                      /\ Queued(d) \in 0..1 /\ Queued(d)' \in 0..1
                      /\ accepted[d] \in Nat /\ Cardinality(Holders(d)) \in Nat
                      /\ Holders(d)' = Holders(d)
  BY ChancesType DEF Waits, Queued, Holders, Holding, Settling
<1>3. \A d \in Docs : Chances(d)' <= Chances(d)
  BY <1>2 DEF Chances
<1>4. HeldAreQueued'
  BY RowInHand DEF HeldAreQueued
<1>5. AtWork' /\ Accepted'
  BY DEF AtWork, Accepted
<1>6. \A d \in Docs : Chances(d)' \in Nat
  BY <1>2 DEF Chances
<1>7. \A d \in Docs : queue[d].status = "failed" /\ faults = 0 => Chances(d) = 0
  BY DEF Failed
<1>8. \A d \in Docs : queue'[d].status = "done" => accepted'[d] > 0
  BY DEF Done
<1>9. \A d \in Docs :
        /\ Chances(d)' <= Chances(d) + (faults' - faults)
        /\ queue'[d].status = "failed" /\ faults' = 0 =>
             queue[d].status = "failed" \/ Chances(d)' = 0
  BY <1>1, <1>2, <1>3, <1>6
<1> QED BY <1>4, <1>5, <1>8, <1>9, InvKept

\* Whatever a sale goes through, what is sold or returned stays so.
LEMMA SaleEffect ==
  ASSUME TypeOKSales, NEW s \in Sales, Sell(s) \/ Reversal(s)
  PROVE  /\ TypeOKSales'
         /\ \A t \in Sales : t # s => sale'[t] = sale[t]
         /\ sale'[s].state # "none"
         /\ sale'[s].credited <=> sale[s].credited \/ Return(s)
<1> USE DEF TypeOKSales, SaleRows, SaleStates
<1>1. sale[s] \in SaleRows /\ shelf[s] \in Int
  OBVIOUS
<1>2. CASE Sell(s)
  <2>1. [sale[s] EXCEPT !.state = "live"] \in SaleRows
    BY <1>1
  <2> QED BY <1>1, <1>2, <2>1 DEF Sell, Return
<1>3. CASE Return(s)
  <2>1. [sale[s] EXCEPT !.credited = TRUE] \in SaleRows
    BY <1>1
  <2> QED BY <1>1, <1>3, <2>1 DEF Return, Restock
<1>4. ASSUME NEW st \in {"voided", "gone"}, sale[s].state # "none",
             sale' = [sale EXCEPT ![s].state = st], Restock(s)
      PROVE  /\ TypeOKSales' /\ sale'[s].state # "none"
             /\ \A t \in Sales : t # s => sale'[t] = sale[t]
             /\ sale'[s].credited <=> sale[s].credited
             /\ ~Return(s)
  <2>1. [sale[s] EXCEPT !.state = st] \in SaleRows
    BY <1>1
  <2>2. /\ sale' \in [Sales -> SaleRows]
        /\ sale'[s] = [sale[s] EXCEPT !.state = st]
        /\ \A t \in Sales : t # s => sale'[t] = sale[t]
    BY <1>4, <2>1
  <2>3. sale'[s].state = st /\ sale'[s].credited = sale[s].credited
    BY <1>1, <2>2
  <2>4. Return(s) => ~sale[s].credited /\ sale'[s].credited
    BY <1>1 DEF Return
  <2>5. shelf' \in [Sales -> Int]
    BY <1>1, <1>4 DEF Restock
  <2> QED BY <1>4, <2>2, <2>3, <2>4, <2>5
<1>5. ASSUME NEW drop \in BOOLEAN, Void(s, drop)
      PROVE  \E st \in {"voided", "gone"} : /\ sale[s].state # "none" /\ Restock(s)
                                            /\ sale' = [sale EXCEPT ![s].state = st]
  BY <1>5 DEF Void
<1>6. ASSUME DeleteSale(s) \/ BulkDelete(s)
      PROVE  \E st \in {"voided", "gone"} : /\ sale[s].state # "none" /\ Restock(s)
                                            /\ sale' = [sale EXCEPT ![s].state = st]
  BY <1>6 DEF DeleteSale, BulkDelete
<1> QED BY <1>2, <1>3, <1>4, <1>5, <1>6 DEF Reversal

LEMMA DocIs ==
  ASSUME NEW d \in Docs
  PROVE  /\ SaleOf(d) \in Sales
         /\ d = <<"sale", SaleOf(d)>> \/ d = <<"credit_note", SaleOf(d)>>
         /\ d[1] = "sale" <=> d = <<"sale", SaleOf(d)>>
BY DEF Docs, SaleOf

LEMMA SaleStepKept == ASSUME SubmissionInv, SaleStep PROVE SubmissionInv'
<1> USE DEF SubmissionInv
<1>1. PICK s \in Sales : \/ Checkout(s) \/ ReturnSale(s) \/ UndoSale(s)
                         \/ CheckDelete(s) \/ FinishDelete(s)
  BY DEF SaleStep
<1>2. UNCHANGED <<queue, worker, accepted, onboarded, faults>>
  BY <1>1 DEF Checkout, ReturnSale, UndoSale, CheckDelete, FinishDelete, submissionVars
<1>3. deleting' \subseteq Sales
  BY <1>1 DEF Checkout, ReturnSale, UndoSale, CheckDelete, FinishDelete, submissionVars,
              TypeOK
<1>4. CASE CheckDelete(s)
  <2>1. TypeOK' /\ sale' = sale /\ announced' = announced
    BY <1>2, <1>3, <1>4 DEF CheckDelete, TypeOK, TypeOKSales, saleVars
  <2>2. \A d \in Docs : (Unborn(d)' <=> Unborn(d)) /\ Waits(d)' = Waits(d)
                        /\ Queued(d)' = Queued(d)
    BY <1>2, <2>1 DEF Unborn, Waits, Queued
  <2>3. AnnouncedAreBorn'
    BY <2>1, <2>2 DEF AnnouncedAreBorn, TypeOK
  <2>4. \A d \in Docs : Waits(d) \in 0..1 /\ Queued(d) \in 0..1
    BY DEF Waits, Queued
  <2>5. faults \in Nat
    BY SubmissionAssumption DEF TypeOK
  <2> QED BY <1>2, <2>1, <2>2, <2>3, <2>4, <2>5, QuietKept
<1>5. CASE ~CheckDelete(s)
  <2>1. /\ Sell(s) \/ Reversal(s)
        /\ \/ Sell(s) /\ announced' = announced \cup {<<"sale", s>>}
           \/ Return(s) /\ announced' = announced \cup {<<"credit_note", s>>}
           \/ announced' = announced
    BY <1>1, <1>5 DEF Checkout, ReturnSale, UndoSale, FinishDelete, Reversal, submissionVars
  <2>2. /\ TypeOKSales'
        /\ \A t \in Sales : t # s => sale'[t] = sale[t]
        /\ sale'[s].state # "none"
        /\ sale'[s].credited <=> sale[s].credited \/ Return(s)
    BY <2>1, SaleEffect DEF TypeOK
  <2>3. announced' \subseteq Docs
    BY <2>1 DEF Docs, TypeOK
  <2>4. TypeOK'
    BY <1>2, <1>3, <2>2, <2>3 DEF TypeOK
  <2>5. \A d \in Docs : /\ Unborn(d)' => Unborn(d)
                        /\ d \in announced' => ~Unborn(d)' /\ (d \in announced \/ Unborn(d))
    <3> TAKE d \in Docs
    <3>1. Unborn(d)' => Unborn(d)
      BY <2>2, DocIs DEF Unborn
    <3>2. d = <<"sale", s>> => ~Unborn(d)'
      BY <2>2 DEF Unborn, SaleOf
    <3>3. d = <<"credit_note", s>> /\ Return(s) => ~Unborn(d)'
      BY <2>2 DEF Unborn, SaleOf
    <3>4. d = <<"sale", s>> /\ Sell(s) => Unborn(d)
      BY DEF Unborn, SaleOf, Sell
    <3>5. d = <<"credit_note", s>> /\ Return(s) => Unborn(d)
      BY DEF Unborn, SaleOf, Return
    <3>6. d \in announced => ~Unborn(d)
      BY DEF AnnouncedAreBorn
    <3> QED BY <2>1, <3>1, <3>2, <3>3, <3>4, <3>5, <3>6
  <2>6. AnnouncedAreBorn'
    BY <2>3, <2>5 DEF AnnouncedAreBorn
  <2>7. \A d \in Docs : /\ Waits(d)' <= Waits(d) /\ Queued(d)' = Queued(d)
                        /\ Waits(d) \in 0..1 /\ Waits(d)' \in 0..1 /\ Queued(d) \in 0..1
    BY <1>2, <2>5 DEF Waits, Queued
  <2>8. faults \in Nat
    BY SubmissionAssumption DEF TypeOK
  <2> QED BY <1>2, <2>4, <2>6, <2>7, <2>8, QuietKept
<1> QED BY <1>4, <1>5

\* The rows an enqueue writes, or fails to write.
LEMMA EnqueueKept ==
  ASSUME SubmissionInv, NEW d \in Docs, Enqueue(d) \/ EnqueueLost(d)
  PROVE  SubmissionInv'
<1> USE DEF SubmissionInv
<1> DEFINE row == [status |-> "pending", attempts |-> 0]
<1>1. /\ d \in announced /\ announced' = announced \ {d}
      /\ queue' = queue \/ queue' = [queue EXCEPT ![d] = row]
      /\ UNCHANGED <<saleVars, worker, accepted, onboarded, deleting>>
  BY DEF Enqueue, EnqueueLost
<1>2. faults \in Nat /\ faults' \in 0..MaxFaults /\ faults' >= faults
  BY SubmissionAssumption DEF Enqueue, EnqueueLost, Fault, TypeOK
<1>3. row \in RowsOf /\ row # NoRow /\ row.status = "pending"
  BY DEF RowsOf, NoRow
<1> HIDE DEF row
<1>4. /\ queue' \in [Docs -> RowsOf \cup {NoRow}]
      /\ \A e \in Docs : e # d => queue'[e] = queue[e]
      /\ queue'[d] = queue[d] \/ queue'[d] = row
  BY <1>1, <1>3 DEF TypeOK
<1>5. TypeOK'
  BY <1>1, <1>2, <1>4 DEF TypeOK, TypeOKSales, saleVars
<1>6. \A e \in Docs : Unborn(e)' <=> Unborn(e)
  BY <1>1 DEF Unborn, saleVars
<1>7. AnnouncedAreBorn'
  BY <1>1, <1>6 DEF AnnouncedAreBorn, TypeOK
<1>8. ~Unborn(d)
  BY <1>1 DEF AnnouncedAreBorn
<1>9. \A e \in Docs :
        /\ Waits(e) \in 0..1 /\ Queued(e) \in 0..1 /\ Queued(e)' \in 0..1
        /\ Waits(e)' = IF e = d THEN 0 ELSE Waits(e)
        /\ e # d => Queued(e)' = Queued(e)
  BY <1>1, <1>4, <1>6, <1>8 DEF Waits, Queued
<1>10. Waits(d) = 1
  BY <1>1 DEF Waits
<1>11. \A e \in Docs :
         /\ queue[e] # NoRow => queue'[e] # NoRow
         /\ queue'[e].status \in {"done", "failed"} => queue'[e].status = queue[e].status
  BY <1>3, <1>4
<1>12. \A e \in Docs : Waits(e)' + Queued(e)' <= Waits(e) + Queued(e)
  BY <1>9, <1>10
<1> QED BY <1>1, <1>2, <1>5, <1>7, <1>11, <1>12, QuietKept

LEMMA OnboardingKept == ASSUME SubmissionInv, Onboarding \/ UNCHANGED vars PROVE SubmissionInv'
<1> USE DEF SubmissionInv
<1>1. UNCHANGED <<saleVars, queue, announced, worker, accepted, deleting>>
  BY DEF Onboarding, vars, submissionVars
<1>2. faults \in Nat /\ faults' \in 0..MaxFaults /\ faults' >= faults /\ onboarded' \in BOOLEAN
  <2>1. faults \in 0..MaxFaults /\ onboarded \in BOOLEAN
    BY DEF TypeOK
  <2>2. onboarded' \in BOOLEAN
    BY <2>1, Zenon DEF Onboarding, vars, submissionVars
  <2>3. faults' = faults \/ (faults < MaxFaults /\ faults' = faults + 1)
    BY Zenon DEF Onboarding, Fault, vars, submissionVars
  <2> QED BY <2>1, <2>2, <2>3, SubmissionAssumption
<1>3. TypeOK'
  BY <1>1, <1>2 DEF TypeOK, TypeOKSales, saleVars
<1>4. \A d \in Docs : /\ Unborn(d)' <=> Unborn(d)
                      /\ Waits(d)' = Waits(d) /\ Queued(d)' = Queued(d)
                      /\ Waits(d) \in 0..1 /\ Queued(d) \in 0..1
  BY <1>1 DEF Unborn, Waits, Queued, saleVars
<1>5. AnnouncedAreBorn'
  BY <1>1, <1>4 DEF AnnouncedAreBorn, TypeOK
<1> QED BY <1>1, <1>2, <1>3, <1>4, <1>5, QuietKept

-----------------------------------------------------------------------------
LEMMA InitSubmissionInv == Init => SubmissionInv
<1> SUFFICES ASSUME Init PROVE SubmissionInv
  OBVIOUS
<1> USE DEF Init, InitSales
<1>1. TypeOK
  BY SubmissionAssumption, IdleType
     DEF TypeOK, TypeOKSales, SaleRows, SaleStates, NoRow
<1>2. AnnouncedAreBorn
  BY DEF AnnouncedAreBorn
<1>3. \A w \in Workers : /\ worker[w].rows = <<>> /\ worker[w].stage = "idle"
                         /\ DOMAIN worker[w].rows = {}
  BY DEF Idle
<1>4. HeldAreQueued /\ AtWork /\ Accepted
  BY <1>3 DEF HeldAreQueued, AtWork, HasDoc, Accepted, Settling
<1>5. \A d \in Docs : Holders(d) = {}
  BY <1>3 DEF Holders, Holding
<1>6. \A d \in Docs : accepted[d] = 0 /\ Queued(d) = 0 /\ Waits(d) \in 0..1
                      /\ queue[d].status = "none"
  BY DEF Queued, Waits, NoRow
<1>7. ChancesHold
  <2> SUFFICES ASSUME NEW d \in Docs PROVE Chances(d) <= 1 + faults
    BY DEF ChancesHold
  <2>1. Cardinality(Holders(d)) = 0
    BY <1>5, FS_EmptySet
  <2> QED BY <1>6, <2>1 DEF Chances
<1>8. Done /\ Failed
  BY <1>6 DEF Done, Failed
<1> QED BY <1>1, <1>2, <1>4, <1>7, <1>8 DEF SubmissionInv

LEMMA NextSubmissionInv == SubmissionInv /\ [Next]_vars => SubmissionInv'
<1> SUFFICES ASSUME SubmissionInv, [Next]_vars PROVE SubmissionInv'
  OBVIOUS
<1>1. ASSUME NEW w \in Workers, Poll(w) PROVE SubmissionInv'
  BY <1>1, ClaimKept, MarkUnlockedKept, LoadCredentialsKept, LoadKept, SubmitKept,
     PersistKept, SettleKept DEF Poll
<1>2. CASE FaultStep
  BY <1>2, EnqueueKept, ReadUnlockedKept, StatementFailsKept, ForgetKept, OnboardingKept
     DEF FaultStep
<1>3. CASE SaleStep
  BY <1>3, SaleStepKept
<1>4. ASSUME NEW d \in Docs, Enqueue(d) PROVE SubmissionInv'
  BY <1>4, EnqueueKept
<1>5. CASE UNCHANGED vars
  BY <1>5, OnboardingKept
<1> QED BY <1>1, <1>2, <1>3, <1>4, <1>5 DEF Next

LEMMA SubmissionInvHolds == Spec => []SubmissionInv
BY InitSubmissionInv, NextSubmissionInv, PTL DEF Spec

\* The variables of the submission queue keep their types (lib/zatca-worker.js).
THEOREM SubmissionTypeCorrect == Spec => []TypeOK
<1>1. SubmissionInv => TypeOK
  BY DEF SubmissionInv
<1> QED BY <1>1, SubmissionInvHolds, PTL

\* However many workers, retries and rejections there are, and whatever becomes
\* of the sale meanwhile, every acceptance of a document but the first takes a
\* fault of its own (_processBatch).
THEOREM DocumentsAreAcceptedOnce == Spec => []AcceptedOnce
<1>1. SubmissionInv => AcceptedOnce
  <2> SUFFICES ASSUME SubmissionInv, NEW d \in Docs PROVE accepted[d] <= 1 + faults
    BY DEF AcceptedOnce
  <2>1. /\ accepted[d] \in Nat /\ Waits(d) \in 0..1 /\ Queued(d) \in 0..1
        /\ Cardinality(Holders(d)) \in Nat /\ faults \in Nat
    BY SubmissionAssumption, ChancesType DEF SubmissionInv, TypeOK
  <2>2. accepted[d] + Waits(d) + Queued(d) + Cardinality(Holders(d)) <= 1 + faults
    BY DEF SubmissionInv, ChancesHold, Chances
  <2> QED BY <2>1, <2>2
<1> QED BY <1>1, SubmissionInvHolds, PTL

\* A row says "done" only of a document the authority accepted, and without a
\* fault "failed" only of one it did not (_processBatch, the settling updates).
THEOREM RowsAreSettledRight == Spec => []SettledRight
<1>1. SubmissionInv => SettledRight
  <2> SUFFICES ASSUME SubmissionInv, NEW d \in Docs
               PROVE  /\ queue[d].status = "done" => accepted[d] > 0
                      /\ queue[d].status = "failed" /\ faults = 0 => accepted[d] = 0
    BY DEF SettledRight
  <2>1. /\ accepted[d] \in Nat /\ Waits(d) \in 0..1 /\ Queued(d) \in 0..1
        /\ Cardinality(Holders(d)) \in Nat
    BY ChancesType DEF SubmissionInv
  <2> QED BY <2>1 DEF SubmissionInv, Done, Failed, Chances
<1> QED BY <1>1, SubmissionInvHolds, PTL
=============================================================================

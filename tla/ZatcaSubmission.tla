-------------------------- MODULE ZatcaSubmission --------------------------
(***************************************************************************)
(* The ZATCA submission queue and its worker (lib/zatca-worker.js): a sale *)
(* and a credit note are enqueued behind their commit, by a call nobody    *)
(* waits for; the worker of every server instance claims rows, submits     *)
(* each document to the authority, writes the answer on the document and   *)
(* settles the row, or retries it later, up to MaxAttempts.                *)
(*                                                                         *)
(* Composes the life of a sale (LegacySales) with the queue: the worker    *)
(* reads the document at one moment, submits it at another and writes it   *)
(* at a third, and cashiers undo sales in between.                         *)
(*                                                                         *)
(* A claim is one transaction and one step.  Backoff is a delay: a pending *)
(* row may always be due.  What goes wrong without being answered for by   *)
(* the protocol is counted in faults and bounded by MaxFaults.             *)
(***************************************************************************)
EXTENDS LegacySales, FiniteSets, Functions

CONSTANTS Workers,      \* server instances, one worker each
          NoDoc,
          MaxAttempts,  \* MAX_ATTEMPTS
          BatchSize,    \* BATCH_SIZE
          MaxFaults

ASSUME SubmissionAssumption ==
  /\ IsFiniteSet(Workers) /\ NoDoc \notin {"sale", "credit_note"} \X Sales
  /\ MaxAttempts \in Nat \ {0} /\ BatchSize \in Nat \ {0} /\ MaxFaults \in Nat

VARIABLES queue,      \* zatca_submission_queue
          announced,  \* committed documents whose enqueue has yet to run
          worker,     \* what each worker has in memory
          accepted,   \* how often the authority accepted a document
          onboarded,  \* companies.zatca_csid_status
          deleting,   \* DELETE requests behind their check of the submission
          faults

submissionVars == <<queue, announced, worker, accepted, onboarded, deleting, faults>>
vars == <<saleVars, submissionVars>>

-----------------------------------------------------------------------------
Docs == {"sale", "credit_note"} \X Sales
SaleOf(d) == d[2]

NoRow   == [status |-> "none"]
\* A row that was claimed twice may be counted beyond MaxAttempts.
RowsOf  == [status : {"pending", "running", "done", "failed"}, attempts : Nat]

\* rows: the claimed rows with the attempt_count that was read.
Stages  == {"idle", "reading", "claimed", "working", "loaded", "accepted",
            "rejected", "saved", "refused"}
Memory  == [stage : Stages, rows : UNION {[S -> Nat] : S \in SUBSET Docs},
            doc : Docs \cup {NoDoc}]
Idle    == [stage |-> "idle", rows |-> <<>>, doc |-> NoDoc]

TypeOK ==
  /\ TypeOKSales
  /\ queue \in [Docs -> RowsOf \cup {NoRow}]
  /\ announced \subseteq Docs
  /\ worker \in [Workers -> Memory]
  /\ accepted \in [Docs -> Nat]
  /\ onboarded \in BOOLEAN /\ deleting \subseteq Sales /\ faults \in 0..MaxFaults

Init ==
  /\ InitSales
  /\ queue = [d \in Docs |-> NoRow]
  /\ announced = {} /\ deleting = {}
  /\ worker = [w \in Workers |-> Idle]
  /\ accepted = [d \in Docs |-> 0]
  /\ onboarded = TRUE /\ faults = 0

Fault == faults < MaxFaults /\ faults' = faults + 1

-----------------------------------------------------------------------------
(* The sales side.                                                          *)

Checkout(s) ==
  /\ Sell(s)
  /\ announced' = announced \cup {<<"sale", s>>}
  /\ UNCHANGED <<queue, worker, accepted, onboarded, deleting, faults>>

ReturnSale(s) ==
  /\ Return(s)
  /\ announced' = announced \cup {<<"credit_note", s>>}
  /\ UNCHANGED <<queue, worker, accepted, onboarded, deleting, faults>>

UndoSale(s) ==
  /\ BulkDelete(s) \/ \E drop \in BOOLEAN : Void(s, drop)
  /\ UNCHANGED submissionVars

\* DELETE looks at the submission first and deletes in a transaction of its own.
CheckDelete(s) ==
  /\ sale[s].state \in {"live", "voided"} /\ ~sale[s].submitted
  /\ deleting' = deleting \cup {s}
  /\ UNCHANGED <<saleVars, queue, announced, worker, accepted, onboarded, faults>>

FinishDelete(s) ==
  /\ s \in deleting /\ deleting' = deleting \ {s}
  /\ BulkDelete(s)
  /\ UNCHANGED <<queue, announced, worker, accepted, onboarded, faults>>

\* enqueue: nothing for a company without credentials.
Enqueue(d) ==
  /\ d \in announced
  /\ announced' = announced \ {d}
  /\ queue' = IF onboarded
              THEN [queue EXCEPT ![d] = [status |-> "pending", attempts |-> 0]]
              ELSE queue
  /\ UNCHANGED <<saleVars, worker, accepted, onboarded, deleting, faults>>

\* The INSERT fails, and enqueue only warns, or the server stops before it.
EnqueueLost(d) ==
  /\ d \in announced
  /\ announced' = announced \ {d}
  /\ Fault
  /\ UNCHANGED <<saleVars, queue, worker, accepted, onboarded, deleting>>

Onboarding ==
  /\ onboarded' = ~onboarded
  /\ IF onboarded THEN Fault ELSE UNCHANGED faults
  /\ UNCHANGED <<saleVars, queue, announced, worker, accepted, deleting>>

-----------------------------------------------------------------------------
(* Claiming a batch.                                                        *)

Pending == {d \in Docs : queue[d].status = "pending"}

Batches == {S \in SUBSET Pending : S # {} /\ Cardinality(S) <= BatchSize}

Mark(S, status) ==
  queue' = [d \in Docs |-> IF d \in S THEN [queue[d] EXCEPT !.status = status]
                           ELSE queue[d]]

ReadInto(w, S, stage) ==
  worker' = [worker EXCEPT ![w] =
    [stage |-> stage, rows |-> [d \in S |-> queue[d].attempts], doc |-> NoDoc]]

\* Slip: nothing is marked, so that the next worker finds the rows pending.
Bug_Claim(w) ==
  \E S \in Batches :
    /\ worker[w] = Idle
    /\ ReadInto(w, S, "claimed")
    /\ UNCHANGED <<saleVars, queue, announced, accepted, onboarded, deleting, faults>>

\* FOR UPDATE SKIP LOCKED, and "running" before the commit.
Claim(w) ==
  \E S \in Batches :
    /\ worker[w] = Idle
    /\ ReadInto(w, S, "claimed")
    /\ Mark(S, "running")
    /\ UNCHANGED <<saleVars, announced, accepted, onboarded, deleting, faults>>

\* The fallback when the claim fails for whatever reason: rows are read
\* without a lock and marked one by one, and all of them are worked on.
ReadUnlocked(w) ==
  \E S \in Batches :
    /\ worker[w] = Idle /\ Fault
    /\ ReadInto(w, S, "reading")
    /\ UNCHANGED <<saleVars, queue, announced, accepted, onboarded, deleting>>

MarkUnlocked(w) ==
  /\ worker[w].stage = "reading"
  /\ Mark(DOMAIN worker[w].rows \cap Pending, "running")
  /\ worker' = [worker EXCEPT ![w].stage = "claimed"]
  /\ UNCHANGED <<saleVars, announced, accepted, onboarded, deleting, faults>>

\* _loadCredentials, once per batch; without them, or when reading them
\* fails, the rows are released.
LoadCredentials(w) ==
  /\ worker[w].stage = "claimed"
  /\ \/ /\ onboarded
        /\ worker' = [worker EXCEPT ![w].stage = "working"]
        /\ UNCHANGED <<queue, faults>>
     \/ /\ IF onboarded THEN Fault ELSE UNCHANGED faults
        /\ Mark(DOMAIN worker[w].rows, "pending")
        /\ worker' = [worker EXCEPT ![w] = Idle]
  /\ UNCHANGED <<saleVars, announced, accepted, onboarded, deleting>>

-----------------------------------------------------------------------------
(* One row: load, submit, write the answer, settle.                         *)

\* Done with a row: on to the next one, or wait for the next poll.
Proceed(w, d) ==
  LET rest == DOMAIN worker[w].rows \ {d}
  IN  worker' = [worker EXCEPT ![w] =
        IF rest = {} THEN Idle
        ELSE [stage |-> "working", rows |-> Restrict(worker[w].rows, rest),
              doc |-> NoDoc]]

\* Slip: the attempt is not counted.
Bug_RetryForever(w, d) ==
  /\ queue' = [queue EXCEPT ![d].status = "pending"]
  /\ Proceed(w, d)

\* The catch of _processBatch: whatever threw, one more attempt.
Retry(w, d) ==
  LET n == worker[w].rows[d] + 1
  IN  /\ queue' = [queue EXCEPT ![d] =
           [status |-> IF n >= MaxAttempts THEN "failed" ELSE "pending",
            attempts |-> n]]
      /\ Proceed(w, d)

Stage(w, d, stage) ==
  worker' = [worker EXCEPT ![w] = [stage |-> stage, rows |-> worker[w].rows, doc |-> d]]

Found(d) == d[1] = "sale" => sale[SaleOf(d)].state # "gone"

\* The document is read whole; whether the sale was voided is not asked.
Load(w) ==
  /\ worker[w].stage = "working"
  /\ \E d \in DOMAIN worker[w].rows :
       \/ Found(d) /\ Stage(w, d, "loaded") /\ UNCHANGED queue
       \/ ~Found(d) /\ Retry(w, d)
  /\ UNCHANGED <<saleVars, announced, accepted, onboarded, deleting, faults>>

Accept(d) == accepted' = [accepted EXCEPT ![d] = @ + 1]

Submit(w) ==
  /\ worker[w].stage = "loaded"
  /\ LET d == worker[w].doc IN
       \/ Stage(w, d, "accepted") /\ Accept(d) /\ UNCHANGED <<queue, faults>>
       \/ Stage(w, d, "rejected") /\ UNCHANGED <<queue, accepted, faults>>
       \/ Retry(w, d) /\ UNCHANGED <<accepted, faults>>  \* never reached it
       \/ Retry(w, d) /\ Accept(d) /\ Fault              \* the answer is lost
  /\ UNCHANGED <<saleVars, announced, onboarded, deleting>>

\* zatca_submitted_at is written for a rejection as well.
Persist(w) ==
  /\ worker[w].stage \in {"accepted", "rejected"}
  /\ LET d == worker[w].doc IN
     /\ Stage(w, d, IF worker[w].stage = "accepted" THEN "saved" ELSE "refused")
     /\ sale' = IF d[1] = "sale" /\ Found(d)
                THEN [sale EXCEPT ![SaleOf(d)].submitted = TRUE] ELSE sale
  /\ UNCHANGED <<shelf, queue, announced, accepted, onboarded, deleting, faults>>

\* Slip: a rejection does not throw.
Bug_Settle(w) ==
  /\ worker[w].stage \in {"saved", "refused"}
  /\ LET d == worker[w].doc IN
       /\ queue' = [queue EXCEPT ![d].status = "done"]
       /\ Proceed(w, d)
  /\ UNCHANGED <<saleVars, announced, accepted, onboarded, deleting, faults>>

Settle(w) ==
  /\ worker[w].stage \in {"saved", "refused"}
  /\ LET d == worker[w].doc IN
       \/ /\ worker[w].stage = "saved"
          /\ queue' = [queue EXCEPT ![d].status = "done"]
          /\ Proceed(w, d)
       \/ worker[w].stage = "refused" /\ Retry(w, d)
  /\ UNCHANGED <<saleVars, announced, accepted, onboarded, deleting, faults>>

\* A statement behind the submission fails: the row is retried.
StatementFails(w) ==
  /\ worker[w].stage \in {"accepted", "rejected", "saved"}
  /\ Fault
  /\ Retry(w, worker[w].doc)
  /\ UNCHANGED <<saleVars, announced, accepted, onboarded, deleting>>

\* The server stops, or the statement that settles a row fails: the batch is
\* forgotten and its rows stay as they are.
Forget(w) ==
  /\ worker[w] # Idle
  /\ Fault
  /\ worker' = [worker EXCEPT ![w] = Idle]
  /\ UNCHANGED <<saleVars, queue, announced, accepted, onboarded, deleting>>

-----------------------------------------------------------------------------
SaleStep ==
  \E s \in Sales : \/ Checkout(s) \/ ReturnSale(s) \/ UndoSale(s)
                   \/ CheckDelete(s) \/ FinishDelete(s)

Poll(w) ==
  \/ Claim(w) \/ MarkUnlocked(w) \/ LoadCredentials(w)
  \/ Load(w) \/ Submit(w) \/ Persist(w) \/ Settle(w)

FaultStep ==
  \/ \E d \in Docs : EnqueueLost(d)
  \/ \E w \in Workers : ReadUnlocked(w) \/ StatementFails(w) \/ Forget(w)
  \/ Onboarding

Next ==
  \/ SaleStep \/ FaultStep
  \/ \E d \in Docs : Enqueue(d)
  \/ \E w \in Workers : Poll(w)

Spec == Init /\ [][Next]_vars

\* The poll timer is set again in a finally block, and an enqueue that has
\* begun runs.
Fairness ==
  /\ \A w \in Workers : WF_vars(Poll(w))
  /\ \A d \in Docs : WF_vars(Enqueue(d))

FairSpec == Spec /\ Fairness

-----------------------------------------------------------------------------
(* What makes the queue correct.                                            *)

\* Two workers, retries and rejections never get a document accepted twice;
\* every further acceptance takes a fault of its own: a lost answer, a failed
\* statement, a claim without its lock (_processBatch).
AcceptedOnce == \A d \in Docs : accepted[d] <= 1 + faults

\* A settled row tells the truth: "done" has been accepted, and "failed" has
\* not unless something went wrong behind the authority's answer.
SettledRight ==
  \A d \in Docs :
    /\ queue[d].status = "done" => accepted[d] > 0
    /\ queue[d].status = "failed" /\ faults = 0 => accepted[d] = 0

\* In the hands of nobody.
Orphaned(d) ==
  queue[d].status = "running" /\ \A w \in Workers : d \notin DOMAIN worker[w].rows

\* Every row is settled in the end, whatever the authority answers and
\* however the workers interleave, unless a fault left it in the hands of
\* nobody (no worker picks a "running" row up again) or the company lost its
\* credentials.
EveryRowSettles ==
  \A d \in Docs :
    queue[d].status = "pending" ~>
      \/ queue[d].status \in {"done", "failed"}
      \/ Orphaned(d) /\ faults > 0
      \/ ~onboarded

=============================================================================

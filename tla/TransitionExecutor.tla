------------------------- MODULE TransitionExecutor -------------------------
(***************************************************************************)
(* How requests on one order-to-cash document are carried out when several *)
(* arrive at once, are retried by their client, or die with the server:    *)
(* runTransition (services/order-to-cash/TransitionExecutor.js), the       *)
(* allocateAdvance and create handlers that follow the same protocol by    *)
(* hand, and the recovery of the create routes.                            *)
(*                                                                         *)
(* An attempt is one HTTP request.  Its transaction reads the event of its *)
(* key, locks, checks, works, records an event and commits; what throws    *)
(* rolls back and looks once more, on the pool, for an event of its key.   *)
(* Locks are held to the commit, so what an attempt does between two steps *)
(* on the same lock is one step here.                                      *)
(***************************************************************************)
EXTENDS Integers, FiniteSets

CONSTANTS Attempts,       \* HTTP requests, retries and duplicates included
          Actions,        \* actions clients ask for
          Keys, NoKey,    \* Idempotency-Key headers, or none
          Hashes, NoHash, \* payload fingerprints; NoHash: a legacy event
          Unused,         \* nothing was recorded under a key
          Legacy,         \* (action, key) pairs recorded before fingerprints
          Versions,       \* If-Match headers
          AnyVersion,     \* no If-Match header
          TxnAttempts,    \* runs of a transaction that meets deadlocks
          Nobody          \* holds a free lock

ASSUME ExecutorAssumption ==
  /\ Actions \subseteq {"create", "approve", "post", "cancel", "reverse",
                        "allocate_advance"}
  /\ Legacy \subseteq Actions \X Keys
  /\ NoKey \notin Keys
  /\ NoHash \notin Hashes /\ Unused \notin Hashes \cup {NoHash}
  /\ Versions \subseteq Nat /\ AnyVersion \notin Versions
  /\ TxnAttempts \in Nat \ {0}
  /\ Nobody \notin Attempts

Statuses == {"draft", "approved", "posted", "reversed", "cancelled"}

\* MACHINES.customer_payment; "none" where next throws.
Target(status, action) ==
  CASE status = "draft" /\ action = "approve"   -> "approved"
    [] status = "draft" /\ action = "cancel"    -> "cancelled"
    [] status = "approved" /\ action = "post"   -> "posted"
    [] status = "approved" /\ action = "cancel" -> "cancelled"
    [] status = "posted" /\ action = "reverse"  -> "reversed"
    [] OTHER -> "none"

Requests == [action: Actions, key: Keys \cup {NoKey}, hash: Hashes,
             version: Versions \cup {AnyVersion}]

VARIABLES row,      \* the document: status, version and advance left
          events,   \* committed ar_events of transitions and creates
          effects,  \* attempts whose side effects are committed
          pc,       \* where an attempt is
          request,  \* what it asks for; never changes
          tries,    \* transactions it has started
          holder,   \* who holds the document's row, and each key of a create
          reply     \* what it was answered

vars == <<row, events, effects, pc, request, tries, holder, reply>>

Places == {"idle", "replay", "lock", "work", "catch", "reply", "answered",
           "lost"}
Locks  == {"row"} \cup Keys

\* An event: its scope is the action, on the one document (events.scopeOf).
Events == [action: Actions, key: Keys \cup {NoKey}, hash: Hashes \cup {NoHash},
           by: Attempts \cup {Nobody}]

TypeOK ==
  /\ row \in [status: Statuses, version: Nat, unapplied: Nat]
  /\ events \subseteq Events
  /\ effects \subseteq Attempts
  /\ pc \in [Attempts -> Places]
  /\ request \in [Attempts -> Requests]
  /\ tries \in [Attempts -> 0..TxnAttempts]
  /\ holder \in [Locks -> Attempts \cup {Nobody}]
  /\ reply \in [Attempts -> {"none", "done", "replayed", "reused", "refused"}]

-----------------------------------------------------------------------------
(* Events and locks.                                                       *)

Keyed(a) == request[a].key # NoKey
IsCreate(a) == request[a].action = "create"
IsTransition(a) == request[a].action \notin {"create", "allocate_advance"}

EventsOf(action, key) == {e \in events : e.action = action /\ e.key = key}

\* Slip: keys that are unique per document type only.
Bug_Prior(a) == {e \in events : e.key = request[a].key}

\* findByIdempotency: the events of the scope and key.
Prior(a) == EventsOf(request[a].action, request[a].key)

\* The answer a prior event gives: 409 when both hashes are there and differ.
PriorReply(a) ==
  IF \E e \in Prior(a) : e.hash \notin {NoHash, request[a].hash}
  THEN "reused" ELSE "replayed"

\* A transition locks the document; a create meets others on the unique key
\* of its own row.
LockOf(a) == IF IsCreate(a) THEN request[a].key ELSE "row"
NeedsLock(a) == IsCreate(a) => Keyed(a)

\* Slip: a transaction that ends keeps its connection, and so its locks.
Bug_Released(a) == holder

\* Commit and rollback release what the transaction holds.
Released(a) == [l \in Locks |-> IF holder[l] = a THEN Nobody ELSE holder[l]]

\* The optimistic check; allocateAdvance and create make none.
VersionMatches(a) ==
  IsTransition(a) => request[a].version \in {AnyVersion, row.version}

\* What the locked row must allow.
Admitted(a) ==
  /\ VersionMatches(a)
  /\ IsTransition(a) => Target(row.status, request[a].action) # "none"
  /\ request[a].action = "allocate_advance" =>
       row.status = "posted" /\ row.unapplied > 0

\* Slip: the transition commits without its version bump.
Bug_SameVersion(a) ==
  CASE IsCreate(a) -> row
    [] request[a].action = "allocate_advance" -> [row EXCEPT !.unapplied = @ - 1]
    [] OTHER -> [row EXCEPT !.status = Target(@, request[a].action)]

\* What the work writes on the row; only runTransition bumps the version.
RowAfter(a) ==
  CASE IsCreate(a) -> row
    [] request[a].action = "allocate_advance" -> [row EXCEPT !.unapplied = @ - 1]
    [] OTHER -> [row EXCEPT !.status = Target(@, request[a].action),
                            !.version = @ + 1]

EventOf(a) == [action |-> request[a].action, key |-> request[a].key,
               hash |-> request[a].hash, by |-> a]

LegacyEvents == {[action |-> l[1], key |-> l[2], hash |-> NoHash, by |-> Nobody] :
                   l \in Legacy}

-----------------------------------------------------------------------------
Init ==
  /\ row \in [status: {"draft", "approved", "posted"}, version: {1}, unapplied: {2}]
  /\ events = LegacyEvents
  /\ effects = {}
  /\ pc = [a \in Attempts |-> "idle"]
  /\ request \in [Attempts -> Requests]
  /\ tries = [a \in Attempts |-> 0]
  /\ holder = [l \in Locks |-> Nobody]
  /\ reply = [a \in Attempts |-> "none"]

Go(a, place) == pc' = [pc EXCEPT ![a] = place]

\* The attempt is answered, or will be when its answer is sent.
Answer(a, what) == Go(a, "reply") /\ reply' = [reply EXCEPT ![a] = what]

\* A request arrives and its transaction begins.
Begin(a) ==
  /\ pc[a] = "idle"
  /\ Go(a, "replay")
  /\ tries' = [tries EXCEPT ![a] = 1]
  /\ UNCHANGED <<row, events, effects, request, holder, reply>>

\* The replay read, before any lock.  (The catch of a reused key looks again
\* and finds the same.)
ReadPrior(a) ==
  /\ pc[a] = "replay"
  /\ IF Keyed(a) /\ Prior(a) # {} THEN Answer(a, PriorReply(a))
     ELSE Go(a, "lock") /\ UNCHANGED reply
  /\ UNCHANGED <<row, events, effects, request, tries, holder>>

\* Slip: a handler that fails rethrows without a second look.
Bug_Rethrow(a, duplicate) == Answer(a, "refused")

\* What a handler that throws does: it looks again, in the create routes only
\* if the error is a duplicate.
Throw(a, duplicate) ==
  IF IsCreate(a) => duplicate
  THEN Go(a, "catch") /\ UNCHANGED reply
  ELSE Answer(a, "refused")

\* FOR UPDATE, or the insert that waits for another insert of its key.
\* A refused attempt rolls back.
TakeLock(a) ==
  /\ pc[a] = "lock"
  /\ NeedsLock(a) => holder[LockOf(a)] = Nobody
  /\ IF Admitted(a)
     THEN /\ Go(a, "work") /\ UNCHANGED reply
          /\ holder' = IF NeedsLock(a) THEN [holder EXCEPT ![LockOf(a)] = a]
                       ELSE holder
     ELSE Throw(a, FALSE) /\ UNCHANGED holder
  /\ UNCHANGED <<row, events, effects, request, tries>>


\* The unique index accepts the event of this attempt.
KeyIsFresh(a) == Keyed(a) => Prior(a) = {}

\* Side effects, conditional update, event, commit; a duplicate event rolls
\* everything back.
Commit(a) ==
  /\ pc[a] = "work"
  /\ IF KeyIsFresh(a)
     THEN /\ row' = RowAfter(a)
          /\ events' = events \cup {EventOf(a)}
          /\ effects' = effects \cup {a}
          /\ Answer(a, "done")
     ELSE Throw(a, TRUE) /\ UNCHANGED <<row, events, effects>>
  /\ holder' = Released(a)
  /\ UNCHANGED <<request, tries>>

\* The work itself throws (closed period, allocation guards, maker-checker).
PerformFails(a) ==
  /\ pc[a] = "work"
  /\ Throw(a, FALSE)
  /\ holder' = Released(a)
  /\ UNCHANGED <<row, events, effects, request, tries>>

\* A deadlock or lock timeout rolls back, and withTransaction runs the unit
\* of work again while it has attempts left.
Deadlock(a) ==
  /\ pc[a] \in {"lock", "work"}
  /\ IF tries[a] < TxnAttempts
     THEN /\ Go(a, "replay") /\ UNCHANGED reply
          /\ tries' = [tries EXCEPT ![a] = @ + 1]
     ELSE Throw(a, FALSE) /\ UNCHANGED tries
  /\ holder' = Released(a)
  /\ UNCHANGED <<row, events, effects, request>>

\* The catch of a keyed attempt looks on the pool for what another committed.
Catch(a) ==
  /\ pc[a] = "catch"
  /\ Answer(a, IF Keyed(a) /\ Prior(a) # {} THEN PriorReply(a) ELSE "refused")
  /\ UNCHANGED <<row, events, effects, request, tries, holder>>

\* The answer reaches the client.
Reply(a) ==
  /\ pc[a] = "reply"
  /\ Go(a, "answered")
  /\ UNCHANGED <<row, events, effects, request, tries, holder, reply>>

\* The server dies: open transactions roll back, answers are not sent.
Crash ==
  /\ \E a \in Attempts : pc[a] \notin {"idle", "answered", "lost"}
  /\ pc' = [a \in Attempts |-> IF pc[a] \in {"idle", "answered"} THEN pc[a]
                               ELSE "lost"]
  /\ holder' = [l \in Locks |-> Nobody]
  /\ UNCHANGED <<row, events, effects, request, tries, reply>>

\* What the event loop and the database do for a request of their own accord.
Progress(a) == ReadPrior(a) \/ TakeLock(a) \/ Commit(a) \/ Catch(a) \/ Reply(a)

Next ==
  \/ \E a \in Attempts : Begin(a) \/ Progress(a) \/ PerformFails(a) \/ Deadlock(a)
  \/ Crash

Spec == Init /\ [][Next]_vars
FairSpec == Spec /\ \A a \in Attempts : WF_vars(Progress(a))

-----------------------------------------------------------------------------
(* Properties.                                                             *)

\* Retries, duplicates and crashes included, a key takes effect once per
\* action (events.js: a retried mutation is a safe no-op replay).
AtMostOnce ==
  \A a, b \in effects :
    /\ Keyed(a) /\ request[a].key = request[b].key
    /\ request[a].action = request[b].action
    => a = b

\* Of the transitions that named the same version, one takes effect
\* (TransitionExecutor.js: optimistic concurrency).
OneWinnerPerVersion ==
  \A a, b \in effects :
    /\ IsTransition(a) /\ IsTransition(b)
    /\ request[a].version # AnyVersion /\ request[a].version = request[b].version
    => a = b

\* The row's history is the events': its version counts the transitions that
\* took effect, and what is left of the advance the applications.
RowIsItsHistory ==
  /\ row.version = 1 + Cardinality({a \in effects : IsTransition(a)})
  /\ row.unapplied = 2 - Cardinality({a \in effects :
                            request[a].action = "allocate_advance"})
  /\ effects = {e.by : e \in events} \ {Nobody}

\* A transition or an application whose key has taken effect is never
\* answered with an error of its own: its client would do the work again.
NoErrorAfterEffect ==
  [][\A a \in Attempts :
       /\ Keyed(a) /\ ~IsCreate(a)
       /\ reply[a] = "none" /\ reply'[a] = "refused"
       => Prior(a) = {}]_vars

\* The contract of idempotency keys is implemented: an attempt that took
\* effect is done, whether or not its answer arrived.
asked == [a \in Attempts |-> [scope |-> request[a].action,
                              key |-> request[a].key, hash |-> request[a].hash]]
answered == [a \in Attempts |->
               IF reply[a] = "none" /\ pc[a] = "lost" THEN "lost" ELSE reply[a]]
HashIn(found) == IF found = {} THEN Unused ELSE (CHOOSE e \in found : TRUE).hash
meaning == [sk \in Actions \X Keys |-> HashIn(EventsOf(sk[1], sk[2]))]

Contract == INSTANCE ExactlyOnce WITH Scopes <- Actions, answer <- answered
ImplementsExactlyOnce == Contract!Spec

\* Every request that arrives is answered, unless the server dies.
EveryAttemptEnds ==
  \A a \in Attempts : pc[a] # "idle" ~> pc[a] \in {"answered", "lost"}
=============================================================================

---------------------- MODULE TransitionExecutorProofs ----------------------
(***************************************************************************)
(* For any number of attempts, keys and payloads: a key takes effect once, *)
(* a version is consumed once, the row counts what took effect, nothing    *)
(* that took effect is refused, and the protocol implements ExactlyOnce.   *)
(*                                                                         *)
(* The inductive invariant says what makes that so: whoever works on the   *)
(* row holds its lock and was admitted by the row as it still is, a scope  *)
(* and key name one event, what took effect has its event, and a place in  *)
(* the code tells whether an answer was chosen.                            *)
(***************************************************************************)
EXTENDS TransitionExecutor, FiniteSetTheorems, TLAPS

\* Work on the row happens under its lock, admitted by what the row still is.
WorkIsLocked ==
  \A a \in Attempts : pc[a] = "work" /\ ~IsCreate(a) =>
    holder["row"] = a /\ Admitted(a)

\* uq_are_scope.
OneEventPerKey ==
  \A e, f \in events : e.key # NoKey /\ e.key = f.key /\ e.action = f.action => e = f

EffectsHaveEvents == \A a \in effects : EventOf(a) \in events

\* A transition that named a version has used it up.
VersionsSpent ==
  \A a \in effects :
    IsTransition(a) /\ request[a].version # AnyVersion => request[a].version < row.version

Undecided == {"idle", "replay", "lock", "work", "catch"}
AnswersFitPlaces ==
  \A a \in Attempts : /\ pc[a] \in Undecided => reply[a] = "none"
                      /\ pc[a] \in {"reply", "answered"} => reply[a] # "none"

Inv == /\ TypeOK /\ WorkIsLocked /\ OneEventPerKey /\ EffectsHaveEvents
       /\ VersionsSpent /\ OneWinnerPerVersion /\ AnswersFitPlaces

-----------------------------------------------------------------------------
\* Init establishes the invariant.
LEMMA InitInv == Init => Inv
<1> SUFFICES ASSUME Init PROVE Inv
  OBVIOUS
<1> USE ExecutorAssumption DEF Init
<1>1. TypeOK
  BY DEF TypeOK, Statuses, Places, Events, LegacyEvents
<1>2. WorkIsLocked /\ EffectsHaveEvents /\ VersionsSpent /\ OneWinnerPerVersion
  BY DEF WorkIsLocked, EffectsHaveEvents, VersionsSpent, OneWinnerPerVersion
<1>3. OneEventPerKey
  <2> SUFFICES ASSUME NEW e \in events, NEW f \in events,
                      e.key = f.key, e.action = f.action
               PROVE  e = f
    BY DEF OneEventPerKey
  <2>1. PICK l \in Legacy : e = [action |-> l[1], key |-> l[2], hash |-> NoHash, by |-> Nobody]
    BY DEF LegacyEvents
  <2>2. PICK m \in Legacy : f = [action |-> m[1], key |-> m[2], hash |-> NoHash, by |-> Nobody]
    BY DEF LegacyEvents
  <2> QED BY <2>1, <2>2
<1>4. AnswersFitPlaces
  BY DEF AnswersFitPlaces
<1> QED BY <1>1, <1>2, <1>3, <1>4 DEF Inv

\* What a throw does to the attempt that throws.
LEMMA ThrowType ==
  ASSUME TypeOK, NEW a \in Attempts, NEW d \in BOOLEAN, Throw(a, d),
         pc[a] \in Undecided, AnswersFitPlaces
  PROVE  /\ pc' \in [Attempts -> Places]
         /\ reply' \in [Attempts -> {"none", "done", "replayed", "reused", "refused"}]
         /\ pc'[a] # "work"
         /\ \A b \in Attempts \ {a} : pc'[b] = pc[b] /\ reply'[b] = reply[b]
         /\ pc'[a] \in {"catch", "reply"}
         /\ pc'[a] = "catch" => reply'[a] = "none"
         /\ pc'[a] = "reply" => reply'[a] = "refused"
BY DEF TypeOK, Throw, Answer, Go, Places, AnswersFitPlaces

\* Whoever releases holds nothing, and takes nothing from the others.
LEMMA Releases ==
  ASSUME TypeOK, NEW a \in Attempts
  PROVE  /\ Released(a) \in [Locks -> Attempts \cup {Nobody}]
         /\ \A b \in Attempts \ {a} : holder["row"] = b => Released(a)["row"] = b
BY DEF TypeOK, Released, Locks

\* A step that commits nothing keeps what the invariant says of what is
\* committed.
LEMMA CommittedKept ==
  ASSUME Inv, UNCHANGED <<row, events, effects, request>>
  PROVE  OneEventPerKey' /\ EffectsHaveEvents' /\ VersionsSpent' /\ OneWinnerPerVersion'
<1>1. OneEventPerKey' /\ EffectsHaveEvents'
  BY DEF Inv, OneEventPerKey, EffectsHaveEvents, EventOf
<1>2. VersionsSpent' /\ OneWinnerPerVersion'
  BY DEF Inv, VersionsSpent, OneWinnerPerVersion, IsTransition
<1> QED BY <1>1, <1>2

\* Work stays locked when nobody starts it and the lock is not taken away.
LEMMA WorkKept ==
  ASSUME Inv, row' = row, request' = request,
         \A b \in Attempts : pc'[b] = "work" =>
           /\ pc[b] = "work"
           /\ holder["row"] = b => holder'["row"] = b
  PROVE  WorkIsLocked'
BY DEF Inv, WorkIsLocked, Admitted, VersionMatches, IsTransition, IsCreate

-----------------------------------------------------------------------------
(* One lemma per action.                                                   *)

LEMMA BeginStep ==
  ASSUME Inv, NEW a \in Attempts, Begin(a)
  PROVE  Inv'
<1>1. TypeOK'
  BY ExecutorAssumption DEF Inv, TypeOK, Begin, Go, Places
<1>2. AnswersFitPlaces' /\ WorkIsLocked'
  BY WorkKept DEF Inv, TypeOK, Begin, Go, AnswersFitPlaces, Undecided
<1> QED BY <1>1, <1>2, CommittedKept DEF Inv, Begin

LEMMA ReadPriorStep ==
  ASSUME Inv, NEW a \in Attempts, ReadPrior(a)
  PROVE  Inv'
<1>1. TypeOK'
  BY DEF Inv, TypeOK, ReadPrior, Answer, Go, Places, PriorReply
<1>2. AnswersFitPlaces' /\ WorkIsLocked'
  BY WorkKept DEF Inv, TypeOK, ReadPrior, Answer, Go, PriorReply,
                       AnswersFitPlaces, Undecided
<1> QED BY <1>1, <1>2, CommittedKept DEF Inv, ReadPrior

LEMMA TakeLockStep ==
  ASSUME Inv, NEW a \in Attempts, TakeLock(a)
  PROVE  Inv'
<1>1. CASE Admitted(a)
  <2>1. holder' \in [Locks -> Attempts \cup {Nobody}] /\ pc' \in [Attempts -> Places]
    BY <1>1 DEF Inv, TypeOK, TakeLock, Go, Places
  <2>2. TypeOK'
    BY <1>1, <2>1 DEF Inv, TypeOK, TakeLock
  <2>3. AnswersFitPlaces'
    BY <1>1 DEF Inv, TypeOK, TakeLock, Go, AnswersFitPlaces, Undecided
  <2>4. WorkIsLocked'
    <3> SUFFICES ASSUME NEW b \in Attempts, pc'[b] = "work", ~IsCreate(b)
                 PROVE  holder'["row"] = b /\ Admitted(b)
      BY DEF WorkIsLocked, TakeLock, Admitted, VersionMatches, IsTransition, IsCreate
    <3>1. CASE b = a
      BY <1>1, <3>1 DEF Inv, TypeOK, TakeLock, NeedsLock, LockOf, Locks
    <3>2. CASE b # a
      <4>1. pc[b] = "work" /\ holder["row"] = b /\ Admitted(b)
        BY <1>1, <3>2 DEF Inv, TypeOK, TakeLock, Go, WorkIsLocked
      <4>2. NeedsLock(a) => holder[LockOf(a)] = Nobody
        BY DEF TakeLock
      <4>3. holder'["row"] = holder["row"]
        BY <1>1, <4>1, <4>2, ExecutorAssumption DEF Inv, TypeOK, TakeLock, Locks
      <4> QED BY <4>1, <4>3
    <3> QED BY <3>1, <3>2
  <2> QED BY <2>2, <2>3, <2>4, CommittedKept DEF Inv, TakeLock
<1>2. CASE ~Admitted(a)
  <2>1. Throw(a, FALSE) /\ UNCHANGED <<row, events, effects, request, tries, holder>>
    BY <1>2 DEF TakeLock
  <2>2. pc[a] \in Undecided
    BY DEF TakeLock, Undecided
  <2>3. TypeOK'
    BY <2>1, <2>2, ThrowType DEF Inv, TypeOK
  <2>4. AnswersFitPlaces' /\ WorkIsLocked'
    BY <2>1, <2>2, ThrowType, WorkKept
       DEF Inv, AnswersFitPlaces, Undecided
  <2> QED BY <2>1, <2>3, <2>4, CommittedKept DEF Inv
<1> QED BY <1>1, <1>2

\* An attempt that throws and lets go of its locks, whatever made it throw.
LEMMA ThrowStep ==
  ASSUME Inv, NEW a \in Attempts, NEW d \in BOOLEAN, Throw(a, d),
         pc[a] \in Undecided, holder' = Released(a), tries' = tries,
         UNCHANGED <<row, events, effects, request>>
  PROVE  Inv'
<1>1. TypeOK'
  BY ThrowType, Releases DEF Inv, TypeOK
<1>2. AnswersFitPlaces'
  BY ThrowType DEF Inv, AnswersFitPlaces, Undecided
<1>3. WorkIsLocked'
  BY ThrowType, Releases, WorkKept DEF Inv
<1> QED BY <1>1, <1>2, <1>3, CommittedKept DEF Inv

LEMMA PerformFailsStep ==
  ASSUME Inv, NEW a \in Attempts, PerformFails(a)
  PROVE  Inv'
BY ThrowStep DEF PerformFails, Undecided

LEMMA DeadlockStep ==
  ASSUME Inv, NEW a \in Attempts, Deadlock(a)
  PROVE  Inv'
<1>1. CASE tries[a] < TxnAttempts
  <2>1. TypeOK'
    BY <1>1, Releases, ExecutorAssumption DEF Inv, TypeOK, Deadlock, Go, Places
  <2>2. AnswersFitPlaces'
    BY <1>1 DEF Inv, TypeOK, Deadlock, Go, AnswersFitPlaces, Undecided
  <2>3. WorkIsLocked'
    BY <1>1, Releases, WorkKept DEF Inv, TypeOK, Deadlock, Go
  <2> QED BY <2>1, <2>2, <2>3, CommittedKept DEF Inv, Deadlock
<1>2. CASE ~(tries[a] < TxnAttempts)
  BY <1>2, ThrowStep DEF Deadlock, Undecided
<1> QED BY <1>1, <1>2

LEMMA CatchStep ==
  ASSUME Inv, NEW a \in Attempts, Catch(a)
  PROVE  Inv'
<1>1. TypeOK'
  BY DEF Inv, TypeOK, Catch, Answer, Go, Places, PriorReply
<1>2. AnswersFitPlaces' /\ WorkIsLocked'
  BY WorkKept DEF Inv, TypeOK, Catch, Answer, Go, PriorReply,
                       AnswersFitPlaces, Undecided
<1> QED BY <1>1, <1>2, CommittedKept DEF Inv, Catch

LEMMA ReplyStep ==
  ASSUME Inv, NEW a \in Attempts, Reply(a)
  PROVE  Inv'
<1>1. TypeOK'
  BY DEF Inv, TypeOK, Reply, Go, Places
<1>2. AnswersFitPlaces' /\ WorkIsLocked'
  BY WorkKept DEF Inv, TypeOK, Reply, Go, AnswersFitPlaces, Undecided
<1> QED BY <1>1, <1>2, CommittedKept DEF Inv, Reply

LEMMA CrashStep ==
  ASSUME Inv, Crash
  PROVE  Inv'
<1>1. TypeOK'
  BY DEF Inv, TypeOK, Crash, Places
<1>2. AnswersFitPlaces' /\ WorkIsLocked'
  BY WorkKept DEF Inv, TypeOK, Crash, AnswersFitPlaces, Undecided
<1> QED BY <1>1, <1>2, CommittedKept DEF Inv, Crash

\* A row that gets a status and its next version is a row.
LEMMA MovedRow ==
  ASSUME NEW r \in [status: Statuses, version: Nat, unapplied: Nat],
         NEW s \in Statuses, NEW v \in Nat
  PROVE  [r EXCEPT !.status = s, !.version = v]
           \in [status: Statuses, version: Nat, unapplied: Nat]
OBVIOUS

\* What the work writes is a row whose version never falls.
LEMMA RowAfterType ==
  ASSUME Inv, NEW a \in Attempts, pc[a] = "work"
  PROVE  /\ RowAfter(a) \in [status: Statuses, version: Nat, unapplied: Nat]
         /\ RowAfter(a).version >= row.version
         /\ IsTransition(a) => RowAfter(a).version = row.version + 1
         /\ IsTransition(a) => VersionMatches(a)
         /\ IsCreate(a) => RowAfter(a) = row
<1> USE DEF IsCreate, IsTransition
<1>1. row \in [status: Statuses, version: Nat, unapplied: Nat]
  BY DEF Inv, TypeOK
<1>2. CASE IsCreate(a)
  BY <1>1, <1>2 DEF RowAfter
<1>3. CASE request[a].action = "allocate_advance"
  <2>1. row.unapplied > 0
    BY <1>3 DEF Inv, WorkIsLocked, Admitted
  <2> QED BY <1>1, <1>3, <2>1 DEF RowAfter
<1>4. CASE IsTransition(a)
  <2>1. Target(row.status, request[a].action) # "none" /\ VersionMatches(a)
    BY <1>4 DEF Inv, WorkIsLocked, Admitted
  <2>2. Target(row.status, request[a].action) \in Statuses
    BY <2>1 DEF Target, Statuses
  <2>3. RowAfter(a) = [row EXCEPT !.status = Target(row.status, request[a].action),
                                  !.version = row.version + 1]
    BY <1>1, <1>4 DEF RowAfter
  <2>4. RowAfter(a) \in [status: Statuses, version: Nat, unapplied: Nat]
    <3>1. row.version + 1 \in Nat
      BY <1>1
    <3> QED BY <1>1, <2>2, <2>3, <3>1, MovedRow
  <2>5. RowAfter(a).version = row.version + 1
    BY <1>1, <2>3
  <2> QED BY <1>1, <1>4, <2>1, <2>4, <2>5
<1> QED BY <1>2, <1>3, <1>4

LEMMA CommitStep ==
  ASSUME Inv, NEW a \in Attempts, Commit(a)
  PROVE  Inv'
<1>1. CASE KeyIsFresh(a)
  <2>0. /\ pc[a] = "work" /\ row' = RowAfter(a) /\ events' = events \cup {EventOf(a)}
        /\ effects' = effects \cup {a} /\ Answer(a, "done")
        /\ holder' = Released(a) /\ request' = request /\ tries' = tries
    BY <1>1 DEF Commit
  <2>1. TypeOK'
    <3>1. EventOf(a) \in Events
      BY DEF Inv, TypeOK, EventOf, Events, Requests
    <3>2. /\ pc' \in [Attempts -> Places]
          /\ reply' \in [Attempts -> {"none", "done", "replayed", "reused", "refused"}]
      BY <2>0 DEF Inv, TypeOK, Answer, Go, Places
    <3> QED BY <2>0, <3>1, <3>2, RowAfterType, Releases DEF Inv, TypeOK
  <2>2. OneEventPerKey'
    <3> SUFFICES ASSUME NEW e \in events \cup {EventOf(a)}, NEW f \in events \cup {EventOf(a)},
                        e.key # NoKey, e.key = f.key, e.action = f.action
                 PROVE  e = f
      BY <2>0 DEF OneEventPerKey
    <3>1. CASE e \in events /\ f \in events
      BY <3>1 DEF Inv, OneEventPerKey
    <3>2. CASE e = EventOf(a) \/ f = EventOf(a)
      BY <1>1, <3>2 DEF KeyIsFresh, Keyed, Prior, EventsOf, EventOf
    <3> QED BY <3>1, <3>2
  <2>3. EffectsHaveEvents'
    BY <2>0 DEF Inv, EffectsHaveEvents, EventOf
  <2>4. VersionsSpent'
    <3> SUFFICES ASSUME NEW b \in effects \cup {a}, IsTransition(b),
                        request[b].version # AnyVersion
                 PROVE  request[b].version < RowAfter(a).version
      BY <2>0 DEF VersionsSpent, IsTransition
    <3>1. b \in Attempts /\ request[b].version \in Nat /\ row.version \in Nat
          /\ RowAfter(a).version \in Nat
      BY <2>0, RowAfterType, ExecutorAssumption DEF Inv, TypeOK, Requests
    <3>2. CASE b \in effects
      <4>1. request[b].version < row.version
        BY <3>2 DEF Inv, VersionsSpent
      <4> QED BY <2>0, <3>1, <4>1, RowAfterType
    <3>3. CASE b = a
      BY <2>0, <3>1, <3>3, RowAfterType DEF VersionMatches
    <3> QED BY <3>2, <3>3
  <2>5. OneWinnerPerVersion'
    <3> SUFFICES ASSUME NEW b \in effects, IsTransition(a), IsTransition(b),
                        request[b].version # AnyVersion,
                        request[a].version = request[b].version
                 PROVE  FALSE
      BY <2>0 DEF Inv, OneWinnerPerVersion, IsTransition
    <3>1. request[b].version < row.version
      BY DEF Inv, VersionsSpent
    <3>2. request[b].version = row.version
      BY <2>0, RowAfterType DEF VersionMatches
    <3> QED BY <3>1, <3>2 DEF Inv, TypeOK
  <2>6. WorkIsLocked'
    <3>1. CASE IsCreate(a)
      <4>1. row' = row
        BY <2>0, <3>1, RowAfterType
      <4> QED BY <2>0, <4>1, Releases, WorkKept DEF Inv, TypeOK, Answer, Go
    <3>2. CASE ~IsCreate(a)
      <4>1. \A b \in Attempts : pc'[b] = "work" => IsCreate(b)
        BY <2>0, <3>2 DEF Inv, TypeOK, WorkIsLocked, Answer, Go
      <4> QED BY <2>0, <4>1 DEF WorkIsLocked, IsCreate
    <3> QED BY <3>1, <3>2
  <2>7. AnswersFitPlaces'
    BY <2>0 DEF Inv, TypeOK, Answer, Go, AnswersFitPlaces, Undecided
  <2> QED BY <2>1, <2>2, <2>3, <2>4, <2>5, <2>6, <2>7 DEF Inv
<1>2. CASE ~KeyIsFresh(a)
  BY <1>2, ThrowStep DEF Commit, Undecided
<1> QED BY <1>1, <1>2

LEMMA NextInv == Inv /\ [Next]_vars => Inv'
<1> SUFFICES ASSUME Inv, [Next]_vars PROVE Inv'
  OBVIOUS
<1>1. ASSUME NEW a \in Attempts, Begin(a) PROVE Inv'
  BY <1>1, BeginStep
<1>2. ASSUME NEW a \in Attempts, Progress(a) PROVE Inv'
  BY <1>2, ReadPriorStep, TakeLockStep, CommitStep, CatchStep, ReplyStep DEF Progress
<1>3. ASSUME NEW a \in Attempts, PerformFails(a) \/ Deadlock(a) PROVE Inv'
  BY <1>3, PerformFailsStep, DeadlockStep
<1>4. CASE Crash
  BY <1>4, CrashStep
<1>5. CASE UNCHANGED vars
  <2>1. TypeOK' /\ AnswersFitPlaces'
    BY <1>5 DEF Inv, TypeOK, AnswersFitPlaces, vars
  <2> QED BY <1>5, <2>1, CommittedKept, WorkKept DEF Inv, vars
<1> QED BY <1>1, <1>2, <1>3, <1>4, <1>5 DEF Next

\* The invariant holds of every behaviour.
LEMMA Invariance == Spec => []Inv
BY InitInv, NextInv, PTL DEF Spec

-----------------------------------------------------------------------------
(* The results.                                                            *)

\* Rows, events and answers keep their types whatever is refused or retried.
THEOREM TypeCorrect == Spec => []TypeOK
<1>1. Inv => TypeOK
  BY DEF Inv
<1> QED BY <1>1, Invariance, PTL

\* A key takes effect at most once per action, through any number of
\* retries, duplicates, deadlocks and crashes.
THEOREM AppliedAtMostOnce == Spec => []AtMostOnce
<1>1. Inv => AtMostOnce
  <2> SUFFICES ASSUME Inv, NEW a \in effects, NEW b \in effects, Keyed(a),
                      request[a].key = request[b].key,
                      request[a].action = request[b].action
               PROVE  a = b
    BY DEF AtMostOnce
  <2>1. EventOf(a) = EventOf(b)
    BY DEF Inv, EffectsHaveEvents, OneEventPerKey, EventOf, Keyed
  <2> QED BY <2>1 DEF EventOf
<1> QED BY <1>1, Invariance, PTL

\* Of any number of transitions that name one version, one takes effect.
THEOREM VersionsConsumedOnce == Spec => []OneWinnerPerVersion
<1>1. Inv => OneWinnerPerVersion
  BY DEF Inv
<1> QED BY <1>1, Invariance, PTL

-----------------------------------------------------------------------------
(* The protocol implements the contract of idempotency keys.               *)

\* A key means what its one event says.
LEMMA MeaningOfEvent ==
  ASSUME Inv, NEW e \in events, e.key \in Keys
  PROVE  /\ EventsOf(e.action, e.key) = {e}
         /\ meaning[<<e.action, e.key>>] = e.hash
         /\ e.hash \in Hashes \cup {NoHash}
<1>1. EventsOf(e.action, e.key) = {e}
  BY ExecutorAssumption DEF Inv, OneEventPerKey, EventsOf
<1>2. <<e.action, e.key>> \in Actions \X Keys /\ e.hash \in Hashes \cup {NoHash}
  BY DEF Inv, TypeOK, Events
<1> QED BY <1>1, <1>2 DEF meaning, HashIn

LEMMA HashOfOne ==
  ASSUME NEW e
  PROVE  HashIn({e}) = e.hash
<1>1. (CHOOSE x \in {e} : TRUE) = e
  OBVIOUS
<1> QED BY <1>1 DEF HashIn

LEMMA AskedKept ==
  ASSUME request' = request
  PROVE  asked' = asked
BY DEF asked

LEMMA MeaningKept ==
  ASSUME events' = events
  PROVE  meaning' = meaning
BY DEF meaning, EventsOf

\* Choosing an answer is an answer of the contract ...
LEMMA AnswerAnswers ==
  ASSUME Inv, NEW a \in Attempts, NEW what, what # "none", Answer(a, what),
         pc[a] \in Undecided, request' = request
  PROVE  Contract!Answer(a, what)
<1>1. /\ reply[a] = "none" /\ reply'[a] = what
      /\ \A b \in Attempts \ {a} : reply'[b] = reply[b] /\ pc'[b] = pc[b]
  BY DEF Inv, TypeOK, AnswersFitPlaces, Answer, Go
<1>2. answered[a] = "none"
  BY <1>1 DEF answered, Undecided
<1>3. answered' = [answered EXCEPT ![a] = what]
  BY <1>1 DEF answered
<1> QED BY <1>2, <1>3, AskedKept DEF Contract!Answer

\* ... and moving on without one is a stutter.
LEMMA MovingIsSilent ==
  ASSUME Inv, NEW a \in Attempts, NEW place, Go(a, place), place # "lost",
         pc[a] # "lost", reply' = reply
  PROVE  answered' = answered
BY DEF Inv, TypeOK, Go, answered

\* The answer of a prior event is a replay or a refusal to reuse the key.
LEMMA PriorAnswers ==
  ASSUME Inv, NEW a \in Attempts, Keyed(a), Prior(a) # {}, Answer(a, PriorReply(a)),
         pc[a] \in Undecided, UNCHANGED <<events, request>>
  PROVE  Contract!Replay(a) \/ Contract!Reuse(a)
<1>1. PICK e \in Prior(a) : TRUE
  OBVIOUS
<1>2. /\ e \in events /\ e.action = request[a].action /\ e.key = request[a].key
      /\ request[a].key \in Keys
  BY <1>1 DEF Prior, EventsOf, Keyed, Inv, TypeOK, Requests
<1>3. /\ Prior(a) = {e} /\ meaning[<<request[a].action, request[a].key>>] = e.hash
      /\ e.hash \in Hashes \cup {NoHash}
  BY <1>2, MeaningOfEvent DEF Prior
<1>4. /\ Contract!Name(a) = <<request[a].action, request[a].key>>
      /\ Contract!Keyed(a) /\ asked[a].hash = request[a].hash
  BY DEF Contract!Name, Contract!Keyed, asked, Keyed
<1>5. CASE e.hash \in {NoHash, request[a].hash}
  <2>1. PriorReply(a) = "replayed"
    BY <1>3, <1>5 DEF PriorReply
  <2>2. Contract!Answer(a, "replayed")
    BY <2>1, AnswerAnswers
  <2> QED BY <1>3, <1>4, <1>5, <2>2, MeaningKept DEF Contract!Replay
<1>6. CASE e.hash \notin {NoHash, request[a].hash}
  <2>1. PriorReply(a) = "reused"
    BY <1>3, <1>6 DEF PriorReply
  <2>2. Contract!Answer(a, "reused")
    BY <2>1, AnswerAnswers
  <2>3. e.hash \notin {Unused, NoHash, request[a].hash}
    BY <1>3, <1>6, ExecutorAssumption
  <2> QED BY <1>3, <1>4, <2>2, <2>3, MeaningKept DEF Contract!Reuse
<1> QED BY <1>5, <1>6

\* A throw refuses, or changes nothing the contract can see.
LEMMA ThrowRefuses ==
  ASSUME Inv, NEW a \in Attempts, NEW d \in BOOLEAN, Throw(a, d), pc[a] \in Undecided,
         UNCHANGED <<events, request>>
  PROVE  Contract!Refuse(a) \/ UNCHANGED <<asked, meaning, answered>>
<1>1. CASE Answer(a, "refused")
  BY <1>1, AnswerAnswers, MeaningKept DEF Contract!Refuse
<1>2. CASE Go(a, "catch") /\ reply' = reply
  BY <1>2, MovingIsSilent, AskedKept, MeaningKept DEF Undecided
<1> QED BY <1>1, <1>2 DEF Throw

\* A commit is the one effect of its key.
LEMMA CommitTakesEffect ==
  ASSUME Inv, NEW a \in Attempts, Commit(a), KeyIsFresh(a)
  PROVE  Contract!TakeEffect(a)
<1>0. /\ pc[a] \in Undecided /\ Answer(a, "done") /\ request' = request
      /\ events' = events \cup {EventOf(a)}
  BY DEF Commit, Undecided
<1>1. Contract!Answer(a, "done")
  BY <1>0, AnswerAnswers
<1>2. /\ Contract!Name(a) = <<request[a].action, request[a].key>>
      /\ Contract!Keyed(a) <=> Keyed(a) 
      /\ asked[a].hash = request[a].hash
  BY DEF Contract!Name, Contract!Keyed, asked, Keyed
<1>3. CASE Keyed(a)
  <2>1. /\ request[a].action \in Actions /\ request[a].key \in Keys
        /\ <<request[a].action, request[a].key>> \in Actions \X Keys
    BY <1>3 DEF Keyed, Inv, TypeOK, Requests
  <2>2. EventsOf(request[a].action, request[a].key) = {}
    BY <1>3 DEF KeyIsFresh, Prior
  <2>3. meaning[<<request[a].action, request[a].key>>] = Unused
    BY <2>1, <2>2 DEF meaning, HashIn
  <2>4. {e \in events' : e.action = request[a].action /\ e.key = request[a].key} = {EventOf(a)}
    BY <1>0, <2>2 DEF EventsOf, EventOf
  <2>5. \A sk \in Actions \X Keys : sk # <<request[a].action, request[a].key>> =>
          EventsOf(sk[1], sk[2])' = EventsOf(sk[1], sk[2])
    BY <1>0 DEF EventsOf, EventOf
  <2>6. meaning' = [meaning EXCEPT ![<<request[a].action, request[a].key>>] = request[a].hash]
    <3>1. \A sk \in Actions \X Keys : sk # <<request[a].action, request[a].key>> =>
            meaning'[sk] = meaning[sk]
      BY <2>5 DEF meaning, EventsOf
    <3>2. meaning'[<<request[a].action, request[a].key>>] = request[a].hash
      <4>1. HashIn({EventOf(a)}) = request[a].hash
        <5>1. HashIn({EventOf(a)}) = EventOf(a).hash
          BY HashOfOne
        <5> QED BY <5>1 DEF EventOf
      <4>2. meaning'[<<request[a].action, request[a].key>>] = HashIn({EventOf(a)})
        <5> DEFINE sk == <<request[a].action, request[a].key>>
        <5>1. {e \in events' : e.action = sk[1] /\ e.key = sk[2]} = {EventOf(a)}
          BY <2>4
        <5>2. sk \in Actions \X Keys
          BY <2>1
        <5> HIDE DEF sk
        <5>3. meaning'[sk] = HashIn({e \in events' : e.action = sk[1] /\ e.key = sk[2]})
          BY <5>2 DEF meaning, EventsOf
        <5> QED BY <5>1, <5>3 DEF sk
      <4> QED BY <4>1, <4>2
    <3> QED BY <3>1, <3>2, <2>1 DEF meaning
  <2> QED BY <1>1, <1>2, <1>3, <2>3, <2>6 DEF Contract!TakeEffect
<1>4. CASE ~Keyed(a)
  <2>1. EventOf(a).key \notin Keys
    BY <1>4, ExecutorAssumption DEF Keyed, EventOf
  <2>2. \A sk \in Actions \X Keys : EventsOf(sk[1], sk[2])' = EventsOf(sk[1], sk[2])
    BY <1>0, <2>1 DEF EventsOf
  <2>3. meaning' = meaning
    BY <2>2 DEF meaning, EventsOf
  <2> QED BY <1>1, <1>2, <1>4, <2>3 DEF Contract!TakeEffect
<1> QED BY <1>3, <1>4

LEMMA InitContract == Init => Contract!Init
<1> SUFFICES ASSUME Init PROVE Contract!Init
  OBVIOUS
<1> USE ExecutorAssumption
<1>1. asked \in [Attempts -> Contract!Asks]
  BY DEF Init, asked, Contract!Asks, Requests
<1>2. answered = [a \in Attempts |-> "none"]
  BY DEF Init, answered
<1>3. meaning \in [Actions \X Keys -> {NoHash, Unused}]
  <2> SUFFICES ASSUME NEW sk \in Actions \X Keys
               PROVE  HashIn(EventsOf(sk[1], sk[2])) \in {NoHash, Unused}
    BY DEF meaning
  <2>1. \A e \in EventsOf(sk[1], sk[2]) : e.hash = NoHash
    BY DEF Init, LegacyEvents, EventsOf
  <2>2. EventsOf(sk[1], sk[2]) # {} =>
          (CHOOSE e \in EventsOf(sk[1], sk[2]) : TRUE) \in EventsOf(sk[1], sk[2])
    OBVIOUS
  <2> QED BY <2>1, <2>2 DEF HashIn
<1> QED BY <1>1, <1>2, <1>3 DEF Contract!Init

LEMMA NextContract == Inv /\ [Next]_vars => [Contract!Next]_(Contract!vars)
<1> SUFFICES ASSUME Inv, [Next]_vars
             PROVE  Contract!Next \/ UNCHANGED <<asked, meaning, answered>>
  BY DEF Contract!vars
<1>1. ASSUME NEW a \in Attempts, Begin(a) PROVE UNCHANGED <<asked, meaning, answered>>
  BY <1>1, MovingIsSilent, AskedKept, MeaningKept DEF Begin
<1>2. ASSUME NEW a \in Attempts, ReadPrior(a)
      PROVE  Contract!Next \/ UNCHANGED <<asked, meaning, answered>>
  <2>1. CASE Keyed(a) /\ Prior(a) # {}
    BY <1>2, <2>1, PriorAnswers DEF ReadPrior, Undecided, Contract!Next
  <2>2. CASE ~(Keyed(a) /\ Prior(a) # {})
    BY <1>2, <2>2, MovingIsSilent, AskedKept, MeaningKept DEF ReadPrior
  <2> QED BY <2>1, <2>2
<1>3. ASSUME NEW a \in Attempts, TakeLock(a)
      PROVE  Contract!Next \/ UNCHANGED <<asked, meaning, answered>>
  <2>1. CASE Admitted(a)
    BY <1>3, <2>1, MovingIsSilent, AskedKept, MeaningKept DEF TakeLock
  <2>2. CASE ~Admitted(a)
    BY <1>3, <2>2, ThrowRefuses DEF TakeLock, Undecided, Contract!Next
  <2> QED BY <2>1, <2>2
<1>4. ASSUME NEW a \in Attempts, Commit(a)
      PROVE  Contract!Next \/ UNCHANGED <<asked, meaning, answered>>
  <2>1. CASE KeyIsFresh(a)
    BY <1>4, <2>1, CommitTakesEffect DEF Contract!Next
  <2>2. CASE ~KeyIsFresh(a)
    BY <1>4, <2>2, ThrowRefuses DEF Commit, Undecided, Contract!Next
  <2> QED BY <2>1, <2>2
<1>5. ASSUME NEW a \in Attempts, PerformFails(a)
      PROVE  Contract!Next \/ UNCHANGED <<asked, meaning, answered>>
  BY <1>5, ThrowRefuses DEF PerformFails, Undecided, Contract!Next
<1>6. ASSUME NEW a \in Attempts, Deadlock(a)
      PROVE  Contract!Next \/ UNCHANGED <<asked, meaning, answered>>
  <2>1. CASE tries[a] < TxnAttempts
    BY <1>6, <2>1, MovingIsSilent, AskedKept, MeaningKept DEF Deadlock
  <2>2. CASE ~(tries[a] < TxnAttempts)
    BY <1>6, <2>2, ThrowRefuses DEF Deadlock, Undecided, Contract!Next
  <2> QED BY <2>1, <2>2
<1>7. ASSUME NEW a \in Attempts, Catch(a)
      PROVE  Contract!Next \/ UNCHANGED <<asked, meaning, answered>>
  <2>2. CASE Keyed(a) /\ Prior(a) # {}
    BY <1>7, <2>2, PriorAnswers DEF Catch, Undecided, Contract!Next
  <2>3. CASE ~(Keyed(a) /\ Prior(a) # {})
    <3>1. Contract!Answer(a, "refused")
      BY <1>7, <2>3, AnswerAnswers DEF Catch, Undecided
    <3> QED BY <1>7, <3>1, MeaningKept DEF Catch, Contract!Refuse, Contract!Next
  <2> QED BY <2>2, <2>3
<1>8. ASSUME NEW a \in Attempts, Reply(a) PROVE UNCHANGED <<asked, meaning, answered>>
  BY <1>8, MovingIsSilent, AskedKept, MeaningKept DEF Reply
<1>9. CASE Crash
  <2> DEFINE lost == {a \in Attempts : pc[a] \in Undecided \ {"idle"}}
  <2>1. asked' = asked /\ meaning' = meaning
    BY <1>9, AskedKept, MeaningKept DEF Crash
  <2>2. \A a \in lost : answered[a] = "none"
    BY DEF Inv, AnswersFitPlaces, answered, Undecided
  <2>3. \A a \in Attempts : answered'[a] = IF a \in lost THEN "lost" ELSE answered[a]
    BY <1>9 DEF Crash, Inv, TypeOK, Places, AnswersFitPlaces, answered, Undecided
  <2>4. answered' = [a \in Attempts |-> IF a \in lost THEN "lost" ELSE answered[a]]
    BY <2>3 DEF answered
  <2>5. Contract!Lose(lost)
    BY <2>1, <2>2, <2>4 DEF Contract!Lose
  <2>6. lost \in SUBSET Attempts
    OBVIOUS
  <2> QED BY <2>5, <2>6 DEF Contract!Next
<1>10. CASE UNCHANGED vars
  BY <1>10, AskedKept, MeaningKept DEF vars, answered
<1> QED BY <1>1, <1>2, <1>3, <1>4, <1>5, <1>6, <1>7, <1>8, <1>9, <1>10 DEF Next, Progress

\* Handlers, retries and the catch's second look implement the contract of
\* idempotency keys: one effect per scope and key, replays of it, a refusal
\* to give a key a second meaning.
THEOREM KeysKeepTheirContract == Spec => ImplementsExactlyOnce
BY InitContract, NextContract, Invariance, PTL
   DEF Spec, ImplementsExactlyOnce, Contract!Spec

-----------------------------------------------------------------------------
(* The row and the events tell one history.                                 *)

TransitionsDone == {a \in effects : IsTransition(a)}
ApplicationsDone == {a \in effects : request[a].action = "allocate_advance"}

\* What took effect is finite, and an attempt that did is past the point
\* where it could take effect again.
HistoryInv ==
  /\ RowIsItsHistory
  /\ IsFiniteSet(effects)
  /\ \A a \in effects : pc[a] \notin Undecided

\* Whatever commits nothing keeps the history.
LEMMA HistoryKept ==
  ASSUME HistoryInv, UNCHANGED <<row, events, effects, request>>,
         \A a \in effects : pc'[a] \notin Undecided
  PROVE  HistoryInv'
BY DEF HistoryInv, RowIsItsHistory, IsTransition

\* One more element makes a finite set one larger.
LEMMA OneMore ==
  ASSUME NEW S, IsFiniteSet(S), NEW x, x \notin S
  PROVE  /\ IsFiniteSet(S \cup {x})
         /\ Cardinality(S) \in Nat
         /\ Cardinality(S \cup {x}) = Cardinality(S) + 1
BY FS_AddElement, FS_CardinalityType

\* A commit adds one attempt to what took effect, and writes on the row what
\* that attempt asked for.
LEMMA CommitKeepsHistory ==
  ASSUME Inv, HistoryInv, NEW a \in Attempts, Commit(a)
  PROVE  HistoryInv'
<1>1. CASE ~KeyIsFresh(a)
  <2>1. Throw(a, TRUE) /\ pc[a] \in Undecided
    BY <1>1 DEF Commit, Undecided
  <2>2. UNCHANGED <<row, events, effects, request>>
    BY <1>1 DEF Commit
  <2>3. \A b \in effects : pc'[b] \notin Undecided
    BY <2>1, ThrowType DEF Inv, TypeOK, HistoryInv
  <2> QED BY <2>2, <2>3, HistoryKept
<1>2. CASE KeyIsFresh(a)
  <2>1. /\ pc[a] = "work" /\ row' = RowAfter(a) /\ events' = events \cup {EventOf(a)}
        /\ effects' = effects \cup {a} /\ pc' = [pc EXCEPT ![a] = "reply"]
        /\ request' = request
    BY <1>2 DEF Commit, Answer, Go
  <2>2. a \notin effects
    BY <2>1 DEF HistoryInv, Undecided
  <2>3. \A b \in effects' : pc'[b] \notin Undecided
    BY <2>1 DEF Inv, TypeOK, HistoryInv, Undecided
  <2>4. effects' = {e.by : e \in events'} \ {Nobody}
    <3>1. effects = {e.by : e \in events} \ {Nobody}
      BY DEF HistoryInv, RowIsItsHistory
    <3>2. {e.by : e \in events'} = {e.by : e \in events} \cup {EventOf(a).by}
      BY <2>1
    <3>3. EventOf(a).by = a /\ a # Nobody
      BY ExecutorAssumption DEF EventOf
    <3> QED BY <2>1, <3>1, <3>2, <3>3
  <2>5. /\ IsFiniteSet(TransitionsDone) /\ IsFiniteSet(ApplicationsDone)
        /\ a \notin TransitionsDone /\ a \notin ApplicationsDone
    BY <2>2, FS_Subset DEF HistoryInv, TransitionsDone, ApplicationsDone
  <2>6. /\ row.version = 1 + Cardinality(TransitionsDone)
        /\ row.unapplied = 2 - Cardinality(ApplicationsDone)
        /\ Cardinality(TransitionsDone) \in Nat
        /\ Cardinality(ApplicationsDone) \in Nat
    BY <2>5, FS_CardinalityType
    DEF HistoryInv, RowIsItsHistory, TransitionsDone, ApplicationsDone
  <2>7. /\ TransitionsDone' = TransitionsDone \cup (IF IsTransition(a) THEN {a} ELSE {})
        /\ ApplicationsDone' = ApplicationsDone
             \cup (IF request[a].action = "allocate_advance" THEN {a} ELSE {})
    BY <2>1 DEF TransitionsDone, ApplicationsDone, IsTransition
  <2>8. /\ row'.version = 1 + Cardinality(TransitionsDone')
        /\ row'.unapplied = 2 - Cardinality(ApplicationsDone')
    <3>1. row \in [status: Statuses, version: Nat, unapplied: Nat]
      BY DEF Inv, TypeOK
    <3>2. CASE IsTransition(a)
      <4>1. /\ row'.version = row.version + 1
        BY <2>1, <3>2, RowAfterType
      <4>2. row'.unapplied = row.unapplied
        BY <2>1, <3>1, <3>2 DEF RowAfter, IsTransition, IsCreate
      <4>3. /\ TransitionsDone' = TransitionsDone \cup {a}
            /\ ApplicationsDone' = ApplicationsDone
        BY <2>7, <3>2 DEF IsTransition
      <4>4. Cardinality(TransitionsDone') = Cardinality(TransitionsDone) + 1
        BY <2>5, <4>3, OneMore
      <4> QED BY <2>6, <4>1, <4>2, <4>3, <4>4
    <3>3. CASE request[a].action = "allocate_advance"
      <4>1. row'.unapplied = row.unapplied - 1 /\ row'.version = row.version
        BY <2>1, <3>1, <3>3 DEF RowAfter, IsCreate
      <4>2. /\ TransitionsDone' = TransitionsDone
            /\ ApplicationsDone' = ApplicationsDone \cup {a}
        BY <2>7, <3>3 DEF IsTransition
      <4>3. Cardinality(ApplicationsDone') = Cardinality(ApplicationsDone) + 1
        BY <2>5, <4>2, OneMore
      <4> QED BY <2>6, <4>1, <4>2, <4>3
    <3>4. CASE IsCreate(a)
      <4>1. row' = row
        BY <2>1, <3>4, RowAfterType
      <4>2. TransitionsDone' = TransitionsDone /\ ApplicationsDone' = ApplicationsDone
        BY <2>7, <3>4 DEF IsCreate, IsTransition
      <4> QED BY <2>6, <4>1, <4>2
    <3> QED BY <3>2, <3>3, <3>4 DEF IsTransition, IsCreate
  <2>9. IsFiniteSet(effects')
    BY <2>1, <2>2, OneMore DEF HistoryInv
  <2> QED BY <2>3, <2>4, <2>8, <2>9
          DEF HistoryInv, RowIsItsHistory, TransitionsDone, ApplicationsDone, IsTransition
<1> QED BY <1>1, <1>2

\* Only a commit takes effect, and nothing brings an attempt that did back
\* to where it is undecided.
LEMMA OthersKeepHistory ==
  ASSUME Inv, HistoryInv, NEW a \in Attempts,
         \/ Begin(a) \/ ReadPrior(a) \/ TakeLock(a) \/ Catch(a) \/ Reply(a)
         \/ PerformFails(a) \/ Deadlock(a)
  PROVE  HistoryInv'
<1>1. UNCHANGED <<row, events, effects, request>>
  BY DEF Begin, ReadPrior, TakeLock, Catch, Reply, PerformFails, Deadlock
<1>2. \A b \in effects : b # a => pc'[b] = pc[b]
  BY DEF Begin, ReadPrior, TakeLock, Catch, Reply, PerformFails, Deadlock,
         Answer, Throw, Go, Inv, TypeOK
<1>3. a \in effects => pc'[a] \notin Undecided
  <2>1. CASE Reply(a)
    BY <2>1 DEF Reply, Go, Inv, TypeOK, Undecided
  <2>2. CASE ~Reply(a)
    BY <2>2 DEF Begin, ReadPrior, TakeLock, Catch, PerformFails, Deadlock,
                HistoryInv, Undecided
  <2> QED BY <2>1, <2>2
<1>4. \A b \in effects : pc'[b] \notin Undecided
  BY <1>2, <1>3 DEF HistoryInv
<1> QED BY <1>1, <1>4, HistoryKept

LEMMA HistoryInvariant == Spec => []HistoryInv
<1>1. Init => HistoryInv
  <2> SUFFICES ASSUME Init PROVE HistoryInv
    OBVIOUS
  <2>1. effects = {} /\ row.version = 1 /\ row.unapplied = 2
    BY DEF Init
  <2>2. {a \in effects : IsTransition(a)} = {}
        /\ {a \in effects : request[a].action = "allocate_advance"} = {}
    BY <2>1
  <2>3. {e.by : e \in events} \ {Nobody} = {}
    BY DEF Init, LegacyEvents
  <2> QED BY <2>1, <2>2, <2>3, FS_EmptySet DEF HistoryInv, RowIsItsHistory
<1>2. Inv /\ HistoryInv /\ [Next]_vars => HistoryInv'
  <2> SUFFICES ASSUME Inv, HistoryInv, [Next]_vars PROVE HistoryInv'
    OBVIOUS
  <2>1. CASE Crash
    BY <2>1, HistoryKept DEF Crash, Inv, TypeOK, HistoryInv, Undecided
  <2>2. CASE UNCHANGED vars
    BY <2>2, HistoryKept DEF vars, HistoryInv
  <2> QED BY <2>1, <2>2, CommitKeepsHistory, OthersKeepHistory DEF Next, Progress
<1> QED BY <1>1, <1>2, Invariance, PTL DEF Spec

\* The version of the document counts the transitions that took effect, what
\* is left of its advance the applications, and the events name exactly the
\* attempts that took effect.
THEOREM RowTellsItsHistory == Spec => []RowIsItsHistory
<1>1. HistoryInv => RowIsItsHistory
  BY DEF HistoryInv
<1> QED BY <1>1, HistoryInvariant, PTL

-----------------------------------------------------------------------------
(* Answers.                                                                 *)

\* The second look of the catch is what keeps a keyed transition from
\* refusing what already took effect.
THEOREM NeverRefusedAfterEffect == Spec => NoErrorAfterEffect
<1> DEFINE Honest == \A a \in Attempts :
             /\ Keyed(a) /\ ~IsCreate(a)
             /\ reply[a] = "none" /\ reply'[a] = "refused"
             => Prior(a) = {}
<1>1. Inv /\ [Next]_vars => Honest
  <2> SUFFICES ASSUME Inv, [Next]_vars, NEW a \in Attempts,
                      Keyed(a), ~IsCreate(a),
                      reply[a] = "none", reply'[a] = "refused"
               PROVE  Prior(a) = {}
    OBVIOUS
  <2>1. reply' # reply
    OBVIOUS
  <2>2. PICK b \in Attempts :
          \/ ReadPrior(b) \/ TakeLock(b) \/ Commit(b) \/ Catch(b)
          \/ PerformFails(b) \/ Deadlock(b)
    BY <2>1 DEF Next, Progress, Begin, Reply, Crash, vars
  <2>3. b = a
    BY <2>2 DEF ReadPrior, TakeLock, Commit, Catch, PerformFails, Deadlock,
                Answer, Throw, Inv, TypeOK
  <2>4. CASE Catch(a)
    BY <2>4 DEF Catch, Answer, PriorReply, Inv, TypeOK
  <2>5. CASE ReadPrior(a)
    BY <2>5 DEF ReadPrior, Answer, PriorReply, Inv, TypeOK
  <2>6. CASE TakeLock(a) \/ PerformFails(a) \/ Deadlock(a)
    BY <2>6 DEF TakeLock, PerformFails, Deadlock, Throw
  <2>7. CASE Commit(a)
    BY <2>7 DEF Commit, Throw, Answer, Inv, TypeOK
  <2> QED BY <2>2, <2>3, <2>4, <2>5, <2>6, <2>7
<1>2. (Inv /\ [Next]_vars => Honest) => (Inv /\ [Next]_vars => [Honest]_vars)
  OBVIOUS
<1> QED BY <1>1, <1>2, Invariance, PTL DEF Spec, NoErrorAfterEffect
=============================================================================

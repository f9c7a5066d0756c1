----------------------------- MODULE ExactlyOnce -----------------------------
(***************************************************************************)
(* What an idempotency key promises the client of an order-to-cash         *)
(* endpoint (lib/order-to-cash/events.js, header): however many attempts   *)
(* carry the same scope and key, at most one of them takes effect, a later *)
(* one that means the same is answered from it, and one that means         *)
(* something else is told so.                                              *)
(***************************************************************************)
CONSTANTS Attempts,    \* HTTP requests, retries and duplicates included
          Scopes,      \* document type, document and action
          Keys, NoKey, \* Idempotency-Key headers, or none
          Hashes,      \* payload fingerprints
          NoHash,      \* the fingerprint of a key used before they existed
          Unused       \* nothing took effect yet

VARIABLES asked,       \* what each attempt asks for; never changes
          meaning,     \* payload that took effect under a scope and key
          answer       \* what an attempt was answered

vars == <<asked, meaning, answer>>

Asks == [scope: Scopes, key: Keys \cup {NoKey}, hash: Hashes]
Answers == {"none", "done", "replayed", "reused", "refused", "lost"}
Name(a) == <<asked[a].scope, asked[a].key>>
Keyed(a) == asked[a].key # NoKey

TypeOK ==
  /\ asked \in [Attempts -> Asks]
  /\ meaning \in [Scopes \X Keys -> Hashes \cup {NoHash, Unused}]
  /\ answer \in [Attempts -> Answers]

Init ==
  /\ asked \in [Attempts -> Asks]
  /\ meaning \in [Scopes \X Keys -> {NoHash, Unused}]
  /\ answer = [a \in Attempts |-> "none"]

Answer(a, reply) ==
  /\ answer[a] = "none"
  /\ answer' = [answer EXCEPT ![a] = reply]
  /\ UNCHANGED asked

\* The first attempt takes effect and gives its key a meaning; an attempt
\* without a key takes effect on its own account.
TakeEffect(a) ==
  /\ Answer(a, "done")
  /\ IF Keyed(a)
     THEN /\ meaning[Name(a)] = Unused
          /\ meaning' = [meaning EXCEPT ![Name(a)] = asked[a].hash]
     ELSE UNCHANGED meaning

\* A later attempt with the same meaning is answered from the first.
Replay(a) ==
  /\ Keyed(a) /\ meaning[Name(a)] \in {asked[a].hash, NoHash}
  /\ Answer(a, "replayed")
  /\ UNCHANGED meaning

\* An attempt that means something else is told so.
Reuse(a) ==
  /\ Keyed(a) /\ meaning[Name(a)] \notin {Unused, NoHash, asked[a].hash}
  /\ Answer(a, "reused")
  /\ UNCHANGED meaning

\* An attempt may fail for reasons of its own.
Refuse(a) == Answer(a, "refused") /\ UNCHANGED meaning

\* The server dies before it has answered some attempts.
Lose(lost) ==
  /\ \A a \in lost : answer[a] = "none"
  /\ answer' = [a \in Attempts |-> IF a \in lost THEN "lost" ELSE answer[a]]
  /\ UNCHANGED <<asked, meaning>>

Next ==
  \/ \E a \in Attempts : TakeEffect(a) \/ Replay(a) \/ Reuse(a) \/ Refuse(a)
  \/ \E lost \in SUBSET Attempts : Lose(lost)

Spec == Init /\ [][Next]_vars
=============================================================================

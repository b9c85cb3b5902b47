----------------------------- MODULE KeyedMutex -----------------------------
(***************************************************************************)
(* The per-key mutex of lib/keyed-mutex.ts: a chain of promises per key,   *)
(* whose last link is kept in a map and dropped when nobody waits for it.  *)
(* Calls of runExclusive() are numbered in the order they are made.        *)
(***************************************************************************)
EXTENDS Naturals, Sequences, FiniteSets

CONSTANTS
  Keys,
  MaxCalls   \* bound: calls ever made

ASSUME MaxCallsAssumption == MaxCalls \in Nat

Calls == 1..MaxCalls

VARIABLES
  keyOf,   \* the keys of the calls made so far
  ahead,   \* previousTail of a call: the call it waits for, 0: none
  pc,      \* what has settled of a call
  tails    \* the map: the last call of a key, 0: no entry

vars == <<keyOf, ahead, pc, tails>>

Made == DOMAIN keyOf

\* waiting for previousTail; fn running; run resolved or rejected; tail
\* resolved; the callback that drops the map entry has run
Stages == {"unborn", "waiting", "running", "returned", "thrown", "over",
           "gone"}
Released == {"over", "gone"}
Settled == {"returned", "thrown"} \cup Released

TypeOK ==
  /\ keyOf \in Seq(Keys) /\ Len(keyOf) <= MaxCalls
  /\ ahead \in [Calls -> 0..MaxCalls]
  /\ pc \in [Calls -> Stages]
  /\ tails \in [Keys -> 0..MaxCalls]

Init ==
  /\ keyOf = <<>>
  /\ ahead = [c \in Calls |-> 0]
  /\ pc = [c \in Calls |-> "unborn"]
  /\ tails = [k \in Keys |-> 0]

RunExclusive(k) ==
  LET c == Len(keyOf) + 1 IN
  /\ c <= MaxCalls
  /\ keyOf' = Append(keyOf, k)
  /\ ahead' = [ahead EXCEPT ![c] = tails[k]]
  /\ pc' = [pc EXCEPT ![c] = "waiting"]
  /\ tails' = [tails EXCEPT ![k] = c]

\* Slip: fn is called, not chained.
BeginAtOnce(c) ==
  /\ pc[c] = "waiting"
  /\ pc' = [pc EXCEPT ![c] = "running"]
  /\ UNCHANGED <<keyOf, ahead, tails>>

\* previousTail.then(fn)
Begin(c) ==
  /\ pc[c] = "waiting"
  /\ ahead[c] # 0 => pc[ahead[c]] \in Released
  /\ pc' = [pc EXCEPT ![c] = "running"]
  /\ UNCHANGED <<keyOf, ahead, tails>>

\* fn's promise settles, one way or the other.
Settle(c) ==
  /\ pc[c] = "running"
  /\ \E outcome \in {"returned", "thrown"} : pc' = [pc EXCEPT ![c] = outcome]
  /\ UNCHANGED <<keyOf, ahead, tails>>

\* Slip: run.then(() => undefined), no handler for a rejection.
ResolveTailOnSuccess(c) ==
  /\ pc[c] = "returned"
  /\ pc' = [pc EXCEPT ![c] = "over"]
  /\ UNCHANGED <<keyOf, ahead, tails>>

\* run.then(() => undefined, () => undefined)
ResolveTail(c) ==
  /\ pc[c] \in {"returned", "thrown"}
  /\ pc' = [pc EXCEPT ![c] = "over"]
  /\ UNCHANGED <<keyOf, ahead, tails>>

\* Slip: dropped whoever is the last by now.
DropTailAlways(c) ==
  /\ pc[c] = "over"
  /\ pc' = [pc EXCEPT ![c] = "gone"]
  /\ tails' = [tails EXCEPT ![keyOf[c]] = 0]
  /\ UNCHANGED <<keyOf, ahead>>

\* Slip: compared with the tail that was there before.
DropTailBefore(c) ==
  /\ pc[c] = "over"
  /\ pc' = [pc EXCEPT ![c] = "gone"]
  /\ tails' = [tails EXCEPT ![keyOf[c]] = IF @ = ahead[c] THEN 0 ELSE @]
  /\ UNCHANGED <<keyOf, ahead>>

\* Dropped only while it is still the last.
DropTail(c) ==
  /\ pc[c] = "over"
  /\ pc' = [pc EXCEPT ![c] = "gone"]
  /\ tails' = [tails EXCEPT ![keyOf[c]] = IF @ = c THEN 0 ELSE @]
  /\ UNCHANGED <<keyOf, ahead>>

Step(c) == Begin(c) \/ Settle(c) \/ ResolveTail(c) \/ DropTail(c)

Next == (\E k \in Keys : RunExclusive(k)) \/ (\E c \in Made : Step(c))

Spec == Init /\ [][Next]_vars

\* The event loop runs every microtask, and the callbacks (database calls
\* with a timeout) settle.
FairSpec == Spec /\ \A c \in Calls : WF_vars(c \in Made /\ Step(c))

-----------------------------------------------------------------------------
(* Properties *)

\* Callbacks of one key run one at a time, in call order: when one has begun,
\* those of all earlier calls with that key have settled.
InCallOrder ==
  \A b, c \in Made :
    b < c /\ keyOf[b] = keyOf[c] /\ pc[c] # "waiting" => pc[b] \in Settled

OneAtATime ==
  \A b, c \in Made :
    keyOf[b] = keyOf[c] /\ pc[b] = "running" /\ pc[c] = "running" => b = c

\* The calls of a key that have not settled.
Pending(k) == {c \in Made : keyOf[c] = k /\ pc[c] \in {"waiting", "running"}}

\* Calls in call order: the i-th is the one with i - 1 before it.
Place(S, c) == Cardinality({b \in S : b <= c})
InOrder(S) ==
  [i \in 1..Cardinality(S) |-> CHOOSE c \in S : Place(S, c) = i]

\* The abstract view: who waits for or holds a key, and whose callback runs.
line == [k \in Keys |-> InOrder(Pending(k))]
inside == {c \in Made : pc[c] = "running"}
Lock == INSTANCE KeyLock
  WITH Keys <- Keys, Clients <- Calls, line <- line, inside <- inside

\* The chain of promises is a lock with a first-come, first-served line per
\* key: every call joins the end of its line, only the first of a line runs
\* its callback, and it leaves the line however the callback settles.
IsAKeyLock == Lock!Spec

\* The entry of a key is dropped only when nobody is left to wait for: a call
\* that finds none may begin at once.
DroppedMeansQuiet ==
  \A c \in Made : tails[keyOf[c]] = 0 => pc[c] \in Released

\* One callback that throws never wedges the queue: every call is served.
EveryCallServed ==
  \A c \in Calls : (pc[c] = "waiting") ~> (pc[c] \in Settled)

\* The map does not grow: a key that is no longer used loses its entry.
MapEmpties ==
  \A c \in Calls : (pc[c] = "running") ~> (c \in Made /\ tails[keyOf[c]] = 0)

=============================================================================

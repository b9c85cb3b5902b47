------------------------------- MODULE KeyLock ------------------------------
(***************************************************************************)
(* What a keyed mutex promises: clients line up per key, the first of a    *)
(* line may go inside, and leaves the line when it comes out.              *)
(* lib/keyed-mutex.ts is shown to implement it (KeyedMutex), and the       *)
(* writers of network memberships rely on it (NetworkMemberships).         *)
(***************************************************************************)
EXTENDS Sequences

CONSTANTS Keys, Clients

VARIABLES
  line,    \* the clients of a key, in the order they came
  inside   \* the clients whose callback runs

lock == <<line, inside>>

Init ==
  /\ line = [k \in Keys |-> <<>>]
  /\ inside = {}

InLine(c) == \E k \in Keys : \E i \in DOMAIN line[k] : line[k][i] = c

Join(k, c) ==
  /\ ~ InLine(c)
  /\ line' = [line EXCEPT ![k] = Append(@, c)]
  /\ UNCHANGED inside

Enter(k, c) ==
  /\ line[k] # <<>> /\ Head(line[k]) = c
  /\ c \notin inside
  /\ inside' = inside \cup {c}
  /\ UNCHANGED line

Leave(k, c) ==
  /\ line[k] # <<>> /\ Head(line[k]) = c
  /\ c \in inside
  /\ inside' = inside \ {c}
  /\ line' = [line EXCEPT ![k] = Tail(@)]

Next ==
  \E k \in Keys, c \in Clients : Join(k, c) \/ Enter(k, c) \/ Leave(k, c)

Spec == Init /\ [][Next]_lock

=============================================================================

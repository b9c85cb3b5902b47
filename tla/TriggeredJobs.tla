---------------------------- MODULE TriggeredJobs ---------------------------
(***************************************************************************)
(* What a pool of jobs promises: a trigger is tried Retries + 1 times at    *)
(* most, one try after the other; every try holds one of Cap slots, once;  *)
(* how it ended is told once and for good, after its slot is free; and the *)
(* next try waits until the failure of this one has been told.             *)
(* JobPools is shown to implement it while Docker has one event stream.    *)
(***************************************************************************)
EXTENDS Naturals, FiniteSets

CONSTANTS Triggers, Retries, Cap

Tries == Triggers \X (0..Retries)

VARIABLES
  held,      \* the tries that have a slot
  over,      \* those that gave theirs back
  failed,    \* those whose failure was told
  succeeded  \* those whose success was told

jobs == <<held, over, failed, succeeded>>
told == failed \cup succeeded

Init == held = {} /\ over = {} /\ failed = {} /\ succeeded = {}

Grant(t, n) ==
  /\ <<t, n>> \notin held \cup over
  /\ n > 0 => <<t, n - 1>> \in failed
  /\ Cardinality(held) < Cap
  /\ held' = held \cup {<<t, n>>}
  /\ UNCHANGED <<over, failed, succeeded>>

GiveBack(S) ==
  /\ S \subseteq held
  /\ held' = held \ S
  /\ over' = over \cup S
  /\ UNCHANGED <<failed, succeeded>>

Tell(try) ==
  /\ try \in over \ told
  /\ \/ failed' = failed \cup {try} /\ UNCHANGED succeeded
     \/ succeeded' = succeeded \cup {try} /\ UNCHANGED failed
  /\ UNCHANGED <<held, over>>

Next ==
  \/ \E try \in Tries : Grant(try[1], try[2]) \/ Tell(try)
  \/ \E S \in SUBSET held : GiveBack(S)

Spec == Init /\ [][Next]_jobs

=============================================================================

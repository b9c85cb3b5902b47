--------------------------- MODULE StackOwnership ---------------------------
(***************************************************************************)
(* What the operation lock promises, without saying how: the row of a      *)
(* stack and its containers are changed by one operation at a time, the    *)
(* one that owns the stack, and what such an operation leaves behind is    *)
(* truthful.  StackOperations implements this when it runs only handlers   *)
(* that obey the lock and decide on what they read while holding it.       *)
(***************************************************************************)
EXTENDS Naturals

CONSTANT Procs

VARIABLES
  owner,    \* the set of processes that own the stack: none or one
  status,
  def,
  applied,
  live

content == <<status, def, applied, live>>
vars == <<owner, content>>

\* synced is said of the definition that was applied, and a stack that is
\* gone has left no container.
Truthful ==
  /\ status = "synced" => def = applied
  /\ status = "gone" => live = 0

Init ==
  /\ owner = {}
  /\ status \in {"undeployed", "pending"}
  /\ applied = 0
  /\ live = 0

Take ==
  /\ owner = {}
  /\ \E p \in Procs : owner' = {p}
  /\ UNCHANGED content

\* The owner may write anything truthful; it cannot bring back a deleted row.
Work ==
  /\ owner # {} /\ owner' = owner
  /\ Truthful'
  /\ status = "gone" => status' = "gone"

Drop ==
  /\ owner' = {}
  /\ UNCHANGED content

Next == Take \/ Work \/ Drop

Spec == Init /\ [][Next]_vars

=============================================================================

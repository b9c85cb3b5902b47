----------------------- MODULE StackOperationsProofs -----------------------
(***************************************************************************)
(* Theorems about the operations on a stack, for any number of concurrent  *)
(* handlers and of definitions: no path leaks the lock; a synced or        *)
(* drifted row has been applied; and, for the handlers that obey the lock, *)
(* one operation at a time owns the stack and leaves it truthful, which is *)
(* what StackOwnership says.                                               *)
(***************************************************************************)
EXTENDS StackOperations, TLAPS

USE MaxDefAssumption, KindsAssumption
    DEF NoDef, AllKinds, Rollouts, Applies, Updates, Removals, Rewrites,
        Monitored

Pcs == {"idle", "gate", "plan", "rolling", "replacing", "landing", "settling",
        "recording", "failing", "removing", "retiring", "rewriting", "read",
        "listed", "marking", "compared", "toggling", "closing"}
InsidePcs == {"plan", "rolling", "replacing", "landing", "settling",
              "recording", "failing", "removing", "retiring", "rewriting",
              "marking", "closing"}

\* What a process knows is still good for what it will write: the definition
\* it loaded is one, and what it saw applied is still applied.
Sound(x, a) ==
  /\ x.pc \in {"rolling", "replacing", "landing"} => x.def # NoDef
  /\ x.kind \in {"revert", "restore"} => x.def # NoDef
  /\ x.kind = "revert" => a # NoDef
  /\ x.pc \in {"read", "listed", "marking"} /\ x.def # NoDef => a # NoDef
  /\ x.pc = "marking" => x.def # NoDef
  /\ x.pc = "toggling" => a # NoDef

IInv ==
  /\ TypeOK
  /\ \A p \in Procs : Sound(proc[p], applied)
  /\ MonitoredHasBaseline
  /\ LockHasOperation

\* The variables that are not processes keep to their types.
RestOK ==
  /\ lock \in {"free", "live", "stale"}
  /\ status \in Statuses
  /\ def \in Defs
  /\ applied \in Defs \cup {NoDef}
  /\ deployed \subseteq Defs
  /\ nextDef \in 2..(MaxDef + 1)
  /\ live \in Defs \cup {NoDef}
  /\ up \in BOOLEAN

\* A process that turns from proc[p] into x preserves the invariant when x is
\* sound, and either the lock is free, or p has it, or it had nothing to do
\* with the lock and still has not.
LEMMA ProcStep ==
  ASSUME IInv, NEW p \in Procs, NEW x \in Local,
         proc' = [proc EXCEPT ![p] = x],
         RestOK',
         applied # NoDef => applied' # NoDef,
         Sound(x, applied'),
         MonitoredHasBaseline',
         \/ lock' = "free"
         \/ x.pc \in InsidePcs
         \/ lock' = lock /\ proc[p].pc \notin InsidePcs
  PROVE  IInv'
  <1>1. TypeOK'
    BY DEF IInv, TypeOK, RestOK
  <1>2. proc'[p] = x /\ \A q \in Procs \ {p} : proc'[q] = proc[q]
    BY DEF IInv, TypeOK
  <1>3. \A q \in Procs : Sound(proc'[q], applied')
    BY <1>2 DEF IInv, Sound
  <1>4. LockHasOperation'
    <2>1. CASE x.pc \in InsidePcs
      <3>1. p \in Inside'
        BY <1>2, <2>1 DEF Inside, InsidePcs
      <3> QED BY <3>1 DEF LockHasOperation
    <2>2. CASE x.pc \notin InsidePcs /\ lock' # "free"
      <3>1. lock' = lock /\ proc[p].pc \notin InsidePcs
        BY <2>2
      <3>2. PICK q \in Inside : TRUE
        BY <2>2, <3>1 DEF IInv, LockHasOperation
      <3>3. q \in Inside'
        BY <1>2, <3>1 DEF Inside, InsidePcs
      <3> QED BY <3>3 DEF LockHasOperation
    <2> QED BY <2>1, <2>2 DEF LockHasOperation
  <1> QED BY <1>1, <1>3, <1>4 DEF IInv

\* What is known of a process before its step.
LEMMA Before ==
  ASSUME IInv, NEW p \in Procs
  PROVE  /\ proc[p] \in Local /\ Idle \in Local /\ RestOK
         /\ Sound(proc[p], applied) /\ \A a : Sound(Idle, a)
         /\ Idle.pc \notin InsidePcs
         /\ Verdict(p) \in Monitored
         /\ \A pc \in Pcs : [proc[p] EXCEPT !.pc = pc] \in Local
         /\ status \in Monitored => applied # NoDef
  BY DEF IInv, TypeOK, RestOK, Local, Idle, Statuses, Verdict, Sound, Pcs,
         InsidePcs, MonitoredHasBaseline

\* Goto(p, pc) with pc a stage of p's operation or of its end.
LEMMA GotoStep ==
  ASSUME IInv, NEW p \in Procs, NEW pc \in Pcs, Goto(p, pc),
         RestOK', applied' = applied, MonitoredHasBaseline',
         pc \notin {"rolling", "read", "listed"},
         pc \in {"replacing", "landing", "marking"} => proc[p].def # NoDef,
         pc \in {"marking", "toggling"} => applied # NoDef,
         \/ lock' = "free"
         \/ pc \in InsidePcs
         \/ lock' = lock /\ proc[p].pc \notin InsidePcs
  PROVE  IInv'
  <1> DEFINE x == [proc[p] EXCEPT !.pc = pc]
  <1>1. /\ x \in Local /\ x.pc = pc /\ x.def = proc[p].def
        /\ x.kind = proc[p].kind
    BY Before DEF Local
  <1>2. proc' = [proc EXCEPT ![p] = x]
    BY DEF Goto
  <1>3. Sound(x, applied')
    BY <1>1, Before DEF Sound
  <1> HIDE DEF x
  <1> QED BY <1>1, <1>2, <1>3, ProcStep

\* Finish(p), by a process that is not inside or that releases the lock.
LEMMA FinishStep ==
  ASSUME IInv, NEW p \in Procs, Finish(p),
         RestOK', applied' = applied, MonitoredHasBaseline',
         lock' = "free" \/ (lock' = lock /\ proc[p].pc \notin InsidePcs)
  PROVE  IInv'
  BY Before, ProcStep DEF Finish

\* A rollout writes the definition it loaded, and releases at the end.
LEMMA RolloutStep ==
  ASSUME IInv, NEW p \in Procs, Rollout(p)
  PROVE  IInv'
  <1> USE DEF row, docker, RestOK, MonitoredHasBaseline, At, Exists, Is, Pcs,
          InsidePcs
  <1>1. CASE LoadStack(p)
    <2>0. PICK x : x = [proc[p] EXCEPT !.pc = "rolling", !.def = def]
      OBVIOUS
    <2>1. def \in Defs /\ proc[p] \in Local
      BY Before
    <2>2. /\ x \in Local /\ x.pc = "rolling" /\ x.def = def
          /\ x.kind = proc[p].kind
      BY <2>0, <2>1 DEF Local
    <2>3. proc' = [proc EXCEPT ![p] = x]
      BY <1>1, <2>0 DEF LoadStack
    <2>4. def # NoDef /\ proc[p].kind \notin {"revert", "restore"}
      BY <2>1, <1>1 DEF LoadStack, Defs
    <2>5. Sound(x, applied)
      BY <2>2, <2>4 DEF Sound
    <2> QED BY <1>1, <2>2, <2>3, <2>5, Before, ProcStep DEF LoadStack
  <1>2. CASE SetupFails(p)
    BY <1>2, Before, GotoStep DEF SetupFails
  <1>3. CASE NothingToDo(p) \/ BringUp(p)
    <2>0. PICK x : x = [proc[p] EXCEPT !.pc = "landing", !.ok = TRUE]
      OBVIOUS
    <2>1. proc[p] \in Local
      BY Before
    <2>2. /\ x \in Local /\ x.pc = "landing" /\ x.def = proc[p].def
          /\ x.kind = proc[p].kind /\ proc[p].def \in Defs \cup {NoDef}
      BY <2>0, <2>1 DEF Local
    <2>3. proc' = [proc EXCEPT ![p] = x]
      BY <1>3, <2>0 DEF NothingToDo, BringUp
    <2>4. Sound(x, applied)
      BY <2>2, Before, <1>3 DEF Sound, NothingToDo, BringUp
    <2>5. RestOK' /\ applied' = applied /\ status' = status
      BY <1>3, <2>2, Before DEF NothingToDo, BringUp
    <2> QED BY <2>2, <2>3, <2>4, <2>5, Before, ProcStep
  <1>4. CASE TakeDown(p)
    BY <1>4, Before, GotoStep DEF TakeDown, Sound
  <1>5. CASE ActionFails(p)
    <2>1. PICK pc \in {"landing", "recording"} :
            proc' = [proc EXCEPT ![p].pc = pc, ![p].ok = FALSE]
      BY <1>5 DEF ActionFails
    <2>0. PICK x : x = [proc[p] EXCEPT !.pc = pc, !.ok = FALSE]
      OBVIOUS
    <2>2. proc[p] \in Local
      BY Before
    <2>3. /\ x \in Local /\ x.pc = pc /\ x.def = proc[p].def
          /\ x.kind = proc[p].kind /\ proc[p].def \in Defs \cup {NoDef}
      BY <2>0, <2>2 DEF Local
    <2>4. proc' = [proc EXCEPT ![p] = x]
      BY <2>0, <2>1
    <2>5. Sound(x, applied)
      BY <2>3, Before, <1>5 DEF Sound, ActionFails
    <2> QED BY <1>5, <2>3, <2>4, <2>5, Before, ProcStep DEF ActionFails
  <1>6. CASE Land(p)
    <2>0. PICK x : x = [proc[p] EXCEPT !.pc = "settling"]
      OBVIOUS
    <2>1. proc[p] \in Local
      BY Before
    <2>2. /\ x \in Local /\ x.pc = "settling" /\ x.def = proc[p].def
          /\ x.kind = proc[p].kind /\ proc[p].def \in Defs \cup {NoDef}
      BY <2>0, <2>1 DEF Local
    <2>3. proc' = [proc EXCEPT ![p] = x]
      BY <1>6, <2>0 DEF Land, Goto
    <2>4. proc[p].def \in Defs
      BY <2>2, <1>6, Before DEF Land, Sound
    <2>5. applied' # NoDef
      BY <1>6, <2>4 DEF Land, Defs
    <2>6. RestOK'
      BY <1>6, <2>4, Before DEF Land, Statuses
    <2>7. Sound(x, applied')
      BY <2>2, <2>5, Before DEF Sound
    <2> QED BY <2>2, <2>3, <2>5, <2>6, <2>7, ProcStep
  <1>7. CASE LandFails(p)
    BY <1>7, Before, GotoStep DEF LandFails
  <1>8. CASE Settle(p)
    BY <1>8, Before, GotoStep DEF Settle
  <1>9. CASE MarkErrored(p)
    BY <1>9, Before, GotoStep DEF MarkErrored, SetStatus, Statuses
  <1> QED BY <1>1, <1>2, <1>3, <1>4, <1>5, <1>6, <1>7, <1>8, <1>9 DEF Rollout

\* So do removals and rewrites.  A revert writes synced over a row that has
\* been applied, since it took its definition from there.
LEMMA RemovalStep ==
  ASSUME IInv, NEW p \in Procs, Removal(p)
  PROVE  IInv'
  <1> USE DEF row, docker, RestOK, MonitoredHasBaseline, At, Exists, Is, Pcs,
          InsidePcs
  <1>1. CASE RemoveContainers(p)
    BY <1>1, Before, GotoStep DEF RemoveContainers
  <1>2. CASE Retire(p)
    BY <1>2, Before, GotoStep DEF Retire, SetStatus, Statuses
  <1>3. CASE RemovalFails(p)
    BY <1>3, Before, GotoStep DEF RemovalFails
  <1> QED BY <1>1, <1>2, <1>3 DEF Removal

LEMMA RewriteStep ==
  ASSUME IInv, NEW p \in Procs, Rewrite(p)
  PROVE  IInv'
  <1> USE DEF row, docker, RestOK, MonitoredHasBaseline, At, Exists, Is, Pcs,
          InsidePcs
  <1>1. CASE RewriteDefinition(p)
    <2>1. ASSUME Is(p, {"revert", "restore"})
          PROVE  proc[p].def \in Defs
      <3>1. proc[p] \in Local /\ Sound(proc[p], applied)
        BY Before
      <3>2. proc[p].def \in Defs \cup {NoDef}
        BY <3>1 DEF Local
      <3>3. proc[p].def # NoDef
        BY <2>1, <3>1 DEF Sound
      <3> QED BY <3>2, <3>3
    <2>2. def' \in Defs /\ nextDef' \in 2..(MaxDef + 1)
      <3>1. nextDef \in 2..(MaxDef + 1)
        BY Before
      <3> QED BY <1>1, <2>1, <3>1 DEF RewriteDefinition, Defs
    <2>3. status' = "synced" => applied # NoDef
      BY <1>1, Before DEF RewriteDefinition, Sound
    <2>4. status' \in {"synced", "pending"} /\ Goto(p, "closing")
          /\ lock' = lock /\ applied' = applied /\ deployed' = deployed
          /\ live' = live /\ up' = up
      BY <1>1 DEF RewriteDefinition
    <2>5. RestOK' /\ MonitoredHasBaseline'
      BY <2>2, <2>3, <2>4, Before DEF Statuses
    <2>6. "closing" \in Pcs /\ "closing" \in InsidePcs
      OBVIOUS
    <2> HIDE DEF RestOK, MonitoredHasBaseline, Pcs, InsidePcs
    <2> QED BY <2>4, <2>5, <2>6, GotoStep
  <1>2. CASE RewriteFails(p)
    BY <1>2, Before, GotoStep DEF RewriteFails
  <1> QED BY <1>1, <1>2 DEF Rewrite

\* Only a process that is inside closes, and it leaves the lock free.
LEMMA CloseStep ==
  ASSUME IInv, NEW p \in Procs, CheckMark(p) \/ Close(p)
  PROVE  IInv'
  <1> USE DEF row, docker, RestOK, MonitoredHasBaseline, At, Exists, Is, Pcs,
          InsidePcs
  <1>1. CASE CheckMark(p)
    <2>1. applied # NoDef
      BY <1>1, Before DEF CheckMark, Sound
    <2> QED BY <1>1, <2>1, Before, GotoStep DEF CheckMark, SetStatus, Statuses
  <1>2. CASE Close(p)
    BY <1>2, Before, FinishStep DEF Close, Release
  <1> QED BY <1>1, <1>2

\* Start(p, kind, local): the handler, check or recreate p becomes.
LEMMA StartStep ==
  ASSUME IInv, NEW p \in Procs, NEW kind, NEW local \in Local,
         Start(p, kind, local), local.pc \in {"gate", "plan", "read", "compared"},
         RestOK', applied' = applied, MonitoredHasBaseline',
         kind \in {"revert", "restore"} => local.def # NoDef,
         kind = "revert" => applied # NoDef,
         local.pc = "read" /\ local.def # NoDef => applied # NoDef,
         lock' \in {"free", lock} \/ local.pc = "plan"
  PROVE  IInv'
  <1>0. PICK x : x = [local EXCEPT !.kind = kind]
    OBVIOUS
  <1>1. kind \in AllKinds /\ proc[p].pc = "idle"
        /\ proc' = [proc EXCEPT ![p] = x]
    BY <1>0 DEF Start, At
  <1>2. x \in Local /\ x.pc = local.pc /\ x.def = local.def /\ x.kind = kind
    BY <1>0, <1>1 DEF Local
  <1>3. Sound(x, applied')
    BY <1>2 DEF Sound
  <1>4. proc[p].pc \notin InsidePcs /\ "plan" \in InsidePcs
    BY <1>1 DEF InsidePcs
  <1> QED BY <1>1, <1>2, <1>3, <1>4, ProcStep

\* The record with which a handler starts, at stage pc ...
LEMMA Opened ==
  ASSUME NEW pc \in {"gate", "plan"}
  PROVE  [Idle EXCEPT !.pc = pc] \in Local /\ [Idle EXCEPT !.pc = pc].pc = pc
  <1>1. Idle \in Local
    BY DEF Idle, Local
  <1>2. pc \in Pcs
    BY DEF Pcs
  <1> HIDE DEF AllKinds, Rollouts, Applies, Updates, Removals, Rewrites,
               Monitored, NoDef
  <1>3. Local = [kind : AllKinds \cup {"none"}, pc : Pcs,
                 def : Defs \cup {NoDef}, status : Statuses \cup {"none"},
                 ok : BOOLEAN]
    BY DEF Local, Pcs
  <1> QED BY <1>1, <1>2, <1>3

\* ... with the definition it has read ...
LEMMA OpenedWith ==
  ASSUME NEW d \in Defs \cup {NoDef}
  PROVE  /\ [Idle EXCEPT !.pc = "gate", !.def = d] \in Local
         /\ [Idle EXCEPT !.pc = "gate", !.def = d].pc = "gate"
         /\ [Idle EXCEPT !.pc = "gate", !.def = d].def = d
  <1>1. Idle \in Local
    BY DEF Idle, Local
  <1>2. "gate" \in Pcs
    BY DEF Pcs
  <1> HIDE DEF AllKinds, Rollouts, Applies, Updates, Removals, Rewrites,
               Monitored, NoDef
  <1>3. Local = [kind : AllKinds \cup {"none"}, pc : Pcs,
                 def : Defs \cup {NoDef}, status : Statuses \cup {"none"},
                 ok : BOOLEAN]
    BY DEF Local, Pcs
  <1> QED BY <1>1, <1>2, <1>3

\* ... with what the monitor has read ...
LEMMA OpenedReading ==
  ASSUME NEW d \in Defs \cup {NoDef}, NEW s \in Statuses
  PROVE  /\ [Idle EXCEPT !.pc = "read", !.status = s, !.def = d] \in Local
         /\ [Idle EXCEPT !.pc = "read", !.status = s, !.def = d].pc = "read"
  <1>1. Idle \in Local
    BY DEF Idle, Local
  <1>2. "read" \in Pcs
    BY DEF Pcs
  <1> HIDE DEF AllKinds, Rollouts, Applies, Updates, Removals, Rewrites,
               Monitored, NoDef
  <1>3. Local = [kind : AllKinds \cup {"none"}, pc : Pcs,
                 def : Defs \cup {NoDef}, status : Statuses \cup {"none"},
                 ok : BOOLEAN]
    BY DEF Local, Pcs
  <1> QED BY <1>1, <1>2, <1>3

\* ... or with what GET plan has found.
LEMMA OpenedComparing ==
  ASSUME NEW b \in BOOLEAN
  PROVE  /\ [Idle EXCEPT !.pc = "compared", !.ok = b] \in Local
         /\ [Idle EXCEPT !.pc = "compared", !.ok = b].pc = "compared"
  <1>1. Idle \in Local
    BY DEF Idle, Local
  <1>2. "compared" \in Pcs
    BY DEF Pcs
  <1> HIDE DEF AllKinds, Rollouts, Applies, Updates, Removals, Rewrites,
               Monitored, NoDef
  <1>3. Local = [kind : AllKinds \cup {"none"}, pc : Pcs,
                 def : Defs \cup {NoDef}, status : Statuses \cup {"none"},
                 ok : BOOLEAN]
    BY DEF Local, Pcs
  <1> QED BY <1>1, <1>2, <1>3

\* Requests: a handler that starts leaves the row alone and at most finds the
\* lock free, or takes it.
LEMMA RequestStep ==
  ASSUME IInv, NEW p \in Procs,
         \/ RolloutRequest(p) \/ RekeyApply(p) \/ HealStart(p)
         \/ FindStack(p) \/ EditRequest(p) \/ DeleteRequest(p)
         \/ CheckRead(p) \/ PlanCompare(p)
  PROVE  IInv'
  <1> USE DEF row, docker, RestOK, MonitoredHasBaseline, Exists
  <1>1. CASE RolloutRequest(p)
    <2>1. PICK x : x = [Idle EXCEPT !.pc = "gate"]
      OBVIOUS
    <2>2. x \in Local /\ x.pc = "gate"
      BY <2>1, Opened
    <2>3. \E kind \in {"apply", "update"} : Start(p, kind, x)
      BY <1>1, <2>1 DEF RolloutRequest
    <2> QED BY <1>1, <2>2, <2>3, Before, StartStep DEF RolloutRequest, FoundFree
  <1>2. CASE RekeyApply(p)
    <2>1. PICK x : x = [Idle EXCEPT !.pc = "plan"]
      OBVIOUS
    <2>2. x \in Local /\ x.pc = "plan"
      BY <2>1, Opened
    <2>3. Start(p, "rekey", x)
      BY <1>2, <2>1 DEF RekeyApply
    <2> QED BY <1>2, <2>2, <2>3, Before, StartStep DEF RekeyApply, FoundFree
  <1>3. CASE HealStart(p)
    <2>1. PICK x : x = [Idle EXCEPT !.pc = "plan"]
      OBVIOUS
    <2>2. x \in Local /\ x.pc = "plan"
      BY <2>1, Opened
    <2>3. Start(p, "heal", x)
      BY <1>3, <2>1 DEF HealStart
    <2> QED BY <1>3, <2>2, <2>3, Before, StartStep DEF HealStart, Acquire
  <1>4. CASE FindStack(p)
    <2> DEFINE Gate(d) == [Idle EXCEPT !.pc = "gate", !.def = d]
    <2>1. UNCHANGED <<lock, row, docker>>
      BY <1>4 DEF FindStack
    <2>2. CASE \E kind \in Removals \cup {"upgrade"} :
                 Start(p, kind, [Idle EXCEPT !.pc = "gate"])
      <3>1. PICK x : x = [Idle EXCEPT !.pc = "gate"]
        OBVIOUS
      <3>2. x \in Local /\ x.pc = "gate"
        BY <3>1, Opened
      <3>3. \E kind \in Removals \cup {"upgrade"} : Start(p, kind, x)
        BY <2>2, <3>1
      <3> QED BY <2>1, <3>2, <3>3, Before, StartStep
    <2>3. ASSUME NEW d \in Defs, NEW kind \in {"revert", "restore"},
                 Start(p, kind, Gate(d)), kind = "revert" => applied # NoDef
          PROVE  IInv'
      <3>1. PICK x : x = Gate(d)
        OBVIOUS
      <3>2. x \in Local /\ x.pc = "gate" /\ x.def = d
        BY <3>1, OpenedWith
      <3>3. Start(p, kind, x) /\ d # NoDef
        BY <2>3, <3>1 DEF Defs
      <3> QED BY <2>1, <2>3, <3>2, <3>3, Before, StartStep
    <2>4. applied \in Defs \cup {NoDef} /\ \A d \in deployed : d \in Defs
      BY Before
    <2> QED BY <1>4, <2>2, <2>3, <2>4 DEF FindStack
  <1>5. CASE EditRequest(p)
    <2>1. PICK x : x = [Idle EXCEPT !.pc = "gate"]
      OBVIOUS
    <2>2. x \in Local /\ x.pc = "gate"
      BY <2>1, Opened
    <2>3. Start(p, "edit", x)
      BY <1>5, <2>1 DEF EditRequest
    <2> QED BY <1>5, <2>2, <2>3, Before, StartStep DEF EditRequest, FoundFree
  <1>6. CASE DeleteRequest(p)
    <2>1. PICK x : x = [Idle EXCEPT !.pc = "gate"]
      OBVIOUS
    <2>2. x \in Local /\ x.pc = "gate"
      BY <2>1, Opened
    <2>3. Start(p, "delete", x)
      BY <1>6, <2>1 DEF DeleteRequest
    <2> QED BY <1>6, <2>2, <2>3, Before, StartStep DEF DeleteRequest
  <1>7. CASE CheckRead(p)
    <2>1. PICK x : x = [Idle EXCEPT !.pc = "read", !.status = status,
                                    !.def = applied]
      OBVIOUS
    <2>2. x \in Local /\ x.pc = "read"
      <3>1. status \in Statuses /\ applied \in Defs \cup {NoDef}
        BY Before
      <3> QED BY <2>1, <3>1, OpenedReading
    <2>3. Start(p, "check", x) /\ status \in Monitored
      BY <1>7, <2>1 DEF CheckRead
    <2> QED BY <1>7, <2>2, <2>3, Before, StartStep DEF CheckRead
  <1>8. CASE PlanCompare(p)
    <2>0. PICK b \in BOOLEAN : b = (live = def)
      OBVIOUS
    <2>1. PICK x : x = [Idle EXCEPT !.pc = "compared", !.ok = b]
      OBVIOUS
    <2>2. x \in Local /\ x.pc = "compared"
      BY <2>1, OpenedComparing
    <2>3. Start(p, "plan", x)
      BY <1>8, <2>0, <2>1 DEF PlanCompare
    <2> QED BY <1>8, <2>2, <2>3, Before, StartStep DEF PlanCompare
  <1> QED BY <1>1, <1>2, <1>3, <1>4, <1>5, <1>6, <1>7, <1>8

\* The rest of a handler that takes the lock late or not at all.
LEMMA AdmissionStep ==
  ASSUME IInv, NEW p \in Procs, Admission(p)
  PROVE  IInv'
  <1> USE DEF row, docker, RestOK, MonitoredHasBaseline, At, Exists, Is, Pcs,
          InsidePcs
  <1>1. CASE RolloutRefuse(p) \/ Conflict(p) \/ EditRefuse(p)
    BY <1>1, Before, FinishStep DEF RolloutRefuse, Conflict, EditRefuse
  <1>2. CASE RolloutAccept(p)
    BY <1>2, Before, GotoStep DEF RolloutAccept, AcquireUnchecked
  <1>3. CASE LockStack(p)
    BY <1>3, Before, GotoStep DEF LockStack, Acquire
  <1>4. CASE EditWrite(p)
    <2>1. nextDef \in 1..MaxDef /\ nextDef + 1 \in 2..(MaxDef + 1)
      <3>1. nextDef \in 2..(MaxDef + 1) /\ nextDef <= MaxDef
        BY <1>4, Before DEF EditWrite
      <3> QED BY <3>1
    <2>2. RestOK'
      <3>1. RestOK
        BY Before
      <3>2. def' \in Defs /\ nextDef' \in 2..(MaxDef + 1)
        BY <1>4, <2>1 DEF EditWrite, Defs
      <3>3. status' \in Statuses
        BY <1>4 DEF EditWrite, Statuses
      <3> QED BY <1>4, <3>1, <3>2, <3>3 DEF EditWrite
    <2> QED BY <1>4, <2>2, Before, FinishStep DEF EditWrite
  <1>5. CASE DeleteRow(p)
    BY <1>5, Before, FinishStep DEF DeleteRow, Statuses
  <1>6. CASE CheckList(p)
    <2>0. PICK b \in BOOLEAN : b = (live = proc[p].def /\ up)
      OBVIOUS
    <2>1. PICK x : x = [proc[p] EXCEPT !.pc = "listed", !.ok = b]
      OBVIOUS
    <2>2. /\ x \in Local /\ x.pc = "listed" /\ x.def = proc[p].def
          /\ x.kind = proc[p].kind
      <3>1. proc[p] \in Local
        BY Before
      <3> QED BY <2>1, <3>1 DEF Local
    <2>3. proc' = [proc EXCEPT ![p] = x]
      BY <1>6, <2>0, <2>1 DEF CheckList
    <2>4. Sound(x, applied)
      BY <1>6, <2>2, Before DEF Sound, CheckList
    <2> QED BY <1>6, <2>2, <2>3, <2>4, Before, ProcStep DEF CheckList
  <1>7. CASE CheckSkip(p)
    BY <1>7, Before, FinishStep DEF CheckSkip, FoundFree
  <1>8. CASE CheckLock(p)
    <2>1. applied # NoDef
      BY <1>8, Before DEF CheckLock, Sound
    <2> QED BY <1>8, <2>1, Before, GotoStep DEF CheckLock, Acquire
  <1>9. CASE PlanRead(p)
    BY <1>9, Before, GotoStep, FinishStep DEF PlanRead
  <1>10. CASE PlanToggle(p)
    <2>1. applied # NoDef
      BY <1>10, Before DEF PlanToggle, Sound
    <2> QED BY <1>10, <2>1, Before, FinishStep DEF PlanToggle, SetStatus, Statuses
  <1> QED BY <1>1, <1>2, <1>3, <1>4, <1>5, <1>6, <1>7, <1>8, <1>9, <1>10,
             RequestStep DEF Admission

\* The world outside, and the restart that drops the lock with its holders.
LEMMA EnvironmentStep ==
  ASSUME IInv, Environment \/ UNCHANGED vars
  PROVE  IInv'
  <1> USE DEF row, docker, IInv, TypeOK, MonitoredHasBaseline, LockHasOperation,
          Inside
  <1>1. CASE ContainersDie
    BY <1>1 DEF ContainersDie
  <1>2. CASE ContainersRecover
    BY <1>2 DEF ContainersRecover
  <1>3. CASE LockExpires
    BY <1>3 DEF LockExpires
  <1>4. CASE ServerRestart
    <2>1. Idle \in Local /\ Sound(Idle, applied)
      BY DEF Idle, Local, Sound
    <2> QED BY <1>4, <2>1 DEF ServerRestart
  <1>5. CASE UNCHANGED vars
    BY <1>5 DEF vars
  <1> QED BY <1>1, <1>2, <1>3, <1>4, <1>5 DEF Environment

LEMMA InitHolds == Init => IInv
  <1> SUFFICES ASSUME Init PROVE IInv
    OBVIOUS
  <1>1. Idle \in Local /\ Sound(Idle, applied)
    BY DEF Idle, Local, Sound
  <1>2. TypeOK
    <2>1. 1 \in Defs /\ 2 \in 2..(MaxDef + 1)
      BY DEF Defs
    <2>2. status \in Statuses
      BY DEF Init, Statuses
    <2> QED BY <1>1, <2>1, <2>2 DEF Init, TypeOK
  <1>3. \A p \in Procs : Sound(proc[p], applied)
    BY <1>1 DEF Init
  <1> QED BY <1>2, <1>3 DEF Init, IInv, MonitoredHasBaseline, LockHasOperation

THEOREM Inductive == Spec => []IInv
  <1>1. ASSUME IInv, [Next]_vars PROVE IInv'
    <2>1. ASSUME NEW p \in Procs, Progress(p) PROVE IInv'
      BY <1>1, <2>1, RolloutStep, RemovalStep, RewriteStep, CloseStep
         DEF Progress
    <2>2. ASSUME Environment \/ UNCHANGED vars PROVE IInv'
      BY <1>1, <2>2, EnvironmentStep
    <2>3. ASSUME NEW p \in Procs, Admission(p) PROVE IInv'
      BY <1>1, <2>3, AdmissionStep
    <2> QED BY <1>1, <2>1, <2>2, <2>3 DEF Next
  <1> QED BY <1>1, InitHolds, PTL DEF Spec

\* The state is what the declarations say, whatever operations meet.
THEOREM TypeCorrect == Spec => []TypeOK
  BY Inductive, PTL DEF IInv

\* No path leaks the operation lock: an entry in inFlight always has an
\* operation that has not reached its finally (operation-lock.ts release).
THEOREM LockNeverLeaks == Spec => []LockHasOperation
  BY Inductive, PTL DEF IInv

\* A row the monitor or the update route works on has been applied.
THEOREM Baseline == Spec => []MonitoredHasBaseline
  BY Inductive, PTL DEF IInv

-----------------------------------------------------------------------------
(* One operation at a time, for the handlers that obey the lock *)

\* The routes that take the lock unchecked, or not at all, do not run, and no
\* operation outlives the lock.
Obeyed == Kinds \cap {"apply", "update", "rekey"} = {} /\ ~LockMayExpire

\* Whoever is inside holds a live lock, and is alone.
Exclusive ==
  /\ \A q \in Procs : proc[q].kind \in Kinds \cup {"none"}
  /\ lock # "stale"
  /\ Inside # {} => lock = "live"
  /\ OneOperation

\* Four ways a step of p keeps that: it stays where it was and leaves the lock
\* alone; it enters with the lock it found free; it prunes a free lock; or it
\* leaves and releases.
LEMMA OwnerStep ==
  ASSUME Exclusive, NEW p \in Procs,
         \A q \in Procs \ {p} : proc'[q] = proc[q],
         proc'[p].kind \in Kinds \cup {"none"},
         \/ /\ lock' = lock
            /\ proc[p].pc \in InsidePcs <=> proc'[p].pc \in InsidePcs
         \/ lock # "live" /\ lock' = "live" /\ proc'[p].pc \in InsidePcs
         \/ lock # "live" /\ lock' = "free" /\ proc'[p].pc \notin InsidePcs
         \/ /\ proc[p].pc \in InsidePcs /\ proc'[p].pc \notin InsidePcs
            /\ lock' = "free"
  PROVE  Exclusive'
  <1>1. \A q \in Procs \ {p} : q \in Inside' <=> q \in Inside
    BY DEF Inside
  <1>2. /\ p \in Inside <=> proc[p].pc \in InsidePcs
        /\ p \in Inside' <=> proc'[p].pc \in InsidePcs
        /\ Inside \subseteq Procs /\ Inside' \subseteq Procs
    BY DEF Inside, InsidePcs
  <1>3. (\A q \in Procs : proc[q].kind \in Kinds \cup {"none"})'
    BY DEF Exclusive
  <1> HIDE DEF InsidePcs
  <1> QED BY <1>1, <1>2, <1>3 DEF Exclusive, OneOperation

\* What Goto, Finish and Start do to the processes.
LEMMA Moves ==
  ASSUME TypeOK, NEW p \in Procs, NEW pc, NEW kind
  PROVE  /\ Goto(p, pc) =>
              /\ \A q \in Procs \ {p} : proc'[q] = proc[q]
              /\ proc'[p].kind = proc[p].kind /\ proc'[p].pc = pc
         /\ Finish(p) =>
              /\ \A q \in Procs \ {p} : proc'[q] = proc[q]
              /\ proc'[p].kind = "none" /\ proc'[p].pc = "idle"
  BY DEF TypeOK, Goto, Finish, Local, Idle

\* A step of an operation that is inside stays inside, or is Close.
LEMMA ProgressOwned ==
  ASSUME TypeOK, Exclusive, NEW p \in Procs, Progress(p)
  PROVE  Exclusive'
  <1> USE DEF At, Is, InsidePcs
  <1>0. proc[p].kind \in Kinds \cup {"none"}
    BY DEF Exclusive
  <1>1. CASE Rollout(p) \/ Removal(p) \/ Rewrite(p) \/ CheckMark(p)
    <2>1. lock' = lock /\ proc[p].pc \in InsidePcs
      BY <1>1 DEF Rollout, Removal, Rewrite, CheckMark, LoadStack, SetupFails,
         NothingToDo, TakeDown, BringUp, ActionFails, Land, LandFails, Settle,
         MarkErrored, RemoveContainers, Retire, RemovalFails,
         RewriteDefinition, RewriteFails
    <2>2. CASE \E pc \in InsidePcs : Goto(p, pc)
      BY <2>1, <2>2, <1>0, Moves, OwnerStep
    <2>3. CASE LoadStack(p) \/ NothingToDo(p) \/ BringUp(p) \/ ActionFails(p)
      <3>1. /\ \A q \in Procs \ {p} : proc'[q] = proc[q]
            /\ proc'[p].kind = proc[p].kind
            /\ proc'[p].pc \in {"rolling", "landing", "recording"}
        BY <2>3 DEF TypeOK, Local, LoadStack, NothingToDo, BringUp, ActionFails
      <3> QED BY <2>1, <3>1, <1>0, OwnerStep
    <2> QED BY <1>1, <2>2, <2>3 DEF Rollout, Removal, Rewrite, CheckMark,
            SetupFails, TakeDown, Land, LandFails, Settle, MarkErrored,
            RemoveContainers, Retire, RemovalFails, RewriteDefinition,
            RewriteFails
  <1>2. CASE Close(p)
    BY <1>2, Moves, OwnerStep DEF Close, Release
  <1> QED BY <1>1, <1>2 DEF Progress

\* A handler that starts is outside, but for the self-heal, which starts with
\* the lock.
LEMMA StartOwned ==
  ASSUME TypeOK, Exclusive, NEW p \in Procs, NEW kind, NEW local \in Local,
         Start(p, kind, local),
         \/ local.pc \notin InsidePcs /\ (lock' = lock \/ FoundFree)
         \/ local.pc \in InsidePcs /\ Acquire
  PROVE  Exclusive'
  <1>1. /\ \A q \in Procs \ {p} : proc'[q] = proc[q]
        /\ proc'[p].kind = kind /\ proc'[p].pc = local.pc
        /\ proc[p].pc = "idle" /\ kind \in Kinds
    BY DEF Start, At, TypeOK, Local
  <1>2. proc[p].pc \notin InsidePcs
    BY <1>1 DEF InsidePcs
  <1> QED BY <1>1, <1>2, OwnerStep DEF FoundFree, Acquire

LEMMA AdmissionOwned ==
  ASSUME Obeyed, TypeOK, Exclusive, NEW p \in Procs, Admission(p)
  PROVE  Exclusive'
  <1> USE DEF At, Is, InsidePcs
  <1>0. /\ proc[p].kind \in Kinds \cup {"none"}
        /\ proc[p].kind \notin {"apply", "update", "rekey"}
    BY DEF Exclusive, Obeyed
  <1>1. ~(RolloutRequest(p) \/ RolloutRefuse(p) \/ RolloutAccept(p)
          \/ RekeyApply(p))
    BY <1>0 DEF Obeyed, RolloutRequest, RolloutRefuse, RolloutAccept,
       RekeyApply, Start
  <1>2. CASE /\ lock' = lock \/ FoundFree
             /\ proc[p].pc \notin InsidePcs
             /\ Finish(p) \/ Goto(p, "toggling")
    BY <1>2, <1>0, Moves, OwnerStep DEF FoundFree
  <1>3. CASE LockStack(p) \/ CheckLock(p)
    BY <1>3, <1>0, Moves, OwnerStep DEF LockStack, CheckLock, Acquire
  <1>4. CASE CheckList(p)
    <2>1. /\ \A q \in Procs \ {p} : proc'[q] = proc[q]
          /\ proc'[p].kind = proc[p].kind /\ proc'[p].pc = "listed"
      BY <1>4 DEF CheckList, TypeOK, Local
    <2> QED BY <1>4, <2>1, <1>0, OwnerStep DEF CheckList
  <1>5. CASE \E kind \in AllKinds, x \in Local :
               /\ Start(p, kind, x)
               /\ \/ x.pc \notin InsidePcs /\ (lock' = lock \/ FoundFree)
                  \/ x.pc \in InsidePcs /\ Acquire
    BY <1>5, StartOwned
  <1>6. CASE HealStart(p)
    <2>1. [Idle EXCEPT !.pc = "plan"] \in Local
          /\ [Idle EXCEPT !.pc = "plan"].pc = "plan"
      BY DEF Idle, Local
    <2>2. Start(p, "heal", [Idle EXCEPT !.pc = "plan"]) /\ Acquire
      BY <1>6 DEF HealStart
    <2> HIDE DEF Idle
    <2> QED BY <2>1, <2>2, <1>5
  <1>7. CASE FindStack(p) \/ EditRequest(p) \/ DeleteRequest(p)
    <2>1. \A d \in Defs \cup {NoDef} :
            /\ [Idle EXCEPT !.pc = "gate"] \in Local
            /\ [Idle EXCEPT !.pc = "gate"].pc = "gate"
            /\ [Idle EXCEPT !.pc = "gate", !.def = d] \in Local
            /\ [Idle EXCEPT !.pc = "gate", !.def = d].pc = "gate"
      BY DEF Idle, Local
    <2>2. applied \in Defs \cup {NoDef} /\ deployed \subseteq Defs
      BY DEF TypeOK
    <2>3. lock' = lock \/ FoundFree
      BY <1>7 DEF FindStack, EditRequest, DeleteRequest
    <2>4. \E kind \in AllKinds, x \in Local :
            Start(p, kind, x) /\ x.pc = "gate"
      BY <1>7, <2>1, <2>2 DEF FindStack, EditRequest, DeleteRequest
    <2> QED BY <2>3, <2>4, <1>5
  <1>8. CASE CheckRead(p)
    <2>1. PICK x : x = [Idle EXCEPT !.pc = "read", !.status = status,
                                    !.def = applied]
      OBVIOUS
    <2>2. x \in Local /\ x.pc = "read"
      BY <2>1, OpenedReading DEF TypeOK
    <2> QED BY <1>5, <1>8, <2>1, <2>2 DEF CheckRead
  <1>9. CASE PlanCompare(p)
    <2>1. PICK b \in BOOLEAN : b = (live = def)
      OBVIOUS
    <2>2. PICK x : x = [Idle EXCEPT !.pc = "compared", !.ok = b]
      OBVIOUS
    <2>3. x \in Local /\ x.pc = "compared"
      BY <2>2, OpenedComparing
    <2> QED BY <1>5, <1>9, <2>1, <2>2, <2>3 DEF PlanCompare
  <1>10. CASE Conflict(p) \/ EditWrite(p) \/ EditRefuse(p) \/ DeleteRow(p)
              \/ CheckSkip(p) \/ PlanRead(p) \/ PlanToggle(p)
    BY <1>10, <1>2 DEF Conflict, EditWrite, EditRefuse, DeleteRow, CheckSkip,
       PlanRead, PlanToggle
  <1> QED BY <1>1, <1>3, <1>4, <1>6, <1>7, <1>8, <1>9, <1>10 DEF Admission

LEMMA EnvironmentOwned ==
  ASSUME Obeyed, Exclusive, Environment \/ UNCHANGED vars
  PROVE  Exclusive'
  <1> USE DEF Exclusive, OneOperation, Inside
  <1>1. CASE ContainersDie \/ ContainersRecover \/ UNCHANGED vars
    BY <1>1 DEF ContainersDie, ContainersRecover, vars
  <1>2. CASE LockExpires
    BY <1>2 DEF LockExpires, Obeyed
  <1>3. CASE ServerRestart
    BY <1>3 DEF ServerRestart, Idle
  <1> QED BY <1>1, <1>2, <1>3 DEF Environment

\* Whoever is inside is alone, as long as the routes obey.
LEMMA Alone == ASSUME Obeyed PROVE Spec => []Exclusive
  <1>1. Init => Exclusive
    BY DEF Init, Exclusive, OneOperation, Inside, Idle
  <1>2. ASSUME TypeOK, Exclusive, [Next]_vars PROVE Exclusive'
    <2>1. ASSUME NEW p \in Procs, Progress(p) PROVE Exclusive'
      BY <1>2, <2>1, ProgressOwned
    <2>2. ASSUME NEW p \in Procs, Admission(p) PROVE Exclusive'
      BY <1>2, <2>2, AdmissionOwned
    <2>3. ASSUME Environment \/ UNCHANGED vars PROVE Exclusive'
      BY <1>2, <2>3, EnvironmentOwned
    <2> QED BY <1>2, <2>1, <2>2, <2>3 DEF Next
  <1> QED BY <1>1, <1>2, TypeCorrect, PTL DEF Spec

\* Among the handlers that obey the lock no two operations of one stack run at
\* once, for any number of them: what operation-lock.ts promises.
THEOREM OneAtATime == ASSUME Obeyed PROVE Spec => []OneOperation
  <1>1. Exclusive => OneOperation
    BY DEF Exclusive
  <1> QED BY <1>1, Alone, PTL

-----------------------------------------------------------------------------
(* What the lock buys: synced is true, and nothing is left running *)

\* The handlers that write on what they read before they held the lock, or
\* without it: an edit, a revert, the monitor, GET plan.
Fresh == Obeyed /\ Kinds \cap {"edit", "revert", "check", "plan"} = {}

\* A DELETE lists the containers long before it deletes the row.
Undeleted == Obeyed /\ "delete" \notin Kinds

\* The stages of the monitor and of GET plan.
WatchPcs == {"read", "listed", "marking", "compared", "toggling"}

\* A rollout rolls out what the row says from its read to its own write, and
\* nobody is about to write a verdict of old.
Current ==
  /\ SyncedMeansApplied
  /\ \A p \in Procs : proc[p].pc \notin WatchPcs
  /\ \A p \in Procs : proc[p].pc \in {"rolling", "replacing", "landing"}
                        => proc[p].def = def

\* A rollout that makes containers has a row, and a destroy that is about to
\* delete the row has removed the containers.
Emptied ==
  /\ NoOrphanContainers
  /\ \A p \in Procs :
       /\ proc[p].pc \in {"rolling", "replacing"} => Exists
       /\ proc[p].pc = "retiring" /\ Is(p, {"destroy"}) => live = NoDef

\* A handler that starts is at its gate, or at the first step of its work.
LEMMA Starts ==
  ASSUME TypeOK, NEW p \in Procs,
         \/ RolloutRequest(p) \/ RekeyApply(p) \/ HealStart(p)
         \/ FindStack(p) \/ EditRequest(p) \/ DeleteRequest(p)
         \/ CheckRead(p) \/ PlanCompare(p)
  PROVE  /\ \A q \in Procs \ {p} : proc'[q] = proc[q]
         /\ proc'[p].pc \in {"gate", "plan", "read", "compared"}
         /\ \/ proc'[p].pc \in {"gate", "plan"}
            \/ CheckRead(p) \/ PlanCompare(p)
         /\ UNCHANGED <<row, docker>>
  <1>1. ASSUME NEW kind, NEW x \in Local, Start(p, kind, x),
               x.pc \in {"gate", "plan", "read", "compared"}
        PROVE  /\ \A q \in Procs \ {p} : proc'[q] = proc[q]
               /\ proc'[p].pc = x.pc
    BY <1>1 DEF Start, TypeOK, Local
  <1>2. \A pc \in {"gate", "plan"} :
          [Idle EXCEPT !.pc = pc] \in Local /\ [Idle EXCEPT !.pc = pc].pc = pc
    BY DEF Idle, Local
  <1>3. \A d \in Defs \cup {NoDef} :
          /\ [Idle EXCEPT !.pc = "gate", !.def = d] \in Local
          /\ [Idle EXCEPT !.pc = "gate", !.def = d].pc = "gate"
    BY DEF Idle, Local
  <1>4. applied \in Defs \cup {NoDef} /\ deployed \subseteq Defs
    BY DEF TypeOK
  <1>5. CASE RolloutRequest(p) \/ RekeyApply(p) \/ HealStart(p)
             \/ EditRequest(p) \/ DeleteRequest(p)
    BY <1>1, <1>2, <1>5 DEF RolloutRequest, RekeyApply, HealStart, EditRequest,
       DeleteRequest
  <1>6. CASE FindStack(p)
    <2>1. \E kind \in AllKinds, x \in Local :
            Start(p, kind, x) /\ x.pc = "gate"
      BY <1>2, <1>3, <1>4, <1>6 DEF FindStack
    <2> QED BY <1>1, <1>6, <2>1 DEF FindStack
  <1>7. CASE CheckRead(p)
    <2>1. PICK x : x = [Idle EXCEPT !.pc = "read", !.status = status,
                                    !.def = applied]
      OBVIOUS
    <2>2. x \in Local /\ x.pc = "read"
      BY <2>1, OpenedReading DEF TypeOK
    <2> QED BY <1>1, <1>7, <2>1, <2>2 DEF CheckRead
  <1>8. CASE PlanCompare(p)
    <2>1. PICK b \in BOOLEAN : b = (live = def)
      OBVIOUS
    <2>2. PICK x : x = [Idle EXCEPT !.pc = "compared", !.ok = b]
      OBVIOUS
    <2>3. x \in Local /\ x.pc = "compared"
      BY <2>2, OpenedComparing
    <2> QED BY <1>1, <1>8, <2>1, <2>2, <2>3 DEF PlanCompare
  <1> QED BY <1>5, <1>6, <1>7, <1>8

\* A handler that is not inside, or is let in by this step, leaves the
\* containers alone, and of the row it changes what its kind allows.
LEMMA AdmissionFrame ==
  ASSUME TypeOK, NEW p \in Procs, Admission(p)
  PROVE  /\ \A q \in Procs \ {p} : proc'[q] = proc[q]
         /\ proc'[p].pc \notin {"rolling", "replacing", "landing", "retiring"}
         /\ \/ proc'[p].pc \notin WatchPcs \/ proc[p].pc \in WatchPcs
            \/ CheckRead(p) \/ PlanCompare(p)
         /\ live' = live /\ applied' = applied
         /\ \/ status' = status /\ def' = def
            \/ Is(p, {"edit"}) /\ Exists /\ status' = "pending"
            \/ Is(p, {"delete"}) /\ status' = "gone" /\ def' = def
            \/ At(p, "toggling") /\ SetStatus(Verdict(p)) /\ def' = def
  <1> USE DEF row, docker, At, Is, WatchPcs
  <1>1. CASE RolloutRefuse(p) \/ Conflict(p) \/ EditRefuse(p) \/ EditWrite(p)
             \/ DeleteRow(p) \/ CheckSkip(p) \/ PlanToggle(p)
    BY <1>1, Moves DEF RolloutRefuse, Conflict, EditRefuse, EditWrite,
       DeleteRow, CheckSkip, PlanToggle
  <1>2. CASE RolloutAccept(p) \/ LockStack(p) \/ CheckLock(p) \/ PlanRead(p)
    BY <1>2, Moves DEF RolloutAccept, LockStack, CheckLock, PlanRead
  <1>3. CASE CheckList(p)
    BY <1>3 DEF CheckList, TypeOK, Local
  <1>4. CASE \/ RolloutRequest(p) \/ RekeyApply(p) \/ HealStart(p)
             \/ FindStack(p) \/ EditRequest(p) \/ DeleteRequest(p)
             \/ CheckRead(p) \/ PlanCompare(p)
    BY <1>4, Starts
  <1> QED BY <1>1, <1>2, <1>3, <1>4 DEF Admission

\* A step of an operation, seen from the row and the containers.
LEMMA ProgressFrame ==
  ASSUME TypeOK, NEW p \in Procs, Progress(p)
  PROVE  /\ \A q \in Procs \ {p} : proc'[q] = proc[q]
         /\ proc[p].pc \in InsidePcs
         /\ proc'[p].pc \notin WatchPcs
  <1> USE DEF At, Is, InsidePcs, WatchPcs
  <1>1. proc[p].pc \in InsidePcs
    BY DEF Progress, Rollout, Removal, Rewrite, CheckMark, LoadStack,
       SetupFails, NothingToDo, TakeDown, BringUp, ActionFails, Land,
       LandFails, Settle, MarkErrored, RemoveContainers, Retire, RemovalFails,
       RewriteDefinition, RewriteFails, Close
  <1>2. CASE \E pc \in InsidePcs \ WatchPcs : Goto(p, pc)
    BY <1>1, <1>2, Moves
  <1>3. CASE LoadStack(p) \/ NothingToDo(p) \/ BringUp(p) \/ ActionFails(p)
    BY <1>1, <1>3 DEF TypeOK, Local, LoadStack, NothingToDo, BringUp,
       ActionFails
  <1>4. CASE Close(p)
    BY <1>1, <1>4, Moves DEF Close
  <1> QED BY <1>2, <1>3, <1>4 DEF Progress, Rollout, Removal, Rewrite,
          SetupFails, TakeDown, Land, LandFails, Settle, MarkErrored,
          RemoveContainers, Retire, RemovalFails, RewriteDefinition,
          RewriteFails, CheckMark

\* An operation alone inside: what it finds of its own it may rely on.
LEMMA OthersOutside ==
  ASSUME Exclusive, NEW p \in Procs, proc[p].pc \in InsidePcs
  PROVE  \A q \in Procs \ {p} : proc[q].pc \notin InsidePcs
  BY DEF Exclusive, OneOperation, Inside, InsidePcs

\* Only a rollout's Land writes synced, and then applied is the definition it
\* read, which nobody could change meanwhile.
LEMMA CurrentProgress ==
  ASSUME Fresh, TypeOK, Exclusive, Current, NEW p \in Procs, Progress(p)
  PROVE  Current'
  <1> USE DEF row, docker, At, Is, Exists, SetStatus
  <1>1. /\ \A q \in Procs \ {p} : proc'[q] = proc[q]
        /\ \A q \in Procs \ {p} : proc[q].pc \notin InsidePcs
        /\ {"rolling", "replacing", "landing"} \subseteq InsidePcs
    BY ProgressFrame, OthersOutside DEF InsidePcs
  <1>2. SUFFICES ASSUME TRUE
                 PROVE  /\ SyncedMeansApplied'
                        /\ proc'[p].pc \in {"rolling", "replacing", "landing"}
                             => proc'[p].def = def'
    BY <1>1, ProgressFrame DEF Current
  <1>3. proc[p].kind # "revert"
    BY DEF Fresh, Exclusive
  <1>4. CASE LoadStack(p) \/ NothingToDo(p) \/ TakeDown(p) \/ BringUp(p)
             \/ ActionFails(p)
    <2>1. /\ status' = status /\ def' = def /\ applied' = applied
          /\ proc'[p].def \in {def, proc[p].def}
          /\ LoadStack(p) => proc'[p].def = def
          /\ ~ LoadStack(p) => proc[p].pc \in {"rolling", "replacing"}
      BY <1>4 DEF TypeOK, Local, LoadStack, NothingToDo, TakeDown, BringUp,
         ActionFails, Goto
    <2> QED BY <1>4, <2>1 DEF Current, SyncedMeansApplied
  <1>5. CASE Land(p)
    BY <1>5, Moves DEF Land, Current, SyncedMeansApplied
  <1>6. CASE SetupFails(p) \/ LandFails(p) \/ Settle(p) \/ MarkErrored(p)
             \/ Removal(p) \/ RewriteFails(p)
    BY <1>6, Moves DEF SetupFails, LandFails, Settle, MarkErrored, Removal,
       RemoveContainers, Retire, RemovalFails, RewriteFails, Current,
       SyncedMeansApplied
  <1>7. CASE RewriteDefinition(p)
    BY <1>7, <1>3, Moves DEF RewriteDefinition, SyncedMeansApplied
  <1>8. ~ CheckMark(p)
    BY DEF CheckMark, Current, WatchPcs
  <1>9. CASE Close(p)
    BY <1>9, Moves DEF Close, Current, SyncedMeansApplied
  <1> QED BY <1>4, <1>5, <1>6, <1>7, <1>8, <1>9 DEF Progress, Rollout, Rewrite

LEMMA CurrentAdmission ==
  ASSUME Fresh, TypeOK, Exclusive, Current, NEW p \in Procs, Admission(p)
  PROVE  Current'
  <1>1. ~ CheckRead(p) /\ ~ PlanCompare(p)
    BY DEF Fresh, CheckRead, PlanCompare, Start
  <1>2. proc[p].kind # "edit" /\ ~ At(p, "toggling")
    BY DEF Fresh, Exclusive, Current, At, WatchPcs
  <1>3. def' = def /\ applied' = applied /\ status' \in {status, "gone"}
    BY <1>2, AdmissionFrame DEF Is
  <1> QED BY <1>1, <1>3, AdmissionFrame DEF Current, SyncedMeansApplied

LEMMA StaysCurrent == ASSUME Fresh PROVE Spec => []Current
  <1>1. Init => Current
    BY DEF Init, Current, SyncedMeansApplied, Idle, WatchPcs
  <1>2. ASSUME TypeOK, Exclusive, Current, [Next]_vars PROVE Current'
    <2>1. ASSUME NEW p \in Procs, Progress(p) PROVE Current'
      BY <1>2, <2>1, CurrentProgress
    <2>2. ASSUME NEW p \in Procs, Admission(p) PROVE Current'
      BY <1>2, <2>2, CurrentAdmission
    <2>3. CASE Environment \/ UNCHANGED vars
      BY <1>2, <2>3 DEF Environment, ContainersDie, ContainersRecover,
         LockExpires, ServerRestart, vars, row, docker, Current,
         SyncedMeansApplied, Idle, WatchPcs
    <2> QED BY <1>2, <2>1, <2>2, <2>3 DEF Next
  <1>3. Obeyed
    BY DEF Fresh
  <1> QED BY <1>1, <1>2, <1>3, Alone, TypeCorrect, PTL DEF Spec

\* synced is never said of a definition that was not rolled out, by the
\* handlers that decide under the lock, however many there are and wherever
\* they fail or the server restarts (stack-reconciler.ts, operation-lock.ts).
THEOREM SyncedIsTrue == ASSUME Fresh PROVE Spec => []SyncedMeansApplied
  <1>1. Current => SyncedMeansApplied
    BY DEF Current
  <1> QED BY <1>1, StaysCurrent, PTL

\* Containers are made only for a stack that has a row, and only destroy
\* deletes it, with the containers gone.
LEMMA EmptiedProgress ==
  ASSUME TypeOK, Exclusive, Emptied, NEW p \in Procs, Progress(p)
  PROVE  Emptied'
  <1> USE DEF row, docker, At, Is, Exists, SetStatus, NoOrphanContainers
  <1>1. /\ \A q \in Procs \ {p} : proc'[q] = proc[q]
        /\ \A q \in Procs \ {p} : proc[q].pc \notin InsidePcs
        /\ {"rolling", "replacing", "retiring"} \subseteq InsidePcs
    BY ProgressFrame, OthersOutside DEF InsidePcs
  <1>2. SUFFICES ASSUME TRUE
                 PROVE  /\ NoOrphanContainers'
                        /\ proc'[p].pc \in {"rolling", "replacing"} => Exists'
                        /\ proc'[p].pc = "retiring" /\ proc'[p].kind = "destroy"
                             => live' = NoDef
    BY <1>1 DEF Emptied
  <1>3. CASE LoadStack(p) \/ NothingToDo(p) \/ TakeDown(p) \/ BringUp(p)
             \/ ActionFails(p)
    <2>1. /\ status' = status /\ Exists
          /\ proc'[p].pc \in {"rolling", "replacing", "landing", "recording"}
      BY <1>3 DEF TypeOK, Local, LoadStack, NothingToDo, TakeDown, BringUp,
         ActionFails, Goto, Emptied
    <2> QED BY <2>1
  <1>4. CASE RemoveContainers(p)
    BY <1>4, Moves DEF RemoveContainers, Emptied
  <1>5. CASE Retire(p)
    BY <1>5, Moves DEF Retire, Emptied
  <1>6. CASE SetupFails(p) \/ Land(p) \/ LandFails(p) \/ Settle(p)
             \/ MarkErrored(p) \/ RemovalFails(p) \/ Rewrite(p) \/ CheckMark(p)
             \/ Close(p)
    BY <1>6, Moves DEF SetupFails, Land, LandFails, Settle, MarkErrored,
       RemovalFails, Rewrite, RewriteDefinition, RewriteFails, CheckMark,
       Verdict, Close, Emptied
  <1> QED BY <1>3, <1>4, <1>5, <1>6 DEF Progress, Rollout, Removal

LEMMA EmptiedAdmission ==
  ASSUME Undeleted, Exclusive, TypeOK, Emptied, NEW p \in Procs, Admission(p)
  PROVE  Emptied'
  <1>1. ~ Is(p, {"delete"})
    BY DEF Undeleted, Exclusive, Is
  <1>2. live' = live /\ (Exists' <=> Exists)
    BY <1>1, AdmissionFrame DEF Exists, SetStatus, Verdict
  <1> QED BY <1>2, AdmissionFrame DEF Emptied, NoOrphanContainers, Exists, Is

LEMMA StaysEmptied == ASSUME Undeleted PROVE Spec => []Emptied
  <1>1. Init => Emptied
    BY DEF Init, Emptied, NoOrphanContainers, Idle, Exists
  <1>2. ASSUME TypeOK, Exclusive, Emptied, [Next]_vars PROVE Emptied'
    <2>1. ASSUME NEW p \in Procs, Progress(p) PROVE Emptied'
      BY <1>2, <2>1, EmptiedProgress
    <2>2. ASSUME NEW p \in Procs, Admission(p) PROVE Emptied'
      BY <1>2, <2>2, EmptiedAdmission
    <2>3. CASE Environment \/ UNCHANGED vars
      BY <1>2, <2>3 DEF Environment, ContainersDie, ContainersRecover,
         LockExpires, ServerRestart, vars, row, docker, Emptied,
         NoOrphanContainers, Idle, Exists, Is
    <2> QED BY <1>2, <2>1, <2>2, <2>3 DEF Next
  <1>3. Obeyed
    BY DEF Undeleted
  <1> QED BY <1>1, <1>2, <1>3, Alone, TypeCorrect, PTL DEF Spec

\* A row is deleted only when its containers are gone, and none is made after
\* that: nothing runs that no row names (stack-destroy-route.ts).
THEOREM NothingOrphaned == ASSUME Undeleted PROVE Spec => []NoOrphanContainers
  <1>1. Emptied => NoOrphanContainers
    BY DEF Emptied
  <1> QED BY <1>1, StaysEmptied, PTL

-----------------------------------------------------------------------------
(* The refinement: being inside is owning the stack *)

\* The owner is the one that is inside.
LEMMA OwnerIsInside ==
  ASSUME OneOperation
  PROVE  owner = Inside
  BY DEF OneOperation, owner

\* An operation works as the owner; its last step gives the stack back.
LEMMA ProgressRefines ==
  ASSUME TypeOK, Exclusive, Exclusive', Current', Emptied',
         NEW p \in Procs, Progress(p)
  PROVE  Ownership!Work \/ Ownership!Drop
  <1> USE DEF row, docker, At, Is, Exists, SetStatus
  <1>1. owner = Inside /\ owner' = Inside'
    BY OwnerIsInside DEF Exclusive, owner, OneOperation, Inside
  <1>2. /\ \A q \in Procs \ {p} : proc[q].pc \notin InsidePcs
        /\ \A q \in Procs \ {p} : proc'[q] = proc[q]
        /\ proc[p].pc \in InsidePcs
    BY ProgressFrame, OthersOutside
  <1>3. Inside = {p} /\ Inside' \subseteq {p}
    BY <1>2 DEF Inside, InsidePcs
  <1>4. CASE Close(p)
    <2>1. proc'[p].pc \notin InsidePcs /\ UNCHANGED <<status, def, applied, live>>
      BY <1>4, Moves DEF Close, InsidePcs
    <2>2. Inside' = {}
      BY <1>3, <2>1 DEF Inside, InsidePcs
    <2> QED BY <1>1, <2>1, <2>2 DEF Ownership!Drop, Ownership!content
  <1>5. CASE ~ Close(p)
    <2>1. proc'[p].pc \in InsidePcs /\ (status = "gone" => status' = "gone")
      <3>1. CASE LoadStack(p) \/ NothingToDo(p) \/ BringUp(p) \/ ActionFails(p)
        BY <3>1 DEF TypeOK, Local, LoadStack, NothingToDo, BringUp,
           ActionFails, InsidePcs
      <3>2. CASE SetupFails(p) \/ TakeDown(p) \/ Land(p) \/ LandFails(p)
                 \/ Settle(p) \/ MarkErrored(p) \/ CheckMark(p)
        BY <3>2, Moves DEF SetupFails, TakeDown, Land, LandFails, Settle,
           MarkErrored, CheckMark, InsidePcs
      <3>3. CASE Removal(p) \/ Rewrite(p)
        BY <3>3, Moves DEF Removal, RemoveContainers, Retire, RemovalFails,
           Rewrite, RewriteDefinition, RewriteFails, InsidePcs
      <3> QED BY <1>5, <3>1, <3>2, <3>3 DEF Progress, Rollout
    <2>2. Inside' = {p}
      BY <1>3, <2>1 DEF Inside, InsidePcs
    <2>3. Ownership!Truthful'
      BY DEF Ownership!Truthful, Current, Emptied, SyncedMeansApplied,
         NoOrphanContainers
    <2> QED BY <1>1, <1>3, <2>1, <2>2, <2>3 DEF Ownership!Work
  <1> QED BY <1>4, <1>5

\* A handler that is let in takes the stack; one that is not changes nothing.
LEMMA AdmissionRefines ==
  ASSUME Fresh, Undeleted, TypeOK, Exclusive, Exclusive', Current,
         NEW p \in Procs, Admission(p)
  PROVE  Ownership!Take \/ UNCHANGED Ownership!vars
  <1>1. owner = Inside /\ owner' = Inside'
    BY OwnerIsInside DEF Exclusive, owner, OneOperation, Inside
  <1>2. UNCHANGED Ownership!content
    <2>1. /\ proc[p].kind \notin {"edit", "delete"} /\ ~ At(p, "toggling")
      BY DEF Fresh, Undeleted, Exclusive, Current, At, WatchPcs
    <2> QED BY <2>1, AdmissionFrame DEF Is, Ownership!content
  <1>3. proc[p].pc \notin InsidePcs
    BY DEF Admission, RolloutRequest, RolloutRefuse, RolloutAccept,
       RekeyApply, HealStart, FindStack, LockStack, Conflict, EditRequest,
       EditWrite, EditRefuse, DeleteRequest, DeleteRow, CheckRead, CheckList,
       CheckSkip, CheckLock, PlanCompare, PlanRead, PlanToggle, Start, At,
       InsidePcs
  <1>4. \A q \in Procs \ {p} : q \in Inside' <=> q \in Inside
    BY AdmissionFrame DEF Inside
  <1>5. p \notin Inside /\ Inside \subseteq Procs /\ Inside' \subseteq Procs
    BY <1>3 DEF Inside, InsidePcs
  <1>6. CASE p \in Inside'
    <2>1. Inside' = {p} /\ Inside = {}
      BY <1>4, <1>5, <1>6 DEF Exclusive, OneOperation
    <2> QED BY <1>1, <1>2, <2>1 DEF Ownership!Take
  <1>7. CASE p \notin Inside'
    <2>1. Inside' = Inside
      BY <1>4, <1>5, <1>7
    <2> QED BY <1>1, <1>2, <2>1 DEF Ownership!vars
  <1> QED BY <1>6, <1>7

\* The world changes neither row nor images; a restart takes the stack from
\* whoever had it.
LEMMA EnvironmentRefines ==
  ASSUME Environment \/ UNCHANGED vars
  PROVE  Ownership!Drop \/ UNCHANGED Ownership!vars
  <1> USE DEF row, docker, Ownership!vars, Ownership!content, Ownership!Drop
  <1>1. CASE ServerRestart
    <2>1. Inside' = {}
      BY <1>1 DEF ServerRestart, Inside, Idle
    <2> QED BY <1>1, <2>1 DEF ServerRestart, owner
  <1>2. CASE ~ ServerRestart
    <2>1. proc' = proc /\ UNCHANGED <<status, def, applied, live>>
      BY <1>2 DEF Environment, ContainersDie, ContainersRecover, LockExpires,
         vars
    <2> QED BY <2>1 DEF owner, Inside
  <1> QED BY <1>1, <1>2

\* The operation lock makes of the handlers that obey it and decide under it
\* an owner at a time, in whose hands alone the row and the containers change,
\* and change truthfully: StackOperations implements StackOwnership.
THEOREM OwnsWhileInside == ASSUME Fresh, Undeleted PROVE Spec => OwnedByOne
  <1>1. Init => Ownership!Init
    BY DEF Init, Ownership!Init, owner, Inside, Idle
  <1>2. ASSUME TypeOK, Exclusive, Current, Exclusive', Current', Emptied',
               [Next]_vars
        PROVE  [Ownership!Next]_(Ownership!vars)
    <2>1. ASSUME NEW p \in Procs, Progress(p)
          PROVE  Ownership!Next
      BY <1>2, <2>1, ProgressRefines DEF Ownership!Next
    <2>2. ASSUME NEW p \in Procs, Admission(p)
          PROVE  [Ownership!Next]_(Ownership!vars)
      BY <1>2, <2>2, AdmissionRefines DEF Ownership!Next
    <2>3. CASE Environment \/ UNCHANGED vars
      BY <2>3, EnvironmentRefines DEF Ownership!Next
    <2> QED BY <1>2, <2>1, <2>2, <2>3 DEF Next
  <1>3. Obeyed
    BY DEF Fresh
  <1> QED BY <1>1, <1>2, <1>3, Alone, StaysCurrent, StaysEmptied, TypeCorrect,
             PTL DEF Spec, OwnedByOne, Ownership!Spec

=============================================================================

-------------------------- MODULE StackOperations --------------------------
(***************************************************************************)
(* The operations on ONE stack, and the in-process operation lock that is  *)
(* meant to keep them apart (services/stacks/operation-lock.ts).           *)
(*                                                                         *)
(* The server is one Node process: code between two awaits is atomic, so   *)
(* an action is the code from one await to the next.  A process p of Procs *)
(* is one HTTP handler with its background half, one status check of the   *)
(* monitor, or one self-heal recreate; when it ends it is idle again and   *)
(* may become any other.  Locks of different stacks never meet, so one     *)
(* stack is enough.                                                        *)
(*                                                                         *)
(* A definition (services, parameters, networks ...) is a number; every    *)
(* edit makes a fresh one.  0 stands for "none".  The version counter,     *)
(* the events sent to the client and the audit log are left out.           *)
(***************************************************************************)
EXTENDS Naturals, FiniteSets

CONSTANTS
  Procs,         \* concurrent handlers and background tasks
  Kinds,         \* the kinds of operation this instance runs
  MaxDef,        \* bound: definitions ever written
  LockMayExpire, \* may an operation outlive the lock's 30 minutes?
  MayRestart     \* may the server process restart?

ASSUME ProcsAssumption == IsFiniteSet(Procs) /\ Procs # {}
ASSUME MaxDefAssumption == MaxDef \in Nat \ {0}
ASSUME FlagsAssumption == LockMayExpire \in BOOLEAN /\ MayRestart \in BOOLEAN

\* apply, and the re-apply the deletion of a git deploy key starts
Applies == {"apply", "rekey"}
\* runs of reconciler.update: the update route and the self-heal supervisor
Updates == {"update", "heal"}
Rollouts == Applies \cup Updates
Removals == {"destroy", "stop"}
Rewrites == {"revert", "restore", "upgrade"}
AllKinds == Rollouts \cup Removals \cup Rewrites
              \cup {"edit", "delete", "check", "plan"}

ASSUME KindsAssumption == Kinds \subseteq AllKinds

Defs == 1..MaxDef
NoDef == 0

Monitored == {"synced", "drifted"}
Statuses == Monitored \cup {"undeployed", "pending", "error", "gone"}

VARIABLES
  lock,     \* inFlight's entry for the stack: "free", "live", "stale"
  status,   \* Stack.status; "gone" once the row is deleted
  def,      \* the definition in the row
  applied,  \* Stack.lastAppliedSnapshot and lastAppliedHashes
  deployed, \* the definitions StackDeployment rows hold a snapshot of
  nextDef,  \* the next fresh definition
  live,     \* the definition the stack's containers carry, NoDef: none
  up,       \* are those containers running?
  proc      \* the processes

row == <<status, def, applied, deployed, nextDef>>
docker == <<live, up>>
vars == <<lock, row, docker, proc>>

\* What a process holds in local variables across an await.
Local == [kind : AllKinds \cup {"none"},
          pc : {"idle", "gate", "plan", "rolling", "replacing", "landing",
                "settling", "recording", "failing", "removing", "retiring",
                "rewriting", "read", "listed", "marking", "compared",
                "toggling", "closing"},
          def : Defs \cup {NoDef},
          status : Statuses \cup {"none"},
          ok : BOOLEAN]

Idle == [kind |-> "none", pc |-> "idle", def |-> NoDef, status |-> "none",
         ok |-> FALSE]

TypeOK ==
  /\ lock \in {"free", "live", "stale"}
  /\ status \in Statuses
  /\ def \in Defs
  /\ applied \in Defs \cup {NoDef}
  /\ deployed \subseteq Defs
  /\ nextDef \in 2..(MaxDef + 1)
  /\ live \in Defs \cup {NoDef}
  /\ up \in BOOLEAN
  /\ proc \in [Procs -> Local]

\* A stack just created from a template or by POST /stacks.
Init ==
  /\ lock = "free"
  /\ status \in {"undeployed", "pending"}
  /\ def = 1
  /\ applied = NoDef
  /\ deployed = {}
  /\ nextDef = 2
  /\ live = NoDef
  /\ up = FALSE
  /\ proc = [p \in Procs |-> Idle]

-----------------------------------------------------------------------------
(* Vocabulary *)

Exists == status # "gone"
Is(p, kinds) == proc[p].kind \in kinds
At(p, pc) == proc[p].pc = pc
Goto(p, pc) == proc' = [proc EXCEPT ![p].pc = pc]
Finish(p) == proc' = [proc EXCEPT ![p] = Idle]
Start(p, kind, local) ==
  /\ kind \in Kinds
  /\ At(p, "idle")
  /\ proc' = [proc EXCEPT ![p] = [local EXCEPT !.kind = kind]]

\* has(): a stale entry is pruned and reported as not held.
FoundFree == lock # "live" /\ lock' = "free"
\* has() and tryAcquire() with no await between them, or tryAcquire() obeyed.
Acquire == lock # "live" /\ lock' = "live"
\* tryAcquire() whose result nobody looks at.
AcquireUnchecked == lock' = "live"
\* release(): deletes the entry, whoever put it there.
Release == lock' = "free"

SetStatus(s) == status' = (IF Exists THEN s ELSE status)

-----------------------------------------------------------------------------
(* Apply, update, self-heal: gate, then plan, roll out, record *)

\* POST apply and POST update look at the lock before their first await; a
\* stack that is gone by then is a 404.
RolloutRequest(p) ==
  /\ Exists
  /\ \E kind \in {"apply", "update"} :
       Start(p, kind, [Idle EXCEPT !.pc = "gate"])
  /\ FoundFree
  /\ UNCHANGED <<row, docker>>

\* 404, parameters or prerequisites not met, wrong status: nothing started.
RolloutRefuse(p) ==
  /\ Is(p, {"apply", "update"}) /\ At(p, "gate")
  /\ Finish(p)
  /\ UNCHANGED <<lock, row, docker>>

\* The row was read and the gates passed, after awaits: now take the lock.
\* Apply awaits its prerequisites after it read the row, which may go meanwhile.
RolloutAccept(p) ==
  /\ Is(p, {"apply", "update"}) /\ At(p, "gate")
  /\ Is(p, {"update"}) => status \in Monitored
  /\ AcquireUnchecked
  /\ Goto(p, "plan")
  /\ UNCHANGED <<row, docker>>

\* Deleting a git deploy key starts an apply when has() is false, and takes
\* no lock for it.
RekeyApply(p) ==
  /\ Start(p, "rekey", [Idle EXCEPT !.pc = "plan"])
  /\ FoundFree
  /\ UNCHANGED <<row, docker>>

\* Slip: the recreate does not look at what tryAcquire() returns.
HealStartAnyway(p) ==
  /\ Start(p, "heal", [Idle EXCEPT !.pc = "plan"])
  /\ AcquireUnchecked
  /\ UNCHANGED <<row, docker>>

HealStart(p) ==
  /\ Start(p, "heal", [Idle EXCEPT !.pc = "plan"])
  /\ Acquire
  /\ UNCHANGED <<row, docker>>

\* The reconciler reads the row it will apply.
LoadStack(p) ==
  /\ Is(p, Rollouts) /\ At(p, "plan")
  /\ Exists
  /\ proc' = [proc EXCEPT ![p].pc = "rolling", ![p].def = def]
  /\ UNCHANGED <<lock, row, docker>>

\* Planning, the Vault phase, the NATS phase or the credential dry run fails,
\* or the row is gone.  The self-heal catch records nothing on the row.
SetupFails(p) ==
  /\ Is(p, Rollouts) /\ At(p, "plan")
  /\ Goto(p, IF Is(p, {"heal"}) THEN "closing" ELSE "failing")
  /\ UNCHANGED <<lock, row, docker>>

\* An apply whose plan has no action left leaves the containers alone.
NothingToDo(p) ==
  /\ At(p, "rolling") /\ Is(p, Applies)
  /\ live = proc[p].def
  /\ proc' = [proc EXCEPT ![p].pc = "landing", ![p].ok = TRUE]
  /\ UNCHANGED <<lock, row, docker>>

\* Old containers are stopped first.
TakeDown(p) ==
  /\ At(p, "rolling")
  /\ up' = FALSE
  /\ Goto(p, "replacing")
  /\ UNCHANGED <<lock, row, live>>

\* Every action succeeded (or the plan had none).
BringUp(p) ==
  /\ At(p, "replacing")
  /\ live' = proc[p].def
  /\ up' = TRUE
  /\ proc' = [proc EXCEPT ![p].pc = "landing", ![p].ok = TRUE]
  /\ UNCHANGED <<lock, row>>

\* An action failed: counted in serviceResults, or thrown out of the loop.
ActionFails(p) ==
  /\ At(p, "replacing")
  /\ live' \in {live, proc[p].def}
  /\ up' = FALSE
  /\ \E pc \in {"landing", "recording"} :
       proc' = [proc EXCEPT ![p].pc = pc, ![p].ok = FALSE]
  /\ UNCHANGED <<lock, row>>

\* The reconciler's own write: status, lastApplied*, and a StackDeployment.
Land(p) ==
  /\ At(p, "landing") /\ Exists
  /\ status' = (IF proc[p].ok THEN "synced" ELSE "error")
  /\ applied' = proc[p].def
  /\ deployed' = deployed \cup {proc[p].def}
  /\ Goto(p, "settling")
  /\ UNCHANGED <<lock, def, nextDef, docker>>

LandFails(p) ==
  /\ At(p, "landing") /\ ~Exists
  /\ Goto(p, "recording")
  /\ UNCHANGED <<lock, row, docker>>

\* HAProxy, monitoring network, input pruning, trigger registries.
Settle(p) ==
  /\ At(p, "settling")
  /\ \/ Goto(p, "closing")
     \/ Goto(p, "recording")
     \/ Is(p, Applies) /\ Goto(p, "failing")
  /\ UNCHANGED <<lock, row, docker>>

\* Slip: the route's catch reports the failure and leaves the row alone.
MarkErroredOnlyByReconciler(p) ==
  /\ \/ /\ At(p, "recording")
        /\ Goto(p, IF Is(p, {"heal"}) THEN "closing" ELSE "failing")
        /\ SetStatus("error")
     \/ At(p, "failing") /\ Goto(p, "closing") /\ UNCHANGED status
  /\ UNCHANGED <<lock, def, applied, deployed, nextDef, docker>>

\* markStackErrored: by the reconciler's catch, then by the route's.
MarkErrored(p) ==
  /\ \/ At(p, "recording")
        /\ Goto(p, IF Is(p, {"heal"}) THEN "closing" ELSE "failing")
     \/ At(p, "failing") /\ Goto(p, "closing")
  /\ SetStatus("error")
  /\ UNCHANGED <<lock, def, applied, deployed, nextDef, docker>>

\* Slip: an operation ends without its finally.
CloseWithoutRelease(p) ==
  /\ At(p, "closing")
  /\ Finish(p)
  /\ UNCHANGED <<lock, row, docker>>

\* finally { stackOperationLock.release(stackId) }
Close(p) ==
  /\ At(p, "closing")
  /\ Release
  /\ Finish(p)
  /\ UNCHANGED <<row, docker>>

-----------------------------------------------------------------------------
(* Destroy, stop, revert-pending, restore, upgrade *)

\* The row is read first; revert and restore take the snapshot they will
\* write from this read, before they have the lock.
FindStack(p) ==
  /\ Exists
  /\ \/ \E kind \in Removals \cup {"upgrade"} :
          Start(p, kind, [Idle EXCEPT !.pc = "gate"])
     \/ /\ applied # NoDef
        /\ Start(p, "revert", [Idle EXCEPT !.pc = "gate", !.def = applied])
     \/ \E d \in deployed :
          Start(p, "restore", [Idle EXCEPT !.pc = "gate", !.def = d])
  /\ UNCHANGED <<lock, row, docker>>

\* Slip: tryAcquire()'s answer is ignored, as by the apply route.
LockStackAnyway(p) ==
  /\ Is(p, Removals \cup Rewrites) /\ At(p, "gate")
  /\ AcquireUnchecked
  /\ Goto(p, IF Is(p, Removals) THEN "removing" ELSE "rewriting")
  /\ UNCHANGED <<row, docker>>

LockStack(p) ==
  /\ Is(p, Removals \cup Rewrites) /\ At(p, "gate")
  /\ Acquire
  /\ Goto(p, IF Is(p, Removals) THEN "removing" ELSE "rewriting")
  /\ UNCHANGED <<row, docker>>

\* 409 STACK_OPERATION_IN_PROGRESS
Conflict(p) ==
  /\ Is(p, Removals \cup Rewrites) /\ At(p, "gate")
  /\ lock = "live"
  /\ Finish(p)
  /\ UNCHANGED <<lock, row, docker>>

\* Slip: destroy goes on when a container cannot be removed, as stop does.
RemoveWhatGoes(p) ==
  /\ At(p, "removing")
  /\ Is(p, {"destroy"}) => Exists
  /\ \/ live' = NoDef /\ up' = FALSE
     \/ UNCHANGED docker
  /\ Goto(p, "retiring")
  /\ UNCHANGED <<lock, row>>

\* Destroy removes every container it listed or throws; stop goes on when a
\* container cannot be removed.
RemoveContainers(p) ==
  /\ At(p, "removing")
  /\ Is(p, {"destroy"}) => Exists
  /\ \/ live' = NoDef /\ up' = FALSE
     \/ Is(p, {"stop"}) /\ UNCHANGED docker
  /\ Goto(p, "retiring")
  /\ UNCHANGED <<lock, row>>

\* The last write: destroy deletes the row, stop marks it undeployed.
Retire(p) ==
  /\ At(p, "retiring")
  /\ SetStatus(IF Is(p, {"destroy"}) THEN "gone" ELSE "undeployed")
  /\ Goto(p, "closing")
  /\ UNCHANGED <<lock, def, applied, deployed, nextDef, docker>>

\* Any other step throws: the catch reports it and writes no status.
RemovalFails(p) ==
  /\ At(p, "removing") \/ At(p, "retiring")
  /\ Goto(p, "closing")
  /\ UNCHANGED <<lock, row, docker>>

\* Slip: restore and upgrade leave the status revert does.
RewriteAsSynced(p) ==
  /\ At(p, "rewriting") /\ Exists
  /\ \/ /\ Is(p, {"revert", "restore"})
        /\ def' = proc[p].def
        /\ UNCHANGED nextDef
     \/ /\ Is(p, {"upgrade"}) /\ nextDef <= MaxDef
        /\ def' = nextDef
        /\ nextDef' = nextDef + 1
  /\ status' = "synced"
  /\ Goto(p, "closing")
  /\ UNCHANGED <<lock, applied, deployed, docker>>

\* One transaction rewrites the definition.
RewriteDefinition(p) ==
  /\ At(p, "rewriting") /\ Exists
  /\ \/ /\ Is(p, {"revert", "restore"})
        /\ def' = proc[p].def
        /\ UNCHANGED nextDef
     \/ /\ Is(p, {"upgrade"}) /\ nextDef <= MaxDef
        /\ def' = nextDef
        /\ nextDef' = nextDef + 1
  /\ status' = (IF Is(p, {"revert"}) THEN "synced" ELSE "pending")
  /\ Goto(p, "closing")
  /\ UNCHANGED <<lock, applied, deployed, docker>>

RewriteFails(p) ==
  /\ At(p, "rewriting")
  /\ Goto(p, "closing")
  /\ UNCHANGED <<lock, row, docker>>

-----------------------------------------------------------------------------
(* Definition edits and DELETE /stacks/:id take no lock *)

EditRequest(p) ==
  /\ Start(p, "edit", [Idle EXCEPT !.pc = "gate"])
  /\ FoundFree
  /\ UNCHANGED <<row, docker>>

EditWrite(p) ==
  /\ Is(p, {"edit"}) /\ At(p, "gate")
  /\ Exists /\ nextDef <= MaxDef
  /\ def' = nextDef
  /\ nextDef' = nextDef + 1
  /\ status' = "pending"
  /\ Finish(p)
  /\ UNCHANGED <<lock, applied, deployed, docker>>

EditRefuse(p) ==
  /\ Is(p, {"edit"}) /\ At(p, "gate")
  /\ Finish(p)
  /\ UNCHANGED <<lock, row, docker>>

\* Docker lists no container with the stack's label.
DeleteRequest(p) ==
  /\ Exists /\ live = NoDef
  /\ Start(p, "delete", [Idle EXCEPT !.pc = "gate"])
  /\ UNCHANGED <<lock, row, docker>>

\* After the Vault deleter and the egress archive.
DeleteRow(p) ==
  /\ Is(p, {"delete"}) /\ At(p, "gate")
  /\ status' = "gone"
  /\ Finish(p)
  /\ UNCHANGED <<lock, def, applied, deployed, nextDef, docker>>

-----------------------------------------------------------------------------
(* The status monitor (sweep and checkStack), and GET plan *)

\* The row is read; only synced and drifted rows go on.
CheckRead(p) ==
  /\ status \in Monitored
  /\ Start(p, "check", [Idle EXCEPT !.pc = "read", !.status = status,
                                    !.def = applied])
  /\ UNCHANGED <<lock, row, docker>>

\* Containers are listed and compared with the hashes of the row that was read.
CheckList(p) ==
  /\ Is(p, {"check"}) /\ At(p, "read")
  /\ proc' = [proc EXCEPT ![p].pc = "listed",
                          ![p].ok = (live = proc[p].def /\ up)]
  /\ UNCHANGED <<lock, row, docker>>

Verdict(p) == IF proc[p].ok THEN "synced" ELSE "drifted"

\* Nothing to write: an operation is in flight, no stored hashes, or the
\* status that was read is right already.
CheckSkip(p) ==
  /\ At(p, "listed")
  /\ \/ lock = "live" /\ UNCHANGED lock
     \/ /\ FoundFree
        /\ proc[p].def = NoDef \/ Verdict(p) = proc[p].status
  /\ Finish(p)
  /\ UNCHANGED <<row, docker>>

CheckLock(p) ==
  /\ At(p, "listed")
  /\ proc[p].def # NoDef /\ Verdict(p) # proc[p].status
  /\ Acquire
  /\ Goto(p, "marking")
  /\ UNCHANGED <<row, docker>>

\* The row is not read again.
CheckMark(p) ==
  /\ At(p, "marking")
  /\ SetStatus(Verdict(p))
  /\ Goto(p, "closing")
  /\ UNCHANGED <<lock, def, applied, deployed, nextDef, docker>>

\* GET plan: compare the containers with the definition ...
PlanCompare(p) ==
  /\ Exists
  /\ Start(p, "plan", [Idle EXCEPT !.pc = "compared", !.ok = (live = def)])
  /\ UNCHANGED <<lock, row, docker>>

\* ... then read the status ...
PlanRead(p) ==
  /\ At(p, "compared")
  /\ IF \/ status = "synced" /\ ~proc[p].ok
        \/ status = "drifted" /\ proc[p].ok
       THEN Goto(p, "toggling")
       ELSE Finish(p)
  /\ UNCHANGED <<lock, row, docker>>

\* ... then write the other one.
PlanToggle(p) ==
  /\ At(p, "toggling")
  /\ SetStatus(Verdict(p))
  /\ Finish(p)
  /\ UNCHANGED <<lock, def, applied, deployed, nextDef, docker>>

-----------------------------------------------------------------------------
(* The environment *)

ContainersDie ==
  /\ live # NoDef /\ up
  /\ up' = FALSE
  /\ UNCHANGED <<lock, row, live, proc>>

ContainersRecover ==
  /\ live # NoDef /\ ~up
  /\ up' = TRUE
  /\ UNCHANGED <<lock, row, live, proc>>

\* Thirty minutes have passed since the lock was taken.
LockExpires ==
  /\ LockMayExpire
  /\ lock = "live"
  /\ lock' = "stale"
  /\ UNCHANGED <<row, docker, proc>>

\* The lock and the background halves die with the process.
ServerRestart ==
  /\ MayRestart
  /\ lock' = "free"
  /\ proc' = [p \in Procs |-> Idle]
  /\ UNCHANGED <<row, docker>>

-----------------------------------------------------------------------------

Rollout(p) ==
  \/ LoadStack(p) \/ SetupFails(p) \/ NothingToDo(p) \/ TakeDown(p)
  \/ BringUp(p) \/ ActionFails(p) \/ Land(p) \/ LandFails(p) \/ Settle(p)
  \/ MarkErrored(p)

Removal(p) == RemoveContainers(p) \/ Retire(p) \/ RemovalFails(p)
Rewrite(p) == RewriteDefinition(p) \/ RewriteFails(p)

\* The steps of an operation that was let in.
Progress(p) ==
  Rollout(p) \/ Removal(p) \/ Rewrite(p) \/ CheckMark(p) \/ Close(p)

\* The steps before that, and those of the handlers that take no lock.
Admission(p) ==
  \/ RolloutRequest(p) \/ RolloutRefuse(p) \/ RolloutAccept(p)
  \/ RekeyApply(p) \/ HealStart(p)
  \/ FindStack(p) \/ LockStack(p) \/ Conflict(p)
  \/ EditRequest(p) \/ EditWrite(p) \/ EditRefuse(p)
  \/ DeleteRequest(p) \/ DeleteRow(p)
  \/ CheckRead(p) \/ CheckList(p) \/ CheckSkip(p) \/ CheckLock(p)
  \/ PlanCompare(p) \/ PlanRead(p) \/ PlanToggle(p)

Environment ==
  ContainersDie \/ ContainersRecover \/ LockExpires \/ ServerRestart

Next == (\E p \in Procs : Progress(p) \/ Admission(p)) \/ Environment

Spec == Init /\ [][Next]_vars

\* Every await in an operation settles: Docker, Vault, NATS and SQLite calls
\* have timeouts, and their failure is one of the steps above.
Fairness == \A p \in Procs : WF_vars(Progress(p))
FairSpec == Spec /\ Fairness

-----------------------------------------------------------------------------
(* Properties *)

\* The processes between tryAcquire() and the finally that releases; an apply
\* started by the key deletion is in there without having acquired.
Inside ==
  {p \in Procs : proc[p].pc \in
     {"plan", "rolling", "replacing", "landing", "settling", "recording",
      "failing", "removing", "retiring", "rewriting", "marking", "closing"}}

\* No path leaks the lock: whatever fails on the way, an entry in inFlight,
\* live or stale, has an operation that will still reach its finally.
LockHasOperation == lock # "free" => Inside # {}

\* The claim of operation-lock.ts that no two operations of one stack run
\* at once.
OneOperation == \A p, q \in Inside : p = q

\* synced tells the operator that the definition they see is the one that was
\* last rolled out: no edit, upgrade or restore hides behind it.
SyncedMeansApplied == status = "synced" => def = applied

\* The rows the monitor and the update route work on have been applied once,
\* so there is something to compare the containers with.
MonitoredHasBaseline == status \in Monitored => applied # NoDef

\* Once the row is gone nothing lists or removes its containers any more, so
\* they must be gone first.
NoOrphanContainers == status = "gone" => live = NoDef

\* An apply that was let in ends, and when it does the row no longer says
\* pending (or the row is gone): no failure path leaves it there.
ApplySettlesPending ==
  \A p \in Procs :
    (Is(p, Applies) /\ At(p, "plan")) ~> (status # "pending")

\* The stack can be operated on again: the lock is released again and again.
LockComesFree == []<>(lock = "free")

\* The abstract view: one owner at a time, and the row and the containers
\* change only in its hands.
owner == IF Inside = {} THEN {} ELSE {CHOOSE p \in Inside : TRUE}
Ownership == INSTANCE StackOwnership
  WITH Procs <- Procs, owner <- owner, status <- status, def <- def,
       applied <- applied, live <- live
OwnedByOne == Ownership!Spec

=============================================================================

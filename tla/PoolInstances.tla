--------------------------- MODULE PoolInstances ---------------------------
(***************************************************************************)
(* The instances of ONE service of type Pool: the ensure route and its     *)
(* background spawn, the DELETE and heartbeat routes, the stop of the      *)
(* whole stack, and the reaper, over the pool_instances table and Docker.  *)
(*                                                                         *)
(* Instances are asked for by name (instanceId).  A row is never reused:   *)
(* rows are numbered in the order they are created.  A spawn creates at    *)
(* most one worker container, so a container goes by the number of its     *)
(* row; its Docker name is built from the instanceId, hence two rows of    *)
(* one instanceId compete for one name.  Addon sidecars, events and audit  *)
(* are left out.                                                           *)
(*                                                                         *)
(* An action is the code from one await to the next.  Transactions and     *)
(* single statements of SQLite are atomic.                                 *)
(***************************************************************************)
EXTENDS Naturals, FiniteSets, Sequences

CONSTANTS
  Ids,          \* instanceIds callers ask for
  Clients,      \* concurrent DELETE, heartbeat and stop handlers
  Kinds,        \* which of those this instance runs
  Sweeps,       \* reaper ticks that may overlap: setInterval does not wait
  MaxInstances, \* PoolConfig.maxInstances
  MaxRows,      \* bound: rows ever created
  MaxRestarts,  \* bound: restarts of the server
  SpawnMayLag   \* may a spawn still be running after five minutes?

ASSUME SetsAssumption ==
  /\ IsFiniteSet(Ids) /\ IsFiniteSet(Clients) /\ IsFiniteSet(Sweeps)
  /\ Kinds \subseteq {"delete", "heartbeat", "stop"}
ASSUME BoundsAssumption ==
  /\ MaxInstances \in Nat \ {0}
  /\ MaxRows \in Nat /\ MaxRestarts \in Nat
  /\ SpawnMayLag \in BOOLEAN

Rows == 1..MaxRows

VARIABLES
  inst,     \* PoolInstance.instanceId of the rows created so far
  status,   \* PoolInstance.status
  known,    \* is PoolInstance.containerId set?
  overdue,  \* starting: is createdAt older than STARTING_TIMEOUT_MS?
            \* running: is lastActive older than idleTimeoutMinutes?
  box,      \* the row's worker container in Docker
  spawn,    \* where spawnInBackground for the row is
  client,   \* the request handlers
  sweep,    \* the reaper ticks
  restarts

table == <<inst, status, known, overdue>>
vars == <<table, box, spawn, client, sweep, restarts>>

Active == {"starting", "running"}
Terminal == {"stopped", "error"}
Existing == DOMAIN inst
ActiveRows == {r \in Existing : status[r] \in Active}

Handlers == [kind : {"none", "delete", "heartbeat", "stop"},
             row : Rows \cup {0}, known : BOOLEAN,
             pc : {"idle", "found", "marked"}]
Ready == [kind |-> "none", row |-> 0, known |-> FALSE, pc |-> "idle"]

\* A tick: the pass it is in, the rows that pass read and has still to treat,
\* those of them whose containerId it read, and the row in hand.
Ticks == [pass : {"off", "idle", "stuck"}, todo : SUBSET Rows,
          known : SUBSET Rows, row : Rows \cup {0}]
Off == [pass |-> "off", todo |-> {}, known |-> {}, row |-> 0]

TypeOK ==
  /\ inst \in Seq(Ids) /\ Len(inst) <= MaxRows
  /\ status \in [Rows -> Active \cup Terminal \cup {"none"}]
  /\ known \in [Rows -> BOOLEAN]
  /\ overdue \in [Rows -> BOOLEAN]
  /\ box \in [Rows -> {"absent", "created", "up", "exited"}]
  /\ spawn \in [Rows -> {"none", "creating", "attaching", "polling",
                         "landing", "refused", "failed", "thrown"}]
  /\ client \in [Clients -> Handlers]
  /\ sweep \in [Sweeps -> Ticks]
  /\ restarts \in 0..MaxRestarts

Init ==
  /\ inst = <<>>
  /\ status = [r \in Rows |-> "none"]
  /\ known = [r \in Rows |-> FALSE]
  /\ overdue = [r \in Rows |-> FALSE]
  /\ box = [r \in Rows |-> "absent"]
  /\ spawn = [r \in Rows |-> "none"]
  /\ client = [c \in Clients |-> Ready]
  /\ sweep = [s \in Sweeps |-> Off]
  /\ restarts = 0

-----------------------------------------------------------------------------
(* Ensure, and the spawn it leaves running in the background *)

\* Slip: the cap counts the instances that run, not those that will.
EnsureCountsRunning(i) ==
  /\ Len(inst) < MaxRows
  /\ \A r \in ActiveRows : inst[r] # i
  /\ Cardinality({r \in Existing : status[r] = "running"}) < MaxInstances
  /\ inst' = Append(inst, i)
  /\ status' = [status EXCEPT ![Len(inst) + 1] = "starting"]
  /\ spawn' = [spawn EXCEPT ![Len(inst) + 1] = "creating"]
  /\ UNCHANGED <<known, overdue, box, client, sweep, restarts>>

\* One transaction: no active row of that name, cap not reached, create.  An
\* active row is returned as it is, a full pool answers 409: no change.
Ensure(i) ==
  /\ Len(inst) < MaxRows
  /\ \A r \in ActiveRows : inst[r] # i
  /\ Cardinality(ActiveRows) < MaxInstances
  /\ inst' = Append(inst, i)
  /\ status' = [status EXCEPT ![Len(inst) + 1] = "starting"]
  /\ spawn' = [spawn EXCEPT ![Len(inst) + 1] = "creating"]
  /\ UNCHANGED <<known, overdue, box, client, sweep, restarts>>

SpawnGoto(r, pc) == spawn' = [spawn EXCEPT ![r] = pc]

\* Image pulled, credentials resolved; Docker gives a name only once.
SpawnCreate(r) ==
  /\ spawn[r] = "creating"
  /\ \A q \in Existing : inst[q] = inst[r] => box[q] = "absent"
  /\ box' = [box EXCEPT ![r] = "created"]
  /\ SpawnGoto(r, "attaching")
  /\ UNCHANGED <<table, client, sweep, restarts>>

\* Anything before that failed, or the name is taken.
SpawnRefused(r) ==
  /\ spawn[r] = "creating"
  /\ SpawnGoto(r, "refused")
  /\ UNCHANGED <<table, box, client, sweep, restarts>>

SpawnStart(r) ==
  /\ spawn[r] = "attaching"
  /\ box[r] = "created"
  /\ box' = [box EXCEPT ![r] = "up"]
  /\ SpawnGoto(r, "polling")
  /\ UNCHANGED <<table, client, sweep, restarts>>

\* start() is rejected, or attaching the networks throws past the result.
SpawnStartFails(r) ==
  /\ spawn[r] = "attaching"
  /\ SpawnGoto(r, "failed") \/ SpawnGoto(r, "thrown")
  /\ UNCHANGED <<table, box, client, sweep, restarts>>

\* Up to 30 seconds of inspect(): seen running, seen exited, or never seen.
SpawnPoll(r) ==
  /\ spawn[r] = "polling"
  /\ \/ box[r] = "up" /\ SpawnGoto(r, "landing")
     \/ SpawnGoto(r, "failed")
  /\ UNCHANGED <<table, box, client, sweep, restarts>>

\* Slip: a migration loses the partial unique index.
NoIndex(r) == TRUE

\* pool_instance_active_unique
IndexAllows(r) == \A q \in ActiveRows \ {r} : inst[q] # inst[r]

\* Slip: the write of the running row leaves out the containerId.
SpawnLandUnnamed(r) ==
  /\ spawn[r] = "landing"
  /\ IndexAllows(r)
  /\ status' = [status EXCEPT ![r] = "running"]
  /\ overdue' = [overdue EXCEPT ![r] = FALSE]
  /\ SpawnGoto(r, "none")
  /\ UNCHANGED <<inst, known, box, client, sweep, restarts>>

\* The row becomes running whatever it is now, unless the index objects.
SpawnLand(r) ==
  /\ spawn[r] = "landing"
  /\ IndexAllows(r)
  /\ status' = [status EXCEPT ![r] = "running"]
  /\ known' = [known EXCEPT ![r] = TRUE]
  /\ overdue' = [overdue EXCEPT ![r] = FALSE]
  /\ SpawnGoto(r, "none")
  /\ UNCHANGED <<inst, box, client, sweep, restarts>>

SpawnCollides(r) ==
  /\ spawn[r] = "landing"
  /\ ~IndexAllows(r)
  /\ SpawnGoto(r, "thrown")
  /\ UNCHANGED <<table, box, client, sweep, restarts>>

\* A failed result carries the containerId if there is one; the catch block
\* leaves the column alone.
SpawnRecord(r) ==
  /\ spawn[r] \in {"refused", "failed", "thrown"}
  /\ status' = [status EXCEPT ![r] = "error"]
  /\ known' = [known EXCEPT ![r] = IF spawn[r] = "thrown" THEN @
                                    ELSE spawn[r] = "failed"]
  /\ SpawnGoto(r, "none")
  /\ UNCHANGED <<inst, overdue, box, client, sweep, restarts>>

-----------------------------------------------------------------------------
(* DELETE, heartbeat, stop *)

Accept(c, kind, r) ==
  /\ kind \in Kinds
  /\ client[c] = Ready
  /\ client' = [client EXCEPT ![c] = [kind |-> kind, row |-> r, pc |-> "found",
                                      known |-> r > 0 /\ known[r]]]
  /\ UNCHANGED <<table, box, spawn, sweep, restarts>>

In(c, kind, pc) == client[c].kind = kind /\ client[c].pc = pc
Answer(c) == client' = [client EXCEPT ![c] = Ready]

DeleteFind(c) == \E r \in ActiveRows : Accept(c, "delete", r)

DeleteMark(c) ==
  /\ In(c, "delete", "found")
  /\ status' = [status EXCEPT ![client[c].row] = "stopped"]
  /\ client' = [client EXCEPT ![c].pc = "marked"]
  /\ UNCHANGED <<inst, known, overdue, box, spawn, sweep, restarts>>

\* Fire and forget, and only if the row that was read had a containerId.
DeleteRemove(c) ==
  /\ In(c, "delete", "marked")
  /\ \/ client[c].known /\ box' = [box EXCEPT ![client[c].row] = "absent"]
     \/ UNCHANGED box
  /\ Answer(c)
  /\ UNCHANGED <<table, spawn, sweep, restarts>>

HeartbeatFind(c) == \E r \in ActiveRows : Accept(c, "heartbeat", r)

\* Slip: the heartbeat also writes the status its caller believes in.
HeartbeatRevives(c) ==
  /\ In(c, "heartbeat", "found")
  /\ overdue' = [overdue EXCEPT ![client[c].row] = FALSE]
  /\ status' = [status EXCEPT ![client[c].row] = "running"]
  /\ Answer(c)
  /\ UNCHANGED <<inst, known, box, spawn, sweep, restarts>>

HeartbeatWrite(c) ==
  /\ In(c, "heartbeat", "found")
  /\ overdue' = [overdue EXCEPT ![client[c].row] =
                   @ /\ status[client[c].row] = "starting"]
  /\ Answer(c)
  /\ UNCHANGED <<inst, status, known, box, spawn, sweep, restarts>>

\* stopStack removes what it can of the stack's containers ...
StopRequest(c) == Accept(c, "stop", 0)

StopRemove(c) ==
  /\ In(c, "stop", "found")
  /\ \E gone \in SUBSET {r \in Rows : box[r] # "absent"} :
       box' = [r \in Rows |-> IF r \in gone THEN "absent" ELSE box[r]]
  /\ client' = [client EXCEPT ![c].pc = "marked"]
  /\ UNCHANGED <<table, spawn, sweep, restarts>>

\* ... then marks whatever row is active now.
StopMark(c) ==
  /\ In(c, "stop", "marked")
  /\ status' = [r \in Rows |-> IF status[r] \in Active THEN "stopped"
                                ELSE status[r]]
  /\ Answer(c)
  /\ UNCHANGED <<inst, known, overdue, box, spawn, sweep, restarts>>

-----------------------------------------------------------------------------
(* The reaper *)

\* Slip: the stuck pass forgets the cutoff on createdAt.
DueAtOnce(pass) ==
  IF pass = "idle"
    THEN {r \in Existing : status[r] = "running" /\ overdue[r]}
    ELSE {r \in Existing : status[r] = "starting"}

\* Slip: the stuck pass takes only rows that have a container.
DueWithContainer(pass) ==
  IF pass = "idle"
    THEN {r \in Existing : status[r] = "running" /\ overdue[r]}
    ELSE {r \in Existing : status[r] = "starting" /\ overdue[r] /\ known[r]}

Due(pass) ==
  IF pass = "idle"
    THEN {r \in Existing : status[r] = "running" /\ overdue[r]}
    ELSE {r \in Existing : status[r] = "starting" /\ overdue[r]}

\* A pass reads its rows once ...
SweepRead(s, pass) ==
  sweep' = [sweep EXCEPT ![s] =
              [pass |-> pass, todo |-> Due(pass), row |-> 0,
               known |-> {r \in Due(pass) : known[r]}]]

SweepStart(s) ==
  /\ sweep[s].pass = "off"
  /\ SweepRead(s, "idle")
  /\ UNCHANGED <<table, box, spawn, client, restarts>>

\* ... and treats one after the other: first its container ...
SweepRemove(s, r) ==
  /\ sweep[s].row = 0 /\ r \in sweep[s].todo
  /\ box' = [box EXCEPT ![r] = IF r \in sweep[s].known THEN "absent" ELSE @]
  /\ sweep' = [sweep EXCEPT ![s].row = r, ![s].todo = @ \ {r}]
  /\ UNCHANGED <<table, spawn, client, restarts>>

\* (Docker refuses: retried by the next tick)
SweepSkip(s, r) ==
  /\ sweep[s].row = 0 /\ r \in sweep[s].todo
  /\ r \in sweep[s].known
  /\ sweep' = [sweep EXCEPT ![s].todo = @ \ {r}]
  /\ UNCHANGED <<table, box, spawn, client, restarts>>

\* Slip: the idle pass leaves the row to somebody else.
SweepMarkStuckOnly(s) ==
  /\ sweep[s].row # 0
  /\ status' = [status EXCEPT ![sweep[s].row] =
                  IF sweep[s].pass = "idle" THEN @ ELSE "error"]
  /\ sweep' = [sweep EXCEPT ![s].row = 0]
  /\ UNCHANGED <<inst, known, overdue, box, spawn, client, restarts>>

\* ... then its row, whatever it says by now.
SweepMark(s) ==
  /\ sweep[s].row # 0
  /\ status' = [status EXCEPT ![sweep[s].row] =
                  IF sweep[s].pass = "idle" THEN "stopped" ELSE "error"]
  /\ sweep' = [sweep EXCEPT ![s].row = 0]
  /\ UNCHANGED <<inst, known, overdue, box, spawn, client, restarts>>

SweepNextPass(s) ==
  /\ sweep[s].row = 0 /\ sweep[s].todo = {}
  /\ \/ sweep[s].pass = "idle" /\ SweepRead(s, "stuck")
     \/ sweep[s].pass = "stuck" /\ sweep' = [sweep EXCEPT ![s] = Off]
  /\ UNCHANGED <<table, box, spawn, client, restarts>>

-----------------------------------------------------------------------------
(* Time, Docker, and the server process *)

\* A running instance that is not heard from; a starting one that takes long.
GrowOld(r) ==
  /\ status[r] \in Active /\ ~overdue[r]
  /\ status[r] = "starting" => SpawnMayLag \/ spawn[r] = "none"
  /\ overdue' = [overdue EXCEPT ![r] = TRUE]
  /\ UNCHANGED <<inst, status, known, box, spawn, client, sweep, restarts>>

WorkerExits(r) ==
  /\ box[r] = "up"
  /\ box' = [box EXCEPT ![r] = "exited"]
  /\ UNCHANGED <<table, spawn, client, sweep, restarts>>

ServerRestart ==
  /\ restarts < MaxRestarts
  /\ restarts' = restarts + 1
  /\ spawn' = [r \in Rows |-> "none"]
  /\ client' = [c \in Clients |-> Ready]
  /\ sweep' = [s \in Sweeps |-> Off]
  /\ UNCHANGED <<table, box>>

-----------------------------------------------------------------------------

Spawning(r) ==
  \/ SpawnCreate(r) \/ SpawnRefused(r) \/ SpawnStart(r) \/ SpawnStartFails(r)
  \/ SpawnPoll(r) \/ SpawnLand(r) \/ SpawnCollides(r) \/ SpawnRecord(r)

Handling(c) ==
  \/ DeleteFind(c) \/ DeleteMark(c) \/ DeleteRemove(c)
  \/ HeartbeatFind(c) \/ HeartbeatWrite(c)
  \/ StopRequest(c) \/ StopRemove(c) \/ StopMark(c)

Sweeping(s) ==
  \/ SweepStart(s) \/ SweepMark(s) \/ SweepNextPass(s)
  \/ \E r \in Rows : SweepRemove(s, r) \/ SweepSkip(s, r)

Passing(r) == GrowOld(r) \/ WorkerExits(r)

Next ==
  \/ \E i \in Ids : Ensure(i)
  \/ \E r \in Rows : Spawning(r) \/ Passing(r)
  \/ \E c \in Clients : Handling(c)
  \/ \E s \in Sweeps : Sweeping(s)
  \/ ServerRestart

Spec == Init /\ [][Next]_vars

\* Calls settle, ticks come round, time passes, and Docker does not refuse
\* the same removal for ever.  Nothing makes a client call.
Fairness ==
  /\ \A r \in Rows : WF_vars(Spawning(r)) /\ WF_vars(GrowOld(r))
  /\ \A s \in Sweeps :
       /\ WF_vars(Sweeping(s))
       /\ \A r \in Rows : SF_vars(SweepRemove(s, r))
FairSpec == Spec /\ Fairness

-----------------------------------------------------------------------------
(* Properties *)

\* Callers that ensure the same instance, spawns that finish late and the
\* reaper never leave two active rows of one instanceId.
OneActivePerId ==
  \A q, r \in ActiveRows : inst[q] = inst[r] => q = r

\* A running instance can be stopped: DELETE and the idle sweep find its
\* container only through the row's containerId.
RunningIsReachable ==
  \A r \in Existing : status[r] = "running" => known[r]

\* The pool never holds more active instances than maxInstances allows.
CapRespected == Cardinality(ActiveRows) <= MaxInstances

\* starting -> running -> stopped/error: a row that is stopped or failed is
\* history; nothing brings it back.
TerminalIsFinal ==
  [][\A r \in Existing : status[r] \in Terminal => status'[r] \in Terminal]_vars

\* An active row whose spawn is over either runs or is one that a restart
\* left behind; a stopped or failed row has no spawn that could revive it.
SpawnOwnsStarting ==
  \A r \in Existing : spawn[r] # "none" => status[r] = "starting"

\* No instance stays in starting: its spawn settles it, or five minutes later
\* the reaper does, also for a spawn that died with the server.
StartingSettles ==
  \A r \in Rows : (status[r] = "starting") ~> (status[r] # "starting")

\* An instance nobody uses any more is stopped.
IdleIsReaped ==
  \A r \in Rows :
    (status[r] = "running" /\ overdue[r])
      ~> (status[r] # "running" \/ ~overdue[r])

=============================================================================

------------------------ MODULE PoolInstancesProofs ------------------------
(***************************************************************************)
(* Theorems about a pool for any number of names, handlers, ticks, rows    *)
(* and restarts.  The first three hold always; the cap and the finality of *)
(* stopped and failed rows hold for pools whose starting instances are     *)
(* left alone while their spawn is under way.                              *)
(***************************************************************************)
EXTENDS PoolInstances, FiniteSetTheorems, TLAPS

USE BoundsAssumption

-----------------------------------------------------------------------------
(* Type correctness *)

\* The new row is a row like any other.
LEMMA EnsureType ==
  ASSUME TypeOK, NEW i \in Ids, Ensure(i)
  PROVE  TypeOK' /\ Len(inst) + 1 \in Rows
  <1>1. Len(inst) + 1 \in Rows /\ Len(inst) \in Nat
    BY DEF TypeOK, Ensure, Rows
  <1>2. inst' \in Seq(Ids) /\ Len(inst') <= MaxRows
    BY DEF TypeOK, Ensure
  <1>3. /\ status' \in [Rows -> Active \cup Terminal \cup {"none"}]
        /\ spawn' \in [Rows -> {"none", "creating", "attaching", "polling",
                                "landing", "refused", "failed", "thrown"}]
    BY <1>1 DEF TypeOK, Ensure, Active, Terminal
  <1> QED BY <1>1, <1>2, <1>3 DEF TypeOK, Ensure

\* The spawn writes only its own row.
LEMMA SpawningType ==
  ASSUME TypeOK, NEW r \in Rows, Spawning(r)
  PROVE  TypeOK'
  <1>1. CASE SpawnCreate(r)
    BY <1>1 DEF TypeOK, SpawnCreate, SpawnGoto, table
  <1>2. CASE SpawnRefused(r)
    BY <1>2 DEF TypeOK, SpawnRefused, SpawnGoto, table
  <1>3. CASE SpawnStart(r)
    BY <1>3 DEF TypeOK, SpawnStart, SpawnGoto, table
  <1>4. CASE SpawnStartFails(r)
    BY <1>4 DEF TypeOK, SpawnStartFails, SpawnGoto, table
  <1>5. CASE SpawnPoll(r)
    BY <1>5 DEF TypeOK, SpawnPoll, SpawnGoto, table
  <1>6. CASE SpawnLand(r)
    BY <1>6 DEF TypeOK, SpawnLand, SpawnGoto, Active, Terminal
  <1>7. CASE SpawnCollides(r)
    BY <1>7 DEF TypeOK, SpawnCollides, SpawnGoto, table
  <1>8. CASE SpawnRecord(r)
    BY <1>8 DEF TypeOK, SpawnRecord, SpawnGoto, Active, Terminal
  <1> QED BY <1>1, <1>2, <1>3, <1>4, <1>5, <1>6, <1>7, <1>8 DEF Spawning

\* A handler remembers a row it found.
LEMMA AcceptType ==
  ASSUME TypeOK, NEW c \in Clients, NEW r \in Rows \cup {0},
         NEW kind \in {"delete", "heartbeat", "stop"}, Accept(c, kind, r)
  PROVE  TypeOK'
  <1>1. [kind |-> kind, row |-> r, pc |-> "found", known |-> r > 0 /\ known[r]]
          \in Handlers
    BY DEF TypeOK, Handlers
  <1>2. client' \in [Clients -> Handlers]
    BY <1>1 DEF TypeOK, Accept
  <1> QED BY <1>2 DEF TypeOK, Accept, table

LEMMA HandlingType ==
  ASSUME TypeOK, NEW c \in Clients, Handling(c)
  PROVE  TypeOK'
  <1>1. ActiveRows \subseteq Rows
    BY DEF TypeOK, ActiveRows, Existing, Rows
  <1>2. Ready \in Handlers
    BY DEF Ready, Handlers
  <1>3. client[c] \in Handlers
    BY DEF TypeOK
  <1>4. CASE DeleteFind(c) \/ HeartbeatFind(c) \/ StopRequest(c)
    BY <1>1, <1>4, AcceptType DEF DeleteFind, HeartbeatFind, StopRequest
  <1>5. CASE DeleteMark(c)
    <2>1. [client[c] EXCEPT !.pc = "marked"] \in Handlers
      BY <1>3 DEF Handlers
    <2>2. client' \in [Clients -> Handlers]
      BY <1>5, <2>1 DEF DeleteMark, TypeOK
    <2>3. status' \in [Rows -> Active \cup Terminal \cup {"none"}]
      BY <1>5 DEF DeleteMark, TypeOK, Active, Terminal
    <2> QED BY <1>5, <2>2, <2>3 DEF DeleteMark, TypeOK
  <1>6. CASE DeleteRemove(c)
    <2>1. client' \in [Clients -> Handlers]
      BY <1>2, <1>6 DEF DeleteRemove, Answer, TypeOK
    <2> QED BY <1>6, <2>1 DEF DeleteRemove, TypeOK, table
  <1>7. CASE HeartbeatWrite(c)
    <2>1. client' \in [Clients -> Handlers]
      BY <1>2, <1>7 DEF HeartbeatWrite, Answer, TypeOK
    <2>2. overdue' \in [Rows -> BOOLEAN]
      <3>1. DEFINE B == overdue[client[c].row]
                          /\ status[client[c].row] = "starting"
      <3>2. B \in BOOLEAN
        OBVIOUS
      <3>3. overdue' = [overdue EXCEPT ![client[c].row] = B]
        BY <1>7 DEF HeartbeatWrite
      <3> HIDE DEF B
      <3> QED BY <3>2, <3>3 DEF TypeOK
    <2> QED BY <1>7, <2>1, <2>2 DEF HeartbeatWrite, TypeOK
  <1>8. CASE StopRemove(c)
    <2>1. [client[c] EXCEPT !.pc = "marked"] \in Handlers
      BY <1>3 DEF Handlers
    <2>2. client' \in [Clients -> Handlers]
      BY <1>8, <2>1 DEF StopRemove, TypeOK
    <2>3. box' \in [Rows -> {"absent", "created", "up", "exited"}]
      BY <1>8 DEF StopRemove, TypeOK
    <2> QED BY <1>8, <2>2, <2>3 DEF StopRemove, TypeOK, table
  <1>9. CASE StopMark(c)
    <2>1. client' \in [Clients -> Handlers]
      BY <1>2, <1>9 DEF StopMark, Answer, TypeOK
    <2>2. status' \in [Rows -> Active \cup Terminal \cup {"none"}]
      BY <1>9 DEF StopMark, TypeOK, Active, Terminal
    <2> QED BY <1>9, <2>1, <2>2 DEF StopMark, TypeOK
  <1> QED BY <1>4, <1>5, <1>6, <1>7, <1>8, <1>9 DEF Handling

LEMMA DueRows ==
  ASSUME TypeOK, NEW pass
  PROVE  Due(pass) \subseteq Rows
  BY DEF Due, TypeOK, Existing, Rows

LEMMA SweepingType ==
  ASSUME TypeOK, NEW s \in Sweeps, Sweeping(s)
  PROVE  TypeOK'
  <1>1. sweep[s] \in Ticks /\ Off \in Ticks
    BY DEF TypeOK, Ticks, Off
  <1>2. ASSUME NEW pass \in {"idle", "stuck"}, SweepRead(s, pass)
        PROVE  sweep' \in [Sweeps -> Ticks]
    BY <1>2, DueRows DEF SweepRead, TypeOK, Ticks
  <1>3. ASSUME NEW r \in Rows, SweepRemove(s, r) \/ SweepSkip(s, r)
        PROVE  TypeOK'
    <2>1. [sweep[s] EXCEPT !.row = r, !.todo = @ \ {r}] \in Ticks
          /\ [sweep[s] EXCEPT !.todo = @ \ {r}] \in Ticks
      BY <1>1 DEF Ticks
    <2>2. sweep' \in [Sweeps -> Ticks]
      BY <1>3, <2>1 DEF SweepRemove, SweepSkip, TypeOK
    <2> QED BY <1>3, <2>2 DEF SweepRemove, SweepSkip, TypeOK, table
  <1>4. CASE SweepStart(s)
    BY <1>2, <1>4 DEF SweepStart, TypeOK, table
  <1>5. CASE SweepMark(s)
    <2>1. [sweep[s] EXCEPT !.row = 0] \in Ticks
      BY <1>1 DEF Ticks
    <2>2. sweep' \in [Sweeps -> Ticks]
      BY <1>5, <2>1 DEF SweepMark, TypeOK
    <2>3. status' \in [Rows -> Active \cup Terminal \cup {"none"}]
      BY <1>5 DEF SweepMark, TypeOK, Active, Terminal
    <2> QED BY <1>5, <2>2, <2>3 DEF SweepMark, TypeOK
  <1>6. CASE SweepNextPass(s)
    <2>1. sweep' \in [Sweeps -> Ticks]
      BY <1>1, <1>2, <1>6 DEF SweepNextPass, TypeOK
    <2> QED BY <1>6, <2>1 DEF SweepNextPass, TypeOK, table
  <1> QED BY <1>3, <1>4, <1>5, <1>6 DEF Sweeping

LEMMA TypeInductive ==
  ASSUME TypeOK, [Next]_vars
  PROVE  TypeOK'
  <1>1. CASE \E i \in Ids : Ensure(i)
    BY <1>1, EnsureType
  <1>2. CASE \E r \in Rows : Spawning(r)
    BY <1>2, SpawningType
  <1>3. CASE \E r \in Rows : Passing(r)
    BY <1>3 DEF Passing, GrowOld, WorkerExits, TypeOK, table
  <1>4. CASE \E c \in Clients : Handling(c)
    BY <1>4, HandlingType
  <1>5. CASE \E s \in Sweeps : Sweeping(s)
    BY <1>5, SweepingType
  <1>6. CASE ServerRestart
    <2>1. Ready \in Handlers /\ Off \in Ticks
      BY DEF Ready, Handlers, Off, Ticks
    <2> QED BY <1>6, <2>1 DEF ServerRestart, TypeOK, table
  <1>7. CASE UNCHANGED vars
    BY <1>7 DEF vars, table, TypeOK
  <1> QED BY <1>1, <1>2, <1>3, <1>4, <1>5, <1>6, <1>7 DEF Next

\* Every variable keeps to its type.
THEOREM TypeCorrect == Spec => []TypeOK
  <1>1. Init => TypeOK
    BY DEF Init, TypeOK, Ready, Handlers, Off, Ticks
  <1> QED BY <1>1, TypeInductive, PTL DEF Spec

-----------------------------------------------------------------------------
(* Only ensure and the end of a spawn make a row active *)

LEMMA OthersOnlyEnd ==
  ASSUME TypeOK, [Next]_vars,
         ~ \E i \in Ids : Ensure(i), ~ \E r \in Rows : SpawnLand(r)
  PROVE  /\ inst' = inst
         /\ \A r \in Rows : status'[r] = status[r] \/ status'[r] \in Terminal
         /\ \A r \in Rows : status'[r] = "running" => known'[r] = known[r]
  <1>1. ASSUME NEW r \in Rows, SpawnRecord(r)
        PROVE  /\ inst' = inst
               /\ \A q \in Rows : status'[q] = status[q] \/ status'[q] \in Terminal
               /\ \A q \in Rows : status'[q] = "running" => known'[q] = known[q]
    BY <1>1 DEF SpawnRecord, TypeOK, Terminal
  <1>2. ASSUME NEW r \in Rows, Spawning(r), ~SpawnRecord(r)
        PROVE  UNCHANGED <<inst, status, known>>
    BY <1>2 DEF Spawning, SpawnCreate, SpawnRefused, SpawnStart,
                SpawnStartFails, SpawnPoll, SpawnCollides, table
  <1>3. ASSUME NEW r \in Rows, Passing(r)
        PROVE  UNCHANGED <<inst, status, known>>
    BY <1>3 DEF Passing, GrowOld, WorkerExits, table
  <1>4. ASSUME NEW c \in Clients, DeleteMark(c) \/ StopMark(c)
        PROVE  /\ UNCHANGED <<inst, known>>
               /\ \A q \in Rows : status'[q] = status[q] \/ status'[q] \in Terminal
    BY <1>4 DEF DeleteMark, StopMark, TypeOK, Terminal
  <1>5. ASSUME NEW c \in Clients, Handling(c), ~DeleteMark(c), ~StopMark(c)
        PROVE  UNCHANGED <<inst, status, known>>
    BY <1>5 DEF Handling, DeleteFind, DeleteRemove, HeartbeatFind,
                HeartbeatWrite, StopRequest, StopRemove, Accept, table
  <1>6. ASSUME NEW s \in Sweeps, SweepMark(s)
        PROVE  /\ UNCHANGED <<inst, known>>
               /\ \A q \in Rows : status'[q] = status[q] \/ status'[q] \in Terminal
    BY <1>6 DEF SweepMark, TypeOK, Terminal
  <1>7. ASSUME NEW s \in Sweeps, Sweeping(s), ~SweepMark(s)
        PROVE  UNCHANGED <<inst, status, known>>
    BY <1>7 DEF Sweeping, SweepStart, SweepNextPass, SweepRemove, SweepSkip,
                table
  <1>8. ASSUME ServerRestart \/ UNCHANGED vars
        PROVE  UNCHANGED <<inst, status, known>>
    BY <1>8 DEF ServerRestart, vars, table
  <1> QED BY <1>1, <1>2, <1>3, <1>4, <1>5, <1>6, <1>7, <1>8 DEF Next

LEMMA ActiveAreRows ==
  ASSUME TypeOK
  PROVE  ActiveRows \subseteq Rows /\ Existing \subseteq Rows
  BY DEF TypeOK, ActiveRows, Existing, Rows

\* Ensure adds one row, which is starting.
LEMMA EnsureAdds ==
  ASSUME TypeOK, NEW i \in Ids, Ensure(i)
  PROVE  LET n == Len(inst) + 1 IN
         /\ n \in Rows /\ n \notin Existing
         /\ Existing' = Existing \cup {n}
         /\ inst'[n] = i /\ status'[n] = "starting"
         /\ \A r \in Existing : inst'[r] = inst[r]
         /\ \A r \in Rows \ {n} : status'[r] = status[r]
         /\ Existing \subseteq Rows
         /\ ActiveRows' = ActiveRows \cup {n}
  <1> DEFINE n == Len(inst) + 1
  <1>1. n \in Rows /\ Existing = 1..Len(inst) /\ Existing' = 1..n
        /\ Len(inst) \in Nat
    BY EnsureType DEF TypeOK, Ensure, Existing
  <1>2. /\ Existing \subseteq Rows /\ n \notin Existing
        /\ Existing' = Existing \cup {n}
    BY <1>1, ActiveAreRows
  <1>3. inst'[n] = i /\ \A r \in Existing : inst'[r] = inst[r]
    BY <1>1 DEF TypeOK, Ensure
  <1>4. /\ status'[n] = "starting"
        /\ \A r \in Rows \ {n} : status'[r] = status[r]
    BY <1>1, <1>2 DEF TypeOK, Ensure
  <1>5. ActiveRows' = ActiveRows \cup {n}
    BY <1>2, <1>4 DEF ActiveRows, Active
  <1> QED BY <1>1, <1>2, <1>3, <1>4, <1>5

-----------------------------------------------------------------------------
(* One active row per name; a running row knows its container *)

\* A row becomes active only next to active rows of other names, and running
\* only together with its containerId.
LEMMA RowsInductive ==
  ASSUME TypeOK, OneActivePerId, RunningIsReachable, [Next]_vars
  PROVE  OneActivePerId' /\ RunningIsReachable'
  <1>0. ActiveRows \subseteq Rows /\ Existing \subseteq Rows
    BY ActiveAreRows
  <1>1. ASSUME NEW i \in Ids, Ensure(i)
        PROVE  OneActivePerId' /\ RunningIsReachable'
    <2> DEFINE n == Len(inst) + 1
    <2>1. OneActivePerId'
      <3>1. /\ n \notin Existing /\ ActiveRows' = ActiveRows \cup {n}
            /\ inst'[n] = i /\ \A r \in Existing : inst'[r] = inst[r]
        BY <1>1, EnsureAdds
      <3>2. \A r \in ActiveRows : r \in Existing /\ inst[r] # i
        BY <1>1 DEF Ensure, ActiveRows
      <3> HIDE DEF n
      <3> QED BY <3>1, <3>2 DEF OneActivePerId
    <2>2. RunningIsReachable'
      BY <1>1, EnsureAdds DEF RunningIsReachable, Ensure
    <2> QED BY <2>1, <2>2
  <1>2. ASSUME NEW r \in Rows, SpawnLand(r)
        PROVE  OneActivePerId' /\ RunningIsReachable'
    <2>1. /\ inst' = inst /\ Existing' = Existing
          /\ \A q \in Rows \ {r} : status'[q] = status[q] /\ known'[q] = known[q]
          /\ known'[r] = TRUE
      BY <1>2 DEF SpawnLand, TypeOK, Existing
    <2>2. ActiveRows' \subseteq ActiveRows \cup {r}
      BY <1>0, <2>1 DEF ActiveRows
    <2>3. OneActivePerId'
      BY <1>2, <2>1, <2>2 DEF OneActivePerId, SpawnLand, IndexAllows
    <2>4. RunningIsReachable'
      BY <1>0, <2>1 DEF RunningIsReachable
    <2> QED BY <2>3, <2>4
  <1>3. ASSUME ~ \E i \in Ids : Ensure(i), ~ \E r \in Rows : SpawnLand(r)
        PROVE  OneActivePerId' /\ RunningIsReachable'
    <2>1. /\ inst' = inst /\ Existing' = Existing
          /\ \A r \in Rows : status'[r] = status[r] \/ status'[r] \in Terminal
          /\ \A r \in Rows : status'[r] = "running" => known'[r] = known[r]
      BY <1>3, OthersOnlyEnd DEF Existing
    <2>2. ActiveRows' \subseteq ActiveRows
      BY <1>0, <2>1 DEF ActiveRows, Active, Terminal
    <2>3. OneActivePerId'
      BY <2>1, <2>2 DEF OneActivePerId
    <2>4. RunningIsReachable'
      BY <1>0, <2>1 DEF RunningIsReachable, Terminal
    <2> QED BY <2>3, <2>4
  <1> QED BY <1>1, <1>2, <1>3

LEMMA RowsInv == Spec => [](TypeOK /\ OneActivePerId /\ RunningIsReachable)
  <1>1. Init => OneActivePerId /\ RunningIsReachable
    BY DEF Init, OneActivePerId, RunningIsReachable, ActiveRows, Existing
  <1> QED BY <1>1, TypeCorrect, RowsInductive, PTL DEF Spec

\* However many callers ensure one name, and however late spawns and reaper
\* write, a name has at most one active row.
THEOREM OneActive == Spec => []OneActivePerId
  BY RowsInv, PTL

\* DELETE and the idle sweep can reach the container of any running row.
THEOREM Reachable == Spec => []RunningIsReachable
  BY RowsInv, PTL

-----------------------------------------------------------------------------
(* Pools whose starting instances are left alone: no spawn outlives five   *)
(* minutes, and nothing is deleted or stopped.                             *)

Timely == ~SpawnMayLag /\ Kinds \cap {"delete", "stop"} = {}

\* A row not created yet has nothing; a handler is a heartbeat; and what a
\* tick has in hand is a row whose spawn is over.
Unborn ==
  \A r \in Rows \ Existing :
    status[r] = "none" /\ spawn[r] = "none" /\ ~overdue[r]
OnlyHeartbeats == \A c \in Clients : client[c].kind \notin {"delete", "stop"}
SpawnIsOnTime ==
  \A r \in Existing :
    spawn[r] # "none" => status[r] = "starting" /\ ~overdue[r]
InHand(s) == {r \in sweep[s].todo \cup {sweep[s].row} : r # 0}
TicksSpareSpawns ==
  \A s \in Sweeps : \A r \in InHand(s) : r \in Existing /\ spawn[r] = "none"

TimelyInv ==
  TypeOK /\ Unborn /\ OnlyHeartbeats /\ SpawnIsOnTime /\ TicksSpareSpawns

LEMMA TimelyInit ==
  ASSUME Init
  PROVE  TimelyInv
  BY DEF Init, TimelyInv, TypeOK, Ready, Handlers, Off, Ticks, Unborn,
         OnlyHeartbeats, SpawnIsOnTime, TicksSpareSpawns, InHand, Existing

\* The new row is fresh, and no tick has it in hand.
LEMMA TimelyEnsure ==
  ASSUME TimelyInv, NEW i \in Ids, Ensure(i)
  PROVE  TimelyInv'
  <1> DEFINE n == Len(inst) + 1
  <1>1. /\ n \in Rows /\ n \notin Existing /\ Existing' = Existing \cup {n}
        /\ status'[n] = "starting"
        /\ \A r \in Rows \ {n} : status'[r] = status[r]
    BY EnsureAdds DEF TimelyInv
  <1>2. /\ spawn'[n] = "creating" /\ \A r \in Rows \ {n} : spawn'[r] = spawn[r]
        /\ overdue' = overdue /\ client' = client /\ sweep' = sweep
    BY <1>1 DEF TimelyInv, TypeOK, Ensure
  <1>3. TypeOK'
    BY EnsureType DEF TimelyInv
  <1>4. Existing \subseteq Rows
    BY ActiveAreRows DEF TimelyInv
  <1> HIDE DEF n
  <1>5. Unborn'
    BY <1>1, <1>2 DEF TimelyInv, Unborn
  <1>6. SpawnIsOnTime'
    BY <1>1, <1>2, <1>4 DEF TimelyInv, Unborn, SpawnIsOnTime
  <1>7. TicksSpareSpawns'
    BY <1>1, <1>2, <1>4 DEF TimelyInv, TicksSpareSpawns, InHand
  <1> QED BY <1>2, <1>3, <1>5, <1>6, <1>7 DEF TimelyInv, OnlyHeartbeats

\* A spawn leaves its row as it is until it ends.
LEMMA TimelySpawning ==
  ASSUME TimelyInv, NEW r \in Rows, Spawning(r)
  PROVE  TimelyInv'
  <1>1. TypeOK' /\ Existing \subseteq Rows
    BY SpawningType, ActiveAreRows DEF TimelyInv
  <1>2. r \in Existing /\ ~overdue[r]
    BY DEF TimelyInv, Unborn, SpawnIsOnTime, Spawning, SpawnCreate,
           SpawnRefused, SpawnStart, SpawnStartFails, SpawnPoll, SpawnLand,
           SpawnCollides, SpawnRecord
  <1>3. /\ inst' = inst /\ Existing' = Existing
        /\ client' = client /\ sweep' = sweep
        /\ \A q \in Rows \ {r} : /\ spawn'[q] = spawn[q]
                                 /\ status'[q] = status[q]
                                 /\ overdue'[q] = overdue[q]
        /\ overdue'[r] = overdue[r]
        /\ status'[r] = status[r] \/ spawn'[r] = "none"
    <2>1. CASE SpawnLand(r)
      BY <1>2, <2>1 DEF TimelyInv, TypeOK, SpawnLand, SpawnGoto, Existing
    <2>2. CASE SpawnRecord(r)
      BY <2>2 DEF TimelyInv, TypeOK, SpawnRecord, SpawnGoto, Existing
    <2>3. CASE ~SpawnLand(r) /\ ~SpawnRecord(r)
      BY <2>3 DEF TimelyInv, TypeOK, Spawning, SpawnCreate, SpawnRefused,
                  SpawnStart, SpawnStartFails, SpawnPoll, SpawnCollides,
                  SpawnGoto, table, Existing
    <2> QED BY <2>1, <2>2, <2>3
  <1>4. Unborn'
    BY <1>2, <1>3 DEF TimelyInv, Unborn
  <1>5. SpawnIsOnTime'
    BY <1>1, <1>2, <1>3 DEF TimelyInv, SpawnIsOnTime, Spawning, SpawnCreate,
       SpawnRefused, SpawnStart, SpawnStartFails, SpawnPoll, SpawnLand,
       SpawnCollides, SpawnRecord
  <1>6. TicksSpareSpawns'
    <2>1. \A s \in Sweeps : r \notin InHand(s)
      BY DEF TimelyInv, TicksSpareSpawns, Spawning, SpawnCreate,
         SpawnRefused, SpawnStart, SpawnStartFails, SpawnPoll, SpawnLand,
         SpawnCollides, SpawnRecord
    <2> QED BY <1>1, <1>3, <2>1 DEF TimelyInv, TicksSpareSpawns, InHand
  <1> QED BY <1>1, <1>3, <1>4, <1>5, <1>6 DEF TimelyInv, OnlyHeartbeats

\* Only heartbeats are handled, and they only put a deadline off.
LEMMA TimelyHandling ==
  ASSUME Timely, TimelyInv, NEW c \in Clients, Handling(c)
  PROVE  TimelyInv'
  <1>1. TypeOK' /\ Existing \subseteq Rows
    BY HandlingType, ActiveAreRows DEF TimelyInv
  <1>2. HeartbeatFind(c) \/ HeartbeatWrite(c)
    BY DEF Timely, TimelyInv, OnlyHeartbeats, Handling, DeleteFind,
           DeleteMark, DeleteRemove, StopRequest, StopRemove, StopMark,
           Accept, In
  <1>3. /\ UNCHANGED <<inst, status, spawn, sweep>> /\ Existing' = Existing
        /\ \A r \in Rows : overdue'[r] => overdue[r]
    BY <1>2 DEF HeartbeatFind, HeartbeatWrite, Accept, table, Existing,
                TimelyInv, TypeOK
  <1>4. OnlyHeartbeats'
    BY <1>2 DEF TimelyInv, TypeOK, OnlyHeartbeats, HeartbeatFind,
                HeartbeatWrite, Accept, Answer, Ready
  <1> QED BY <1>1, <1>3, <1>4 DEF TimelyInv, Unborn, SpawnIsOnTime,
                                  TicksSpareSpawns, InHand

\* A tick takes up only rows that are running, or starting and overdue.
LEMMA TimelySweeping ==
  ASSUME TimelyInv, NEW s \in Sweeps, Sweeping(s)
  PROVE  TimelyInv'
  <1>1. TypeOK' /\ Existing \subseteq Rows
    BY SweepingType, ActiveAreRows DEF TimelyInv
  <1>2. /\ UNCHANGED <<inst, overdue, spawn, client>> /\ Existing' = Existing
        /\ \A t \in Sweeps \ {s} : sweep'[t] = sweep[t]
    BY DEF Sweeping, SweepStart, SweepMark, SweepNextPass, SweepRead,
           SweepRemove, SweepSkip, table, Existing, TimelyInv, TypeOK
  <1>3. \A r \in Rows : \/ status'[r] = status[r]
                        \/ r \in Existing /\ spawn[r] = "none"
    <2>1. CASE SweepMark(s)
      <3> DEFINE q == sweep[s].row
      <3>1. q \in Existing /\ spawn[q] = "none"
        BY <2>1 DEF SweepMark, TimelyInv, TypeOK, Ticks, TicksSpareSpawns,
                    InHand
      <3>2. \A r \in Rows : r # q => status'[r] = status[r]
        BY <2>1 DEF SweepMark, TimelyInv, TypeOK
      <3> HIDE DEF q
      <3> QED BY <3>1, <3>2
    <2>2. CASE ~SweepMark(s)
      <3>1. status' = status
        BY <2>2 DEF Sweeping, SweepStart, SweepNextPass, SweepRemove,
                    SweepSkip, table
      <3> QED BY <3>1
    <2> QED BY <2>1, <2>2
  <1>4. ASSUME NEW pass
        PROVE  \A r \in Due(pass) : r \in Existing /\ spawn[r] = "none"
    BY DEF Due, TimelyInv, SpawnIsOnTime
  <1>5. \A r \in InHand(s)' : r \in Existing /\ spawn[r] = "none"
    <2>1. ASSUME NEW pass \in {"idle", "stuck"}, SweepRead(s, pass)
          PROVE  \A r \in InHand(s)' : r \in Existing /\ spawn[r] = "none"
      BY <1>4, <2>1 DEF SweepRead, InHand, TimelyInv, TypeOK
    <2>2. CASE SweepStart(s) \/ SweepNextPass(s)
      BY <2>1, <2>2 DEF SweepStart, SweepNextPass, InHand, Off, TimelyInv,
                        TypeOK
    <2>3. CASE SweepMark(s)
      BY <2>3 DEF SweepMark, InHand, TimelyInv, TypeOK, TicksSpareSpawns
    <2>4. ASSUME NEW r \in Rows, SweepRemove(s, r) \/ SweepSkip(s, r)
          PROVE  \A q \in InHand(s)' : q \in Existing /\ spawn[q] = "none"
      BY <2>4 DEF SweepRemove, SweepSkip, InHand, TimelyInv, TypeOK, Ticks,
                  TicksSpareSpawns
    <2> QED BY <2>2, <2>3, <2>4 DEF Sweeping
  <1>6. TicksSpareSpawns'
    BY <1>2, <1>5 DEF TimelyInv, TicksSpareSpawns, InHand
  <1> QED BY <1>1, <1>2, <1>3, <1>6
          DEF TimelyInv, Unborn, OnlyHeartbeats, SpawnIsOnTime

LEMMA TimelyPassing ==
  ASSUME Timely, TimelyInv, NEW r \in Rows, Passing(r)
  PROVE  TimelyInv'
  <1>1. TypeOK' /\ r \in Rows /\ Existing \subseteq Rows
    BY ActiveAreRows DEF Passing, GrowOld, WorkerExits, TimelyInv, TypeOK,
                         table
  <1>2. /\ UNCHANGED <<inst, status, spawn, client, sweep>>
        /\ Existing' = Existing
        /\ \A q \in Rows \ {r} : overdue'[q] = overdue[q]
        /\ \/ overdue'[r] = overdue[r]
           \/ status[r] = "running"
           \/ status[r] = "starting" /\ spawn[r] = "none"
    BY <1>1 DEF Active, Passing, GrowOld, WorkerExits, table, Existing, TimelyInv, TypeOK,
           Timely
  <1>3. Unborn'
    BY <1>1, <1>2 DEF TimelyInv, Unborn, Active
  <1>4. SpawnIsOnTime'
    BY <1>1, <1>2 DEF TimelyInv, SpawnIsOnTime
  <1> QED BY <1>1, <1>2, <1>3, <1>4 DEF TimelyInv, OnlyHeartbeats,
                                        TicksSpareSpawns, InHand

LEMMA TimelyInductive ==
  ASSUME Timely, TimelyInv, [Next]_vars
  PROVE  TimelyInv'
  <1>1. TypeOK'
    BY TypeInductive DEF TimelyInv
  <1>2. CASE ServerRestart
    <2>1. /\ UNCHANGED <<inst, status, overdue>> /\ Existing' = Existing
          /\ \A r \in Rows : spawn'[r] = "none"
          /\ \A c \in Clients : client'[c].kind = "none"
          /\ \A s \in Sweeps : sweep'[s].todo = {} /\ sweep'[s].row = 0
      BY <1>2 DEF ServerRestart, table, Existing, Ready, Off
    <2>2. Existing \subseteq Rows
      BY ActiveAreRows DEF TimelyInv
    <2> QED BY <1>1, <2>1, <2>2 DEF TimelyInv, Unborn, OnlyHeartbeats,
               SpawnIsOnTime, TicksSpareSpawns, InHand
  <1>3. CASE UNCHANGED vars
    BY <1>1, <1>3 DEF vars, table, TimelyInv, Unborn, OnlyHeartbeats,
       SpawnIsOnTime, TicksSpareSpawns, InHand, Existing
  <1> QED BY <1>2, <1>3, TimelyEnsure, TimelySpawning, TimelyHandling,
             TimelySweeping, TimelyPassing DEF Next

LEMMA TimelyAlways ==
  ASSUME Timely
  PROVE  Spec => []TimelyInv
  BY TimelyInit, TimelyInductive, PTL DEF Spec

\* In a timely pool a spawn works for a starting row, never for one that was
\* stopped or failed meanwhile.
THEOREM TimelySpawns ==
  ASSUME Timely
  PROVE  Spec => []SpawnOwnsStarting
  <1>1. TimelyInv => SpawnOwnsStarting
    BY DEF TimelyInv, SpawnIsOnTime, SpawnOwnsStarting
  <1> QED BY <1>1, TimelyAlways, PTL

LEMMA TimelyStep ==
  ASSUME TimelyInv, [Next]_vars
  PROVE  /\ \A r \in Existing : status[r] \in Terminal => status'[r] \in Terminal
         /\ ActiveRows' \subseteq ActiveRows \/ \E i \in Ids : Ensure(i)
  <1>0. ActiveRows \subseteq Rows /\ Existing \subseteq Rows /\ TypeOK
    BY ActiveAreRows DEF TimelyInv
  <1>1. ASSUME NEW i \in Ids, Ensure(i)
        PROVE  \A r \in Existing : status'[r] = status[r]
    BY <1>0, <1>1, EnsureAdds
  <1>2. ASSUME NEW r \in Rows, SpawnLand(r)
        PROVE  /\ \A q \in Existing : status[q] \in Terminal => status'[q] \in Terminal
               /\ ActiveRows' \subseteq ActiveRows
    <2>1. r \in Existing /\ status[r] = "starting"
      BY <1>2 DEF SpawnLand, TimelyInv, Unborn, SpawnIsOnTime
    <2>2. /\ Existing' = Existing
          /\ \A q \in Rows \ {r} : status'[q] = status[q]
      BY <1>0, <1>2 DEF SpawnLand, TypeOK, Existing
    <2> QED BY <1>0, <2>1, <2>2 DEF ActiveRows, Active, Terminal
  <1>3. ASSUME ~ \E i \in Ids : Ensure(i), ~ \E r \in Rows : SpawnLand(r)
        PROVE  /\ \A q \in Existing : status[q] \in Terminal => status'[q] \in Terminal
               /\ ActiveRows' \subseteq ActiveRows
    <2>1. /\ Existing' = Existing
          /\ \A q \in Rows : status'[q] = status[q] \/ status'[q] \in Terminal
      BY <1>0, <1>3, OthersOnlyEnd DEF Existing
    <2> QED BY <1>0, <2>1 DEF ActiveRows, Active, Terminal
  <1> QED BY <1>1, <1>2, <1>3

\* In a timely pool no row that was stopped or failed comes back to life.
THEOREM TimelyEnds ==
  ASSUME Timely
  PROVE  Spec => TerminalIsFinal
  <1>1. TimelyInv /\ [Next]_vars
          => [\A r \in Existing :
                status[r] \in Terminal => status'[r] \in Terminal]_vars
    BY TimelyStep
  <1> QED BY <1>1, TimelyAlways, PTL DEF Spec, TerminalIsFinal

\* The count that ensure takes in its transaction holds for good: in a timely
\* pool nothing else adds an active instance.
THEOREM TimelyCap ==
  ASSUME Timely
  PROVE  Spec => []CapRespected
  <1>1. Init => CapRespected
    <2>1. Init => ActiveRows = {}
      BY DEF Init, ActiveRows, Existing
    <2> QED BY <2>1, FS_EmptySet DEF CapRespected
  <1>2. TimelyInv /\ CapRespected /\ [Next]_vars => CapRespected'
    <2> SUFFICES ASSUME TimelyInv, CapRespected, [Next]_vars
                 PROVE  CapRespected'
      OBVIOUS
    <2>0. IsFiniteSet(Rows)
      BY FS_Interval DEF Rows
    <2>1. IsFiniteSet(ActiveRows) /\ Cardinality(ActiveRows) \in Nat
      BY <2>0, ActiveAreRows, FS_Subset, FS_CardinalityType DEF TimelyInv
    <2>2. ASSUME ActiveRows' \subseteq ActiveRows
          PROVE  CapRespected'
      <3>1. /\ Cardinality(ActiveRows') <= Cardinality(ActiveRows)
            /\ Cardinality(ActiveRows') \in Nat
        BY <2>1, <2>2, FS_Subset, FS_CardinalityType
      <3> QED BY <2>1, <3>1 DEF CapRespected
    <2>3. ASSUME NEW i \in Ids, Ensure(i)
          PROVE  CapRespected'
      <3>1. \E n \in Rows : ActiveRows' = ActiveRows \cup {n}
        BY <2>3, EnsureAdds DEF TimelyInv
      <3>2. /\ Cardinality(ActiveRows') <= Cardinality(ActiveRows) + 1
            /\ Cardinality(ActiveRows') \in Nat
        <4>1. PICK n \in Rows : ActiveRows' = ActiveRows \cup {n}
          BY <3>1
        <4>2. /\ IsFiniteSet(ActiveRows \cup {n})
              /\ Cardinality(ActiveRows \cup {n}) \in
                   {Cardinality(ActiveRows), Cardinality(ActiveRows) + 1}
          BY <2>1, FS_AddElement, Zenon
        <4>3. Cardinality(ActiveRows') \in
                {Cardinality(ActiveRows), Cardinality(ActiveRows) + 1}
          BY <4>1, <4>2
        <4> QED BY <2>1, <4>3
      <3>3. Cardinality(ActiveRows) < MaxInstances
        BY <2>3 DEF Ensure
      <3> QED BY <2>1, <3>2, <3>3 DEF CapRespected
    <2> QED BY <2>2, <2>3, TimelyStep
  <1> QED BY <1>1, <1>2, TimelyAlways, PTL DEF Spec

=============================================================================

--------------------------- MODULE JobPoolsProofs ---------------------------
(***************************************************************************)
(* Theorems about a pool of jobs for any cap, retry budget and number of    *)
(* runs.                                                                    *)
(***************************************************************************)
EXTENDS JobPools, FiniteSetTheorems, WellFoundedInduction, TLAPS

USE ConfigAssumption, BoundsAssumption

WatchStates == {"quiet", "heard", "read", "written", "done", "lost"}

-----------------------------------------------------------------------------
(* Type correctness *)

\* A retry waits only for a run whose budget is not spent.
InBudget == \A i \in Runs : timer[i] > 0 => attempt[i] + 1 <= Retries

\* A run not reserved yet has nothing.
Unborn ==
  \A i \in Runs : i > made =>
    /\ status[i] = "none" /\ spawn[i] = "none" /\ box[i] = "absent"
    /\ exit[i] = "none" /\ timer[i] = 0 /\ published[i] = 0
    /\ reap[i] = "none"
    /\ \A s \in Streams : watch[i][s] = "quiet"

Typed == TypeOK /\ InBudget /\ Unborn

LEMMA Born ==
  ASSUME Typed, NEW i \in Runs,
         \/ status[i] # "none" \/ spawn[i] # "none" \/ box[i] # "absent"
         \/ timer[i] > 0 \/ reap[i] # "none"
         \/ \E s \in Streams : watch[i][s] # "quiet"
  PROVE  ~(i > made) /\ i <= made /\ made \in Nat
  <1>1. made \in Nat /\ i \in Nat
    BY DEF Typed, TypeOK, Runs
  <1>2. timer[i] = 0 => ~(timer[i] > 0)
    OBVIOUS
  <1>3. ~(i > made)
    BY <1>2 DEF Typed, Unborn
  <1> QED BY <1>1, <1>3

LEMMA ReserveType ==
  ASSUME Typed, NEW o \in Runs, NEW a \in 0..Retries, Reserve(o, a)
  PROVE  /\ made + 1 \in Runs /\ made' = made + 1 /\ made \in Nat
         /\ status' \in [Runs -> Active \cup Verdicts
                                   \cup {"none", "error", "stopped"}]
         /\ origin' \in [Runs -> Runs]
         /\ attempt' \in [Runs -> 0..Retries]
         /\ spawn' \in [Runs -> {"none", "resolving", "creating", "polling",
                                 "found"}]
         /\ status'[made + 1] = "starting" /\ spawn'[made + 1] = "resolving"
         /\ origin'[made + 1] = o /\ attempt'[made + 1] = a
         /\ \A i \in Runs \ {made + 1} :
              /\ status'[i] = status[i] /\ origin'[i] = origin[i]
              /\ attempt'[i] = attempt[i] /\ spawn'[i] = spawn[i]
  <1>1. made + 1 \in Runs /\ made \in Nat
    BY DEF Typed, TypeOK, Reserve, Runs
  <1> QED BY <1>1 DEF Typed, TypeOK, Reserve, Active, Verdicts

\* One stream's handler moves, the others stay.
LEMMA WatchMoves ==
  ASSUME TypeOK, NEW i \in Runs, NEW s \in Streams, NEW pc \in WatchStates,
         WatchGoto(i, s, pc)
  PROVE  /\ watch' \in [Runs -> [Streams -> WatchStates]]
         /\ watch'[i][s] = pc
         /\ \A j \in Runs, t \in Streams :
              <<j, t>> # <<i, s>> => watch'[j][t] = watch[j][t]
  <1>1. watch \in [Runs -> [Streams -> WatchStates]]
    BY DEF TypeOK, WatchStates
  <1>2. watch' = [watch EXCEPT ![i] = [watch[i] EXCEPT ![s] = pc]]
    BY DEF WatchGoto
  <1>3. [watch[i] EXCEPT ![s] = pc] \in [Streams -> WatchStates]
    BY <1>1
  <1> QED BY <1>1, <1>2, <1>3

\* The job of run i ends and all handlers of its event are queued.
LEMMA DieEffect ==
  ASSUME TypeOK, NEW i \in Runs, NEW left \in {"absent", "dead"}, Die(i, left)
  PROVE  /\ box[i] = "up"
         /\ box' \in [Runs -> {"absent", "up", "dead"}]
         /\ exit' \in [Runs -> {"none", "ok", "bad"}]
         /\ watch' \in [Runs -> [Streams -> WatchStates]]
         /\ box'[i] = left /\ exit'[i] # "none"
         /\ \A s \in Streams : watch'[i][s] = "heard"
         /\ \A j \in Runs \ {i} : /\ box'[j] = box[j] /\ exit'[j] = exit[j]
                                  /\ watch'[j] = watch[j]
  <1>1. PICK c \in {"ok", "bad"} : exit' = [exit EXCEPT ![i] = c]
    BY DEF Die
  <1>2. [s \in Streams |-> "heard"] \in [Streams -> WatchStates]
    BY DEF WatchStates
  <1>3. watch \in [Runs -> [Streams -> WatchStates]]
    BY DEF TypeOK, WatchStates
  <1>4. watch' = [watch EXCEPT ![i] = [s \in Streams |-> "heard"]]
    BY DEF Die
  <1>5. watch' \in [Runs -> [Streams -> WatchStates]]
    BY <1>2, <1>3, <1>4
  <1>6. \A s \in Streams : watch'[i][s] = "heard"
    BY <1>3, <1>4
  <1>7. \A j \in Runs \ {i} : watch'[j] = watch[j]
    BY <1>3, <1>4
  <1> QED BY <1>1, <1>5, <1>6, <1>7 DEF Die, TypeOK

\* What stopping and removing a container may do to it and to its event.
LEMMA RemoveEffect ==
  ASSUME TypeOK, NEW i \in Runs, StopAndRemove(i)
  PROVE  /\ box' \in [Runs -> {"absent", "up", "dead"}]
         /\ exit' \in [Runs -> {"none", "ok", "bad"}]
         /\ watch' \in [Runs -> [Streams -> WatchStates]]
         /\ box'[i] = "absent"
         /\ \A j \in Runs \ {i} : /\ box'[j] = box[j] /\ exit'[j] = exit[j]
                                  /\ watch'[j] = watch[j]
         /\ \/ /\ box[i] = "up" /\ exit'[i] # "none"
               /\ \A s \in Streams : watch'[i][s] = "heard"
            \/ exit' = exit /\ watch' = watch
  <1>1. CASE Die(i, "absent")
    BY <1>1, DieEffect
  <1>2. CASE ~Die(i, "absent")
    BY <1>2 DEF StopAndRemove, TypeOK, WatchStates
  <1> QED BY <1>1, <1>2

LEMMA SpawningType ==
  ASSUME Typed, NEW i \in Runs, Spawning(i)
  PROVE  Typed'
  <1>1. ~(i > made)
    BY Born DEF Spawning, Resolve, Start, Poll, SpawnFails, Land
  <1>2. TypeOK'
    <2>1. CASE Resolve(i)
      BY <2>1 DEF Typed, TypeOK, Resolve, SpawnGoto, row
    <2>2. CASE Start(i)
      BY <2>2 DEF Typed, TypeOK, Start, SpawnGoto, row
    <2>3. CASE Poll(i)
      BY <2>3 DEF Typed, TypeOK, Poll, SpawnGoto, row
    <2>4. CASE SpawnFails(i)
      BY <2>4 DEF Typed, TypeOK, SpawnFails, SpawnGoto
    <2>5. CASE Land(i)
      <3>1. PICK x \in Active \cup Verdicts \cup {"none", "error", "stopped"} :
              status' = [status EXCEPT ![i] = x]
        BY <2>5 DEF Typed, TypeOK, Land, Active
      <3> QED BY <2>5, <3>1 DEF Typed, TypeOK, Land, SpawnGoto
    <2> QED BY <2>1, <2>2, <2>3, <2>4, <2>5 DEF Spawning
  <1>3. /\ UNCHANGED <<made, attempt, exit, timer, published, reap, watch>>
        /\ \A j \in Runs \ {i} : /\ status'[j] = status[j]
                                 /\ spawn'[j] = spawn[j] /\ box'[j] = box[j]
    BY DEF Spawning, Resolve, Start, Poll, SpawnFails, Land, SpawnGoto, row,
           Typed, TypeOK
  <1>4. InBudget'
    BY <1>3 DEF Typed, InBudget
  <1>5. Unborn'
    BY <1>1, <1>3 DEF Typed, Unborn
  <1> QED BY <1>2, <1>4, <1>5 DEF Typed

LEMMA WatchingType ==
  ASSUME Typed, NEW i \in Runs, NEW s \in Streams, Watching(i, s)
  PROVE  Typed'
  <1>1. ~(i > made)
    BY Born DEF Watching, Hear, Finalise, Publish
  <1>2. PICK pc \in WatchStates : WatchGoto(i, s, pc)
    BY DEF Watching, Hear, Finalise, Publish, WatchStates
  <1>3. /\ watch' \in [Runs -> [Streams -> WatchStates]]
        /\ \A j \in Runs \ {i} : \A t \in Streams : watch'[j][t] = watch[j][t]
    BY <1>2, WatchMoves DEF Typed
  <1>4. status' \in [Runs -> Active \cup Verdicts
                               \cup {"none", "error", "stopped"}]
    <2>1. CASE Finalise(i, s)
      BY <2>1 DEF Typed, TypeOK, Finalise, Verdicts
    <2>2. CASE ~Finalise(i, s)
      BY <2>2 DEF Watching, Hear, Publish, row, Typed, TypeOK
    <2> QED BY <2>1, <2>2
  <1>5. timer' \in [Runs -> Nat] /\ published' \in [Runs -> Nat]
    BY DEF Watching, Hear, Finalise, Publish, Typed, TypeOK
  <1>6. /\ UNCHANGED <<made, origin, attempt, box, exit, spawn, reap, stop,
                       stopping, stops, restarts>>
        /\ \A j \in Runs \ {i} : /\ status'[j] = status[j]
                                 /\ timer'[j] = timer[j]
                                 /\ published'[j] = published[j]
        /\ timer'[i] > 0 => timer[i] > 0 \/ attempt[i] + 1 <= Retries
    BY DEF Watching, Hear, Finalise, Publish, RetryDue, row, Typed, TypeOK
  <1>7. TypeOK'
    BY <1>3, <1>4, <1>5, <1>6 DEF Typed, TypeOK, WatchStates
  <1>8. InBudget'
    BY <1>6 DEF Typed, InBudget
  <1>9. Unborn'
    BY <1>1, <1>3, <1>6 DEF Typed, Unborn
  <1> QED BY <1>7, <1>8, <1>9 DEF Typed

\* Removing a container concerns a run that has one, or changes nothing.
LEMMA RemoveUnborn ==
  ASSUME Typed, NEW i \in Runs, StopAndRemove(i),
         UNCHANGED <<made, status, spawn, timer, published>>,
         \A j \in Runs : reap'[j] = reap[j] \/ reap'[j] = "none"
  PROVE  Unborn'
  <1>1. /\ box'[i] = "absent"
        /\ \A j \in Runs \ {i} : /\ box'[j] = box[j] /\ exit'[j] = exit[j]
                                 /\ watch'[j] = watch[j]
        /\ box[i] = "up" \/ (exit' = exit /\ watch' = watch)
    BY RemoveEffect DEF Typed
  <1>2. box[i] = "up" => ~(i > made)
    BY Born
  <1> QED BY <1>1, <1>2 DEF Typed, Unborn

LEMMA ReapingType ==
  ASSUME Typed, NEW i \in Runs, Reaping(i)
  PROVE  Typed'
  <1>1. CASE StuckRead(i) \/ KillRead(i) \/ KillFails(i)
    <2>0. /\ UNCHANGED <<made, status, origin, attempt, box, exit, spawn, watch,
                         timer, published, stop, stopping, stops, restarts>>
          /\ reap' \in [Runs -> {"none", "stuck", "kill"}]
      BY <1>1 DEF Typed, TypeOK, StuckRead, KillRead, KillFails, row
    <2>1. TypeOK'
      BY <2>0 DEF Typed, TypeOK
    <2>2. ~(i > made)
      BY <1>1, Born DEF StuckRead, KillRead, KillFails
    <2>3. /\ UNCHANGED <<row, box, exit, spawn, watch, timer, published>>
          /\ \A j \in Runs \ {i} : reap'[j] = reap[j]
      BY <1>1 DEF Typed, TypeOK, StuckRead, KillRead, KillFails
    <2> QED BY <2>1, <2>2, <2>3 DEF Typed, InBudget, Unborn, row
  <1>2. CASE StuckMark(i)
    <2>1. TypeOK'
      BY <1>2 DEF Typed, TypeOK, StuckMark
    <2>2. ~(i > made)
      BY <1>2, Born DEF StuckMark
    <2>3. /\ UNCHANGED <<made, attempt, box, exit, spawn, watch, timer,
                         published>>
          /\ \A j \in Runs \ {i} : reap'[j] = reap[j] /\ status'[j] = status[j]
      BY <1>2 DEF Typed, TypeOK, StuckMark
    <2> QED BY <2>1, <2>2, <2>3 DEF Typed, InBudget, Unborn
  <1>3. CASE KillStop(i)
    <2>1. TypeOK'
      BY <1>3, RemoveEffect DEF Typed, TypeOK, KillStop, row, WatchStates
    <2>2. Unborn'
      BY <1>3, RemoveUnborn DEF KillStop, row, Typed, TypeOK
    <2> QED BY <1>3, <2>1, <2>2 DEF Typed, InBudget, KillStop, row
  <1> QED BY <1>1, <1>2, <1>3 DEF Reaping

LEMMA StoppingType ==
  ASSUME Typed, StopList \/ StopMark \/ \E i \in Runs : StopOne(i)
  PROVE  Typed'
  <1>1. CASE StopList
    BY <1>1 DEF Typed, TypeOK, InBudget, Unborn, StopList, row
  <1>2. CASE StopMark
    <2>1. TypeOK'
      BY <1>2 DEF Typed, TypeOK, StopMark
    <2>2. \A j \in Runs : status[j] = "none" => status'[j] = "none"
      BY <1>2 DEF StopMark, Active
    <2> QED BY <1>2, <2>1, <2>2 DEF Typed, InBudget, Unborn, StopMark
  <1>3. ASSUME NEW i \in Runs, StopOne(i)
        PROVE  Typed'
    <2>1. CASE StopAndRemove(i)
      <3>1. TypeOK'
        BY <1>3, <2>1, RemoveEffect DEF Typed, TypeOK, StopOne, row,
                                        WatchStates
      <3>2. Unborn'
        BY <1>3, <2>1, RemoveUnborn DEF StopOne, row
      <3> QED BY <1>3, <3>1, <3>2 DEF Typed, InBudget, StopOne, row
    <2>2. CASE ~StopAndRemove(i)
      BY <1>3, <2>2 DEF Typed, TypeOK, InBudget, Unborn, StopOne, row
    <2> QED BY <2>1, <2>2
  <1> QED BY <1>1, <1>2, <1>3

\* The timer of a retry goes off for a run that has one.
LEMMA RetryEffect ==
  ASSUME Typed, NEW i \in Runs, Retry(i)
  PROVE  /\ timer' \in [Runs -> Nat]
         /\ timer[i] > 0 /\ timer'[i] = timer[i] - 1
         /\ i <= made /\ made \in Nat
         /\ \A j \in Runs \ {i} : timer'[j] = timer[j]
         /\ origin[i] \in Runs /\ attempt[i] + 1 \in 0..Retries
         /\ UNCHANGED <<box, exit, watch, published, reap, stop, stopping,
                        stops, restarts>>
         /\ Reserve(origin[i], attempt[i] + 1) \/ UNCHANGED <<row, spawn>>
  <1>1. timer[i] > 0 /\ timer' = [timer EXCEPT ![i] = @ - 1]
    BY DEF Retry
  <1>2. timer[i] \in Nat /\ timer \in [Runs -> Nat]
    BY DEF Typed, TypeOK
  <1>3. timer[i] - 1 \in Nat
    BY <1>1, <1>2
  <1>4. attempt[i] \in Nat /\ attempt[i] + 1 <= Retries /\ origin[i] \in Runs
    BY <1>1 DEF Typed, TypeOK, InBudget
  <1>5. i <= made /\ made \in Nat
    BY <1>1, Born
  <1> QED BY <1>1, <1>2, <1>3, <1>4, <1>5 DEF Retry

LEMMA ReserveTyped ==
  ASSUME Typed, NEW o \in Runs, NEW a \in 0..Retries, Reserve(o, a),
         timer' \in [Runs -> Nat], \A j \in Runs : timer'[j] <= timer[j],
         UNCHANGED <<box, exit, watch, published, reap, stop, stopping,
                     stops, restarts>>
  PROVE  Typed'
  <1> DEFINE n == made + 1
  <1>1. /\ n \in Runs /\ made' = n /\ made \in Nat
        /\ \A i \in Runs \ {n} :
             /\ status'[i] = status[i] /\ attempt'[i] = attempt[i]
             /\ spawn'[i] = spawn[i]
    BY ReserveType
  <1>2. TypeOK'
    <2>1. made' \in 0..MaxRuns
      BY <1>1 DEF Runs
    <2>2. /\ status' \in [Runs -> Active \cup Verdicts
                                   \cup {"none", "error", "stopped"}]
          /\ origin' \in [Runs -> Runs] /\ attempt' \in [Runs -> 0..Retries]
          /\ spawn' \in [Runs -> {"none", "resolving", "creating", "polling",
                                  "found"}]
      BY ReserveType
    <2> QED BY <2>1, <2>2 DEF Typed, TypeOK
  <1>3. timer'[n] = 0 /\ \A j \in Runs : timer[j] = 0 => timer'[j] = 0
    <2>1. \A j \in Runs : timer[j] \in Nat /\ timer'[j] \in Nat
      BY DEF Typed, TypeOK
    <2>2. n > made /\ n \in Runs
      BY <1>1
    <2>3. timer[n] = 0
      BY <2>2 DEF Typed, Unborn
    <2> HIDE DEF n
    <2> QED BY <2>1, <2>2, <2>3
  <1>4. InBudget'
    <2>1. \A j \in Runs : timer[j] \in Nat /\ timer'[j] \in Nat
      BY DEF Typed, TypeOK
    <2>2. \A j \in Runs : timer'[j] > 0 => timer[j] > 0
      BY <2>1
    <2> HIDE DEF n
    <2> QED BY <1>1, <1>3, <2>2 DEF Typed, InBudget
  <1>5. Unborn'
    <2>1. \A j \in Runs : j > made' => j > made /\ j # n
      BY <1>1 DEF Runs
    <2> HIDE DEF n
    <2> QED BY <1>1, <1>3, <2>1 DEF Typed, Unborn
  <1> QED BY <1>2, <1>4, <1>5 DEF Typed

LEMMA TriggerType ==
  ASSUME Typed, Trigger \/ \E i \in Runs : Retry(i)
  PROVE  Typed'
  <1>1. CASE Trigger
    <2>1. made + 1 \in Runs /\ 0 \in 0..Retries
      BY <1>1 DEF Trigger, Reserve, Typed, TypeOK, Runs
    <2>2. timer' = timer /\ timer \in [Runs -> Nat]
      BY <1>1 DEF Trigger, Typed, TypeOK
    <2>3. \A j \in Runs : timer'[j] <= timer[j]
      BY <2>2
    <2> QED BY <1>1, <2>1, <2>2, <2>3, ReserveTyped DEF Trigger
  <1>2. ASSUME NEW i \in Runs, Retry(i)
        PROVE  Typed'
    <2>1. \A j \in Runs : timer'[j] <= timer[j]
      <3>1. timer[i] \in Nat /\ \A j \in Runs : timer[j] \in Nat
        BY DEF Typed, TypeOK
      <3> QED BY <1>2, <3>1, RetryEffect
    <2>2. CASE Reserve(origin[i], attempt[i] + 1)
      BY <1>2, <2>1, <2>2, RetryEffect, ReserveTyped
    <2>3. CASE UNCHANGED <<row, spawn>>
      BY <1>2, <2>1, <2>3, RetryEffect
         DEF row, Typed, TypeOK, InBudget, Unborn
    <2> QED BY <1>2, <2>2, <2>3, RetryEffect
  <1> QED BY <1>1, <1>2

LEMMA OthersType ==
  ASSUME Typed, (\E i \in Runs : JobEnds(i)) \/ ServerRestart
  PROVE  Typed'
  <1>1. ASSUME NEW i \in Runs, JobEnds(i)
        PROVE  Typed'
    <2>1. /\ box[i] = "up"
          /\ box' \in [Runs -> {"absent", "up", "dead"}]
          /\ exit' \in [Runs -> {"none", "ok", "bad"}]
          /\ watch' \in [Runs -> [Streams -> WatchStates]]
          /\ \A j \in Runs \ {i} : /\ box'[j] = box[j] /\ exit'[j] = exit[j]
                                   /\ watch'[j] = watch[j]
      BY <1>1, DieEffect DEF JobEnds, Typed
    <2>2. ~(i > made)
      BY <2>1, Born
    <2>3. TypeOK'
      BY <1>1, <2>1 DEF JobEnds, row, Typed, TypeOK, WatchStates
    <2>4. InBudget' /\ Unborn'
      BY <1>1, <2>1, <2>2 DEF JobEnds, row, Typed, InBudget, Unborn
    <2> QED BY <2>3, <2>4 DEF Typed
  <1>2. CASE ServerRestart
    <2>1. PICK ended \in SUBSET {i \in Runs : box[i] = "up"} :
            /\ box' = [i \in Runs |-> IF i \in ended THEN "dead" ELSE box[i]]
            /\ watch' = [i \in Runs |-> [s \in Streams |->
                 IF i \in ended \/ watch[i][s] \in {"heard", "read", "written"}
                   THEN "lost" ELSE watch[i][s]]]
      BY <1>2 DEF ServerRestart
    <2>2. /\ box' \in [Runs -> {"absent", "up", "dead"}]
          /\ watch' \in [Runs -> [Streams -> WatchStates]]
      BY <2>1 DEF Typed, TypeOK, WatchStates
    <2>3. TypeOK'
      <3>1. /\ spawn' = [i \in Runs |-> "none"]
            /\ timer' = [i \in Runs |-> 0]
            /\ reap' = [i \in Runs |-> "none"]
            /\ stop' = {} /\ stopping' = FALSE
            /\ restarts < MaxRestarts /\ restarts' = restarts + 1
            /\ UNCHANGED <<row, exit, published, stops>>
        BY <1>2 DEF ServerRestart
      <3>2. restarts' \in 0..MaxRestarts
        BY <3>1 DEF Typed, TypeOK
      <3>3. /\ spawn' \in [Runs -> {"none", "resolving", "creating",
                                     "polling", "found"}]
            /\ timer' \in [Runs -> Nat]
            /\ reap' \in [Runs -> {"none", "stuck", "kill"}]
            /\ stop' \in SUBSET Runs /\ stopping' \in BOOLEAN
        BY <3>1
      <3> HIDE <3>1
      <3> QED BY <1>2, <2>2, <3>2, <3>3
              DEF Typed, TypeOK, ServerRestart, row, WatchStates
    <2>4. Unborn'
      BY <1>2, <2>1 DEF Typed, Unborn, ServerRestart, row, TypeOK
    <2>5. InBudget'
      BY <1>2 DEF InBudget, ServerRestart
    <2> QED BY <2>3, <2>4, <2>5 DEF Typed
  <1> QED BY <1>1, <1>2

LEMMA TypedInit ==
  ASSUME Init
  PROVE  Typed
  <1>1. TypeOK
    <2>1. [s \in Streams |-> "quiet"] \in [Streams -> WatchStates]
      BY DEF WatchStates
    <2>2. watch \in [Runs -> [Streams -> WatchStates]]
      BY <2>1 DEF Init
    <2>3. origin \in [Runs -> Runs] /\ attempt \in [Runs -> 0..Retries]
      BY DEF Init
    <2>4. /\ status \in [Runs -> Active \cup Verdicts
                                   \cup {"none", "error", "stopped"}]
          /\ timer \in [Runs -> Nat] /\ published \in [Runs -> Nat]
          /\ made \in 0..MaxRuns /\ stops \in 0..MaxStops
          /\ restarts \in 0..MaxRestarts
      BY DEF Init
    <2>5. /\ box \in [Runs -> {"absent", "up", "dead"}]
          /\ exit \in [Runs -> {"none", "ok", "bad"}]
          /\ spawn \in [Runs -> {"none", "resolving", "creating", "polling",
                                 "found"}]
          /\ reap \in [Runs -> {"none", "stuck", "kill"}]
          /\ stop \in SUBSET Runs /\ stopping \in BOOLEAN
      BY DEF Init
    <2> QED BY <2>2, <2>3, <2>4, <2>5 DEF TypeOK, WatchStates
  <1> QED BY <1>1 DEF Init, Typed, InBudget, Unborn

LEMMA TypedInductive ==
  ASSUME Typed, [Next]_vars
  PROVE  Typed'
  <1>1. CASE UNCHANGED vars
    BY <1>1 DEF vars, row, server, Typed, TypeOK, InBudget, Unborn
  <1> QED BY <1>1, SpawningType, WatchingType, ReapingType, StoppingType,
             TriggerType, OthersType DEF Next

LEMMA TypedAlways == Spec => []Typed
  BY TypedInit, TypedInductive, PTL DEF Spec

\* Every variable keeps to its type; in particular no container is ever
\* labelled with an attempt beyond onFailure.retries.
THEOREM TypeCorrect == Spec => []TypeOK
  <1>1. Typed => TypeOK
    BY DEF Typed
  <1> QED BY <1>1, TypedAlways, PTL

-----------------------------------------------------------------------------
(* The cap *)

\* Only a reservation, made under the cap, makes a row active.
LEMMA OthersOnlyEnd ==
  ASSUME Typed, [Next]_vars, ~Trigger, ~ \E i \in Runs : Retry(i)
  PROVE  /\ made' = made
         /\ \A i \in Runs : status'[i] \in Active => status[i] \in Active
  <1>1. ASSUME NEW i \in Runs, Spawning(i)
        PROVE  made' = made
               /\ \A j \in Runs : status'[j] \in Active => status[j] \in Active
    <2>1. CASE Land(i)
      BY <2>1 DEF Land, Typed, TypeOK, Active
    <2>2. CASE SpawnFails(i)
      BY <2>2 DEF SpawnFails, Typed, TypeOK, Active
    <2>3. CASE ~Land(i) /\ ~SpawnFails(i)
      BY <1>1, <2>3 DEF Spawning, Resolve, Start, Poll, row
    <2> QED BY <2>1, <2>2, <2>3
  <1>2. ASSUME NEW i \in Runs, NEW s \in Streams, Watching(i, s)
        PROVE  made' = made
               /\ \A j \in Runs : status'[j] \in Active => status[j] \in Active
    <2>1. CASE Finalise(i, s)
      BY <2>1 DEF Finalise, Typed, TypeOK, Active
    <2>2. CASE ~Finalise(i, s)
      BY <1>2, <2>2 DEF Watching, Hear, Publish, row
    <2> QED BY <2>1, <2>2
  <1>3. ASSUME NEW i \in Runs, Reaping(i)
        PROVE  made' = made
               /\ \A j \in Runs : status'[j] \in Active => status[j] \in Active
    <2>1. CASE StuckMark(i)
      BY <2>1 DEF StuckMark, Typed, TypeOK, Active
    <2>2. CASE ~StuckMark(i)
      BY <1>3, <2>2 DEF Reaping, StuckRead, KillRead, KillStop, KillFails, row
    <2> QED BY <2>1, <2>2
  <1>4. ASSUME NEW i \in Runs, StopOne(i) \/ JobEnds(i)
        PROVE  UNCHANGED <<made, status>>
    BY <1>4 DEF StopOne, JobEnds, row
  <1>5. CASE StopMark
    BY <1>5 DEF StopMark, Active
  <1>6. CASE StopList \/ ServerRestart \/ UNCHANGED vars
    BY <1>6 DEF StopList, ServerRestart, vars, row
  <1> QED BY <1>1, <1>2, <1>3, <1>4, <1>5, <1>6 DEF Next

LEMMA ActiveAreRuns ==
  ASSUME Typed
  PROVE  /\ Existing \subseteq Runs /\ ActiveRuns \subseteq Runs
         /\ IsFiniteSet(ActiveRuns) /\ Cardinality(ActiveRuns) \in Nat
  <1>1. Existing \subseteq Runs /\ ActiveRuns \subseteq Runs
    BY DEF Typed, TypeOK, Existing, ActiveRuns, Runs
  <1>2. IsFiniteSet(Runs)
    BY FS_Interval DEF Runs
  <1> QED BY <1>1, <1>2, FS_Subset, FS_CardinalityType

\* A reservation adds one row to the active ones.
LEMMA ReserveAdds ==
  ASSUME Typed, NEW o \in Runs, NEW a \in 0..Retries, Reserve(o, a)
  PROVE  /\ ActiveRuns' \subseteq ActiveRuns \cup {made + 1}
         /\ Cardinality(ActiveRuns) < MaxConcurrent
  <1>1. /\ made' = made + 1 /\ made \in Nat /\ made + 1 \in Runs
        /\ \A i \in Runs \ {made + 1} : status'[i] = status[i]
    BY ReserveType
  <1>2. Existing' \subseteq Existing \cup {made + 1}
    BY <1>1 DEF Existing
  <1> QED BY <1>1, <1>2, ActiveAreRuns DEF ActiveRuns, Reserve

LEMMA ActiveStep ==
  ASSUME Typed, [Next]_vars
  PROVE  \/ ActiveRuns' \subseteq ActiveRuns
         \/ /\ ActiveRuns' \subseteq ActiveRuns \cup {made + 1}
            /\ Cardinality(ActiveRuns) < MaxConcurrent
  <1>1. CASE Trigger
    <2>1. made + 1 \in Runs /\ 0 \in 0..Retries
      BY <1>1 DEF Trigger, Reserve, Typed, TypeOK, Runs
    <2> QED BY <1>1, <2>1, ReserveAdds DEF Trigger
  <1>2. ASSUME NEW i \in Runs, Retry(i)
        PROVE  \/ ActiveRuns' \subseteq ActiveRuns
               \/ /\ ActiveRuns' \subseteq ActiveRuns \cup {made + 1}
                  /\ Cardinality(ActiveRuns) < MaxConcurrent
    <2>1. CASE Reserve(origin[i], attempt[i] + 1)
      BY <1>2, <2>1, RetryEffect, ReserveAdds
    <2>2. CASE UNCHANGED <<row, spawn>>
      BY <2>2 DEF row, ActiveRuns, Existing
    <2> QED BY <1>2, <2>1, <2>2, RetryEffect
  <1>3. CASE ~Trigger /\ ~ \E i \in Runs : Retry(i)
    <2>1. /\ made' = made
          /\ \A i \in Runs : status'[i] \in Active => status[i] \in Active
      BY <1>3, OthersOnlyEnd
    <2> QED BY <2>1, ActiveAreRuns DEF ActiveRuns, Existing
  <1> QED BY <1>1, <1>2, <1>3

\* The count taken in the reserving transaction holds for good: nothing else
\* gives a row a slot, neither a late spawn nor a late verdict.
THEOREM Cap == Spec => []CapRespected
  <1>1. Init => CapRespected
    <2>1. Init => ActiveRuns = {}
      BY DEF Init, ActiveRuns, Existing
    <2> QED BY <2>1, FS_EmptySet DEF CapRespected
  <1>2. Typed /\ CapRespected /\ [Next]_vars => CapRespected'
    <2> SUFFICES ASSUME Typed, CapRespected, [Next]_vars
                 PROVE  CapRespected'
      OBVIOUS
    <2>1. /\ IsFiniteSet(ActiveRuns) /\ Cardinality(ActiveRuns) \in Nat
      BY ActiveAreRuns
    <2>2. CASE ActiveRuns' \subseteq ActiveRuns
      <3>1. /\ Cardinality(ActiveRuns') <= Cardinality(ActiveRuns)
            /\ Cardinality(ActiveRuns') \in Nat
        BY <2>1, <2>2, FS_Subset, FS_CardinalityType
      <3> QED BY <2>1, <3>1 DEF CapRespected
    <2>3. CASE /\ ActiveRuns' \subseteq ActiveRuns \cup {made + 1}
               /\ Cardinality(ActiveRuns) < MaxConcurrent
      <3>1. /\ IsFiniteSet(ActiveRuns \cup {made + 1})
            /\ Cardinality(ActiveRuns \cup {made + 1}) \in
                 {Cardinality(ActiveRuns), Cardinality(ActiveRuns) + 1}
        BY <2>1, FS_AddElement, Zenon
      <3>2. /\ Cardinality(ActiveRuns') <= Cardinality(ActiveRuns \cup {made + 1})
            /\ Cardinality(ActiveRuns') \in Nat
        BY <2>3, <3>1, FS_Subset, FS_CardinalityType
      <3> QED BY <2>1, <2>3, <3>1, <3>2 DEF CapRespected
    <2> QED BY <2>2, <2>3, ActiveStep
  <1> QED BY <1>1, <1>2, TypedAlways, PTL DEF Spec

-----------------------------------------------------------------------------
(* A job ends once, and its verdict stands *)

Quiet(i) == \A s \in Streams : watch[i][s] = "quiet"
Heard == {"heard", "read", "written"}

\* A container comes up once; its die event is about its one end, and a
\* verdict says how that was.
EndsOnce ==
  \A i \in Runs :
    /\ spawn[i] \in {"resolving", "creating"}
         => box[i] = "absent" /\ exit[i] = "none" /\ Quiet(i)
    /\ box[i] = "up" => exit[i] = "none" /\ Quiet(i)
    /\ (\E s \in Streams : watch[i][s] \in Heard) => exit[i] # "none"
    /\ status[i] = "completed" => exit[i] = "ok"
    /\ status[i] = "failed" => exit[i] = "bad"

LEMMA EndsRemove ==
  ASSUME Typed, EndsOnce, NEW i \in Runs, StopAndRemove(i),
         UNCHANGED <<spawn, status>>
  PROVE  EndsOnce'
  <1>1. /\ box'[i] = "absent"
        /\ \A j \in Runs \ {i} : /\ box'[j] = box[j] /\ exit'[j] = exit[j]
                                 /\ watch'[j] = watch[j]
        /\ \/ box[i] = "up" /\ exit'[i] # "none"
           \/ exit' = exit /\ watch' = watch
    BY RemoveEffect DEF Typed
  <1>2. CASE box[i] = "up" /\ exit'[i] # "none"
    <2>1. /\ exit[i] = "none" /\ spawn[i] \notin {"resolving", "creating"}
          /\ status[i] \notin Verdicts
      BY <1>2 DEF EndsOnce, Verdicts
    <2> QED BY <1>1, <1>2, <2>1 DEF EndsOnce, Quiet, Verdicts
  <1>3. CASE exit' = exit /\ watch' = watch
    BY <1>1, <1>3 DEF EndsOnce, Quiet
  <1> QED BY <1>1, <1>2, <1>3

LEMMA EndsSpawning ==
  ASSUME Typed, EndsOnce, NEW i \in Runs, Spawning(i)
  PROVE  EndsOnce'
  <1>1. /\ UNCHANGED <<exit, watch>>
        /\ \A j \in Runs \ {i} : /\ status'[j] = status[j]
                                 /\ spawn'[j] = spawn[j] /\ box'[j] = box[j]
    BY DEF Spawning, Resolve, Start, Poll, SpawnFails, Land, SpawnGoto, row,
           Typed, TypeOK
  <1>2. CASE Resolve(i)
    <2>1. spawn'[i] = "creating" /\ status' = status /\ box' = box
      BY <1>2 DEF Resolve, SpawnGoto, row, Typed, TypeOK
    <2> QED BY <1>1, <1>2, <2>1 DEF EndsOnce, Quiet, Resolve
  <1>3. CASE Start(i)
    <2>1. spawn'[i] = "polling" /\ status' = status /\ box'[i] = "up"
      BY <1>3 DEF Start, SpawnGoto, row, Typed, TypeOK
    <2> QED BY <1>1, <1>3, <2>1 DEF EndsOnce, Quiet, Start
  <1>4. CASE Poll(i) \/ SpawnFails(i) \/ Land(i)
    <2>1. /\ spawn'[i] \in {"found", "none"} /\ box' = box
          /\ status'[i] \in {status[i], "error", "running"}
      BY <1>4 DEF Poll, SpawnFails, Land, SpawnGoto, row, Typed, TypeOK
    <2> QED BY <1>1, <2>1 DEF EndsOnce, Quiet
  <1> QED BY <1>2, <1>3, <1>4 DEF Spawning

LEMMA EndsWatching ==
  ASSUME Typed, EndsOnce, NEW i \in Runs, NEW s \in Streams, Watching(i, s)
  PROVE  EndsOnce'
  <1>1. PICK pc \in WatchStates : WatchGoto(i, s, pc)
    BY DEF Watching, Hear, Finalise, Publish, WatchStates
  <1>2. \A j \in Runs, t \in Streams :
          <<j, t>> # <<i, s>> => watch'[j][t] = watch[j][t]
    BY <1>1, WatchMoves DEF Typed
  <1>3. UNCHANGED <<box, exit, spawn>>
    BY DEF Watching, Hear, Finalise, Publish
  <1>4. /\ watch[i][s] \in Heard
        /\ exit[i] # "none" /\ box[i] # "up"
        /\ spawn[i] \notin {"resolving", "creating"}
    <2>1. watch[i][s] \in Heard
      BY DEF Watching, Hear, Finalise, Publish, Heard
    <2> QED BY <2>1 DEF EndsOnce
  <1>5. exit[i] \in {"ok", "bad"}
    BY <1>4 DEF Typed, TypeOK
  <1>6. /\ \A j \in Runs \ {i} : status'[j] = status[j]
        /\ \/ status'[i] = status[i]
           \/ status'[i] = IF exit[i] = "ok" THEN "completed" ELSE "failed"
    BY DEF Watching, Hear, Finalise, Publish, row, Typed, TypeOK
  <1> QED BY <1>2, <1>3, <1>4, <1>5, <1>6 DEF EndsOnce, Quiet, Heard

LEMMA EndsReserve ==
  ASSUME Typed, EndsOnce, NEW o \in Runs, NEW a \in 0..Retries, Reserve(o, a),
         UNCHANGED <<box, exit, watch>>
  PROVE  EndsOnce'
  <1> DEFINE n == made + 1
  <1>1. /\ n \in Runs /\ made \in Nat
        /\ status'[n] = "starting" /\ spawn'[n] = "resolving"
        /\ \A i \in Runs \ {n} : status'[i] = status[i] /\ spawn'[i] = spawn[i]
    BY ReserveType
  <1>2. box[n] = "absent" /\ exit[n] = "none" /\ Quiet(n)
    <2>1. n > made /\ n \in Runs
      BY <1>1
    <2> HIDE DEF n
    <2> QED BY <2>1 DEF Typed, Unborn, Quiet
  <1> HIDE DEF n
  <1> QED BY <1>1, <1>2 DEF EndsOnce, Quiet

LEMMA EndsInductive ==
  ASSUME Typed, EndsOnce, [Next]_vars
  PROVE  EndsOnce'
  <1>1. CASE Trigger
    <2>1. made + 1 \in Runs /\ 0 \in 0..Retries
      BY <1>1 DEF Trigger, Reserve, Typed, TypeOK, Runs
    <2> QED BY <1>1, <2>1, EndsReserve DEF Trigger
  <1>2. ASSUME NEW i \in Runs, Retry(i)
        PROVE  EndsOnce'
    <2>1. CASE Reserve(origin[i], attempt[i] + 1)
      BY <1>2, <2>1, RetryEffect, EndsReserve
    <2>2. CASE UNCHANGED <<row, spawn>>
      BY <1>2, <2>2, RetryEffect DEF row, EndsOnce, Quiet
    <2> QED BY <1>2, <2>1, <2>2, RetryEffect
  <1>3. ASSUME NEW i \in Runs, JobEnds(i)
        PROVE  EndsOnce'
    <2>1. /\ box[i] = "up" /\ box'[i] = "dead" /\ exit'[i] # "none"
          /\ \A j \in Runs \ {i} : /\ box'[j] = box[j] /\ exit'[j] = exit[j]
                                   /\ watch'[j] = watch[j]
      BY <1>3, DieEffect DEF JobEnds, Typed
    <2>2. /\ exit[i] = "none" /\ spawn[i] \notin {"resolving", "creating"}
          /\ status[i] \notin Verdicts
      BY <2>1 DEF EndsOnce, Verdicts
    <2> QED BY <1>3, <2>1, <2>2 DEF JobEnds, row, EndsOnce, Quiet, Verdicts
  <1>4. ASSUME NEW i \in Runs, Reaping(i)
        PROVE  EndsOnce'
    <2>1. CASE KillStop(i)
      BY <2>1, EndsRemove DEF KillStop, row
    <2>2. CASE StuckMark(i)
      BY <2>2 DEF StuckMark, EndsOnce, Quiet, Typed, TypeOK
    <2>3. CASE StuckRead(i) \/ KillRead(i) \/ KillFails(i)
      BY <2>3 DEF StuckRead, KillRead, KillFails, row, EndsOnce, Quiet
    <2> QED BY <1>4, <2>1, <2>2, <2>3 DEF Reaping
  <1>5. ASSUME NEW i \in Runs, StopOne(i)
        PROVE  EndsOnce'
    <2>1. CASE StopAndRemove(i)
      BY <1>5, <2>1, EndsRemove DEF StopOne, row
    <2>2. CASE ~StopAndRemove(i)
      BY <1>5, <2>2 DEF StopOne, row, EndsOnce, Quiet
    <2> QED BY <2>1, <2>2
  <1>6. CASE StopMark
    <2>1. \A i \in Runs : status'[i] \in {status[i], "stopped"}
      BY <1>6 DEF StopMark
    <2> QED BY <1>6, <2>1 DEF StopMark, EndsOnce, Quiet
  <1>7. CASE StopList \/ UNCHANGED vars
    BY <1>7 DEF StopList, vars, row, server, EndsOnce, Quiet
  <1>8. CASE ServerRestart
    <2>1. PICK ended \in SUBSET {i \in Runs : box[i] = "up"} :
            /\ box' = [i \in Runs |-> IF i \in ended THEN "dead" ELSE box[i]]
            /\ watch' = [i \in Runs |-> [s \in Streams |->
                 IF i \in ended \/ watch[i][s] \in {"heard", "read", "written"}
                   THEN "lost" ELSE watch[i][s]]]
      BY <1>8 DEF ServerRestart
    <2>2. /\ UNCHANGED <<status, exit>>
          /\ \A i \in Runs : spawn'[i] = "none"
      BY <1>8 DEF ServerRestart, row
    <2>3. \A i \in Runs : box'[i] = "up" => box[i] = "up" /\ i \notin ended
      BY <2>1
    <2>4. \A i \in Runs : \A s \in Streams : watch'[i][s] \notin Heard
      BY <2>1 DEF Heard
    <2>5. \A i \in Runs : i \notin ended /\ Quiet(i) => Quiet(i)'
      BY <2>1 DEF Quiet
    <2> QED BY <2>2, <2>3, <2>4, <2>5 DEF EndsOnce
  <1> QED BY <1>1, <1>2, <1>3, <1>4, <1>5, <1>6, <1>7, <1>8, EndsSpawning,
             EndsWatching DEF Next

LEMMA EndsAlways == Spec => [](Typed /\ EndsOnce)
  <1>1. Init => EndsOnce
    BY DEF Init, EndsOnce, Quiet, Heard
  <1> QED BY <1>1, TypedAlways, EndsInductive, PTL DEF Spec

VerdictOf(i) == IF exit[i] = "ok" THEN "completed" ELSE "failed"

\* Everything that can happen to the status of a run.
LEMMA StatusStep ==
  ASSUME Typed, [Next]_vars, NEW i \in Existing
  PROVE  \/ status'[i] \in {status[i], "error"}
         \/ status[i] \in Active /\ status'[i] \in {"running", "stopped"}
         \/ /\ \E s \in Streams : watch[i][s] = "read"
            /\ status'[i] = VerdictOf(i)
  <1> DEFINE Goal == \/ status'[i] \in {status[i], "error"}
                     \/ /\ status[i] \in Active
                        /\ status'[i] \in {"running", "stopped"}
                     \/ /\ \E s \in Streams : watch[i][s] = "read"
                        /\ status'[i] = VerdictOf(i)
  <1>0. i \in Runs /\ i # made + 1
    BY DEF Typed, TypeOK, Existing, Runs
  <1>1. ASSUME NEW o \in Runs, NEW a \in 0..Retries, Reserve(o, a)
        PROVE  status'[i] = status[i]
    BY <1>0, <1>1, ReserveType
  <1>2. CASE Trigger
    <2>1. made + 1 \in Runs /\ 0 \in 0..Retries
      BY <1>2 DEF Trigger, Reserve, Typed, TypeOK, Runs
    <2> QED BY <1>1, <1>2, <2>1 DEF Trigger
  <1>3. ASSUME NEW j \in Runs, Retry(j)
        PROVE  Goal
    BY <1>1, <1>3, RetryEffect DEF row
  <1>4. ASSUME NEW j \in Runs, Spawning(j)
        PROVE  Goal
    <2>1. CASE Land(j)
      BY <1>0, <2>1 DEF Land, Typed, TypeOK, Active
    <2>2. CASE SpawnFails(j)
      BY <1>0, <2>2 DEF SpawnFails, Typed, TypeOK
    <2>3. CASE ~Land(j) /\ ~SpawnFails(j)
      BY <1>4, <2>3 DEF Spawning, Resolve, Start, Poll, row
    <2> QED BY <2>1, <2>2, <2>3
  <1>5. ASSUME NEW j \in Runs, NEW s \in Streams, Watching(j, s)
        PROVE  Goal
    <2>1. CASE Finalise(j, s)
      BY <1>0, <2>1 DEF Finalise, Typed, TypeOK, VerdictOf
    <2>2. CASE ~Finalise(j, s)
      BY <1>5, <2>2 DEF Watching, Hear, Publish, row
    <2> QED BY <2>1, <2>2
  <1>6. ASSUME NEW j \in Runs, Reaping(j)
        PROVE  Goal
    <2>1. CASE StuckMark(j)
      BY <1>0, <2>1 DEF StuckMark, Typed, TypeOK
    <2>2. CASE ~StuckMark(j)
      BY <1>6, <2>2 DEF Reaping, StuckRead, KillRead, KillStop, KillFails, row
    <2> QED BY <2>1, <2>2
  <1>7. ASSUME NEW j \in Runs, StopOne(j) \/ JobEnds(j)
        PROVE  Goal
    BY <1>7 DEF StopOne, JobEnds, row
  <1>8. CASE StopMark
    BY <1>0, <1>8 DEF StopMark
  <1>9. CASE StopList \/ ServerRestart \/ UNCHANGED vars
    BY <1>9 DEF StopList, ServerRestart, vars, row
  <1> QED BY <1>2, <1>3, <1>4, <1>5, <1>6, <1>7, <1>8, <1>9 DEF Next

\* A verdict is never taken back: what comes later finds it and leaves it, or
\* comes to the same one; only a spawn or a stuck pass that knows of no
\* container overwrites it with error.
THEOREM VerdictsStand == Spec => VerdictStands
  <1>1. Typed /\ EndsOnce /\ [Next]_vars
          => [\A i \in Existing :
                status[i] \in Verdicts => status'[i] \in {status[i], "error"}]_vars
    <2> SUFFICES ASSUME Typed, EndsOnce, [Next]_vars,
                        NEW i \in Existing, status[i] \in Verdicts
                 PROVE  status'[i] \in {status[i], "error"}
      OBVIOUS
    <2>1. i \in Runs
      BY DEF Typed, TypeOK, Existing, Runs
    <2>2. VerdictOf(i) = status[i]
      BY <2>1 DEF EndsOnce, Verdicts, VerdictOf
    <2> QED BY <2>2, StatusStep DEF Active, Verdicts
  <1> QED BY <1>1, EndsAlways, PTL DEF Spec, VerdictStands

-----------------------------------------------------------------------------
(* Any number of event streams: a run is told once per stream *)

\* The handlers that are through with the event of run i.
Through(i) == {s \in Streams : watch[i][s] = "done"}
Tellings == \A i \in Runs : published[i] <= Cardinality(Through(i))

\* However many streams repeat its event, the end of a run is told once per
\* stream at most.
ToldPerStream == \A i \in Runs : published[i] <= OpenStreams

LEMMA ThroughIsFinite ==
  ASSUME NEW i \in Runs
  PROVE  /\ IsFiniteSet(Through(i)) /\ Cardinality(Through(i)) \in Nat
         /\ Cardinality(Through(i)) <= OpenStreams
  <1>1. IsFiniteSet(Streams) /\ Cardinality(Streams) = OpenStreams
    BY FS_Interval DEF Streams
  <1>2. Through(i) \subseteq Streams
    BY DEF Through
  <1> QED BY <1>1, <1>2, FS_Subset, FS_CardinalityType

\* What is done stays done; a handler gets there once.
LEMMA ThroughGrows ==
  ASSUME Typed, EndsOnce, [Next]_vars, NEW i \in Runs
  PROVE  \A s \in Streams : watch[i][s] = "done" => watch'[i][s] = "done"
  <1> DEFINE Goal == \A s \in Streams : watch[i][s] = "done"
                                          => watch'[i][s] = "done"
  <1>0. box[i] = "up" => \A s \in Streams : watch[i][s] = "quiet"
    BY DEF EndsOnce, Quiet
  <1>1. ASSUME watch'[i] = watch[i] \/ box[i] = "up"
        PROVE  Goal
    BY <1>0, <1>1
  <1>2. ASSUME NEW j \in Runs, JobEnds(j)
        PROVE  Goal
    BY <1>1, <1>2, DieEffect DEF JobEnds, Typed
  <1>3. ASSUME NEW j \in Runs, StopAndRemove(j)
        PROVE  Goal
    BY <1>1, <1>3, RemoveEffect DEF Typed
  <1>4. ASSUME NEW j \in Runs, Reaping(j) \/ StopOne(j)
        PROVE  Goal
    BY <1>1, <1>3, <1>4 DEF Reaping, StuckRead, StuckMark, KillRead, KillStop,
                            KillFails, StopOne
  <1>5. ASSUME NEW j \in Runs, Spawning(j) \/ Retry(j)
        PROVE  Goal
    BY <1>1, <1>5 DEF Spawning, Resolve, Start, Poll, SpawnFails, Land, Retry
  <1>6. CASE Trigger \/ StopList \/ StopMark \/ UNCHANGED vars
    BY <1>1, <1>6 DEF Trigger, StopList, StopMark, vars, server
  <1>7. ASSUME NEW j \in Runs, NEW s \in Streams, Watching(j, s)
        PROVE  Goal
    <2>1. PICK pc \in WatchStates : WatchGoto(j, s, pc)
      BY <1>7 DEF Watching, Hear, Finalise, Publish, WatchStates
    <2>2. \A t \in Streams : <<i, t>> # <<j, s>> => watch'[i][t] = watch[i][t]
      BY <2>1, WatchMoves DEF Typed
    <2>3. watch[j][s] # "done"
      BY <1>7 DEF Watching, Hear, Finalise, Publish
    <2> QED BY <2>2, <2>3
  <1>8. CASE ServerRestart
    <2>1. PICK ended \in SUBSET {j \in Runs : box[j] = "up"} :
            watch' = [j \in Runs |-> [s \in Streams |->
                 IF j \in ended \/ watch[j][s] \in {"heard", "read", "written"}
                   THEN "lost" ELSE watch[j][s]]]
      BY <1>8 DEF ServerRestart
    <2> QED BY <1>0, <2>1
  <1> QED BY <1>2, <1>4, <1>5, <1>6, <1>7, <1>8 DEF Next

\* Only Publish tells.
LEMMA TellingStays ==
  ASSUME [Next]_vars, ~ \E i \in Runs, s \in Streams : Publish(i, s)
  PROVE  published' = published
  <1>1. ASSUME NEW i \in Runs,
               \/ Spawning(i) \/ JobEnds(i) \/ Retry(i) \/ Reaping(i)
               \/ StopOne(i) \/ \E s \in Streams : Watching(i, s)
        PROVE  published' = published
    BY <1>1 DEF Spawning, Resolve, Start, Poll, SpawnFails, Land, JobEnds,
                Retry, Reaping, StuckRead, StuckMark, KillRead, KillStop,
                KillFails, StopOne, Watching, Hear, Finalise
  <1>2. CASE Trigger \/ StopList \/ StopMark \/ ServerRestart \/ UNCHANGED vars
    BY <1>2 DEF Trigger, StopList, StopMark, ServerRestart, vars
  <1> QED BY <1>1, <1>2 DEF Next

LEMMA TellingsInductive ==
  ASSUME Typed, EndsOnce, Tellings, [Next]_vars
  PROVE  Tellings'
  <1> SUFFICES ASSUME NEW i \in Runs
               PROVE  published'[i] <= Cardinality(Through(i)')
    BY DEF Tellings
  <1>1. Through(i) \subseteq Through(i)'
    BY ThroughGrows DEF Through
  <1>2. IsFiniteSet(Through(i)') /\ Cardinality(Through(i)') \in Nat
    <2>1. Through(i)' \subseteq Streams /\ IsFiniteSet(Streams)
      BY FS_Interval DEF Through, Streams
    <2> QED BY <2>1, FS_Subset, FS_CardinalityType
  <1>3. /\ published[i] \in Nat /\ published[i] <= Cardinality(Through(i))
        /\ Cardinality(Through(i)) \in Nat /\ IsFiniteSet(Through(i))
    BY ThroughIsFinite DEF Tellings, Typed, TypeOK
  <1>4. CASE \E s \in Streams : Publish(i, s)
    <2>1. PICK s \in Streams : Publish(i, s)
      BY <1>4
    <2>2. s \notin Through(i) /\ s \in Through(i)'
      BY <2>1, WatchMoves DEF Publish, Through, WatchStates, Typed
    <2>3. Through(i) \cup {s} \subseteq Through(i)'
      BY <1>1, <2>2
    <2>4. Cardinality(Through(i) \cup {s}) = Cardinality(Through(i)) + 1
      BY <1>3, <2>2, FS_AddElement
    <2>5. Cardinality(Through(i)) + 1 <= Cardinality(Through(i)')
      BY <1>2, <2>3, <2>4, FS_Subset
    <2>6. published'[i] = published[i] + 1
      BY <2>1 DEF Publish, Typed, TypeOK
    <2> QED BY <1>2, <1>3, <2>5, <2>6
  <1>5. CASE ~ \E s \in Streams : Publish(i, s)
    <2>1. published'[i] = published[i]
      <3>1. CASE \E j \in Runs, s \in Streams : Publish(j, s)
        <4>1. PICK j \in Runs, s \in Streams : Publish(j, s)
          BY <3>1
        <4>2. j # i
          BY <1>5, <4>1
        <4> QED BY <4>1, <4>2 DEF Publish, Typed, TypeOK
      <3> QED BY <3>1, TellingStays
    <2>2. Cardinality(Through(i)) <= Cardinality(Through(i)')
      BY <1>1, <1>2, FS_Subset
    <2> QED BY <1>2, <1>3, <2>1, <2>2
  <1> QED BY <1>4, <1>5

\* The die event is delivered once per open stream and a delivery is handled
\* once, so duplicates multiply history events by the number of streams and by
\* no more, through retries, kills and restarts.
THEOREM ToldOncePerStream == Spec => []ToldPerStream
  <1>1. Init => Tellings
    <2> SUFFICES ASSUME Init, NEW i \in Runs
                 PROVE  published[i] <= Cardinality(Through(i))
      BY DEF Tellings
    <2>1. published[i] = 0
      BY DEF Init
    <2> QED BY <2>1, ThroughIsFinite
  <1>2. Typed /\ EndsOnce /\ Tellings /\ [Next]_vars => Tellings'
    BY TellingsInductive
  <1>3. Typed /\ Tellings => ToldPerStream
    <2> SUFFICES ASSUME Typed, Tellings, NEW i \in Runs
                 PROVE  published[i] <= OpenStreams
      BY DEF ToldPerStream
    <2>1. published[i] \in Nat /\ published[i] <= Cardinality(Through(i))
      BY DEF Tellings, Typed, TypeOK
    <2> QED BY <2>1, ThroughIsFinite
  <1> QED BY <1>1, <1>2, <1>3, EndsAlways, PTL DEF Spec

-----------------------------------------------------------------------------
(* One event stream: a run is told once and retried once *)

OneStream == OpenStreams = 1

\* The event of a run is spent once: into a history event and a timer.
SpentAt(i) ==
  /\ watch[i][1] # "done" => published[i] = 0 /\ timer[i] = 0
  /\ published[i] \in {0, 1} /\ timer[i] \in {0, 1}
Spent == \A i \in Runs : SpentAt(i)

\* Its event or its timer may still lead to another attempt.
Live(i) == watch[i][1] \notin {"done", "lost"} \/ timer[i] = 1

\* No step spends an event twice or brings a spent one back.
LEMMA EventStep ==
  ASSUME OneStream, Typed, EndsOnce, Spent, [Next]_vars, NEW i \in Runs
  PROVE  SpentAt(i)' /\ (Live(i)' => Live(i))
  <1> DEFINE Goal == SpentAt(i)' /\ (Live(i)' => Live(i))
  <1>0. /\ Streams = {1}
        /\ SpentAt(i)
        /\ box[i] = "up" => watch[i][1] = "quiet"
    BY DEF OneStream, Streams, Spent, EndsOnce, Quiet
  <1>1. ASSUME UNCHANGED <<watch, timer, published>>
        PROVE  Goal
    BY <1>0, <1>1 DEF SpentAt, Live
  <1>2. CASE Trigger \/ StopList \/ StopMark \/ UNCHANGED vars
    BY <1>1, <1>2 DEF Trigger, StopList, StopMark, vars, server
  <1>3. ASSUME NEW j \in Runs, Spawning(j)
        PROVE  Goal
    BY <1>1, <1>3 DEF Spawning, Resolve, Start, Poll, SpawnFails, Land
  <1>4. ASSUME NEW j \in Runs, Retry(j)
        PROVE  Goal
    <2>1. timer'[i] \in {timer[i], timer[i] - 1} /\ timer'[i] \in Nat
      BY <1>4, RetryEffect
    <2> QED BY <1>0, <1>4, <2>1, RetryEffect DEF SpentAt, Live
  <1>5. ASSUME UNCHANGED <<timer, published>>,
               watch'[i] = watch[i] \/ (box[i] = "up" /\ watch'[i][1] = "heard")
        PROVE  Goal
    BY <1>0, <1>5 DEF SpentAt, Live
  <1>6. ASSUME NEW j \in Runs, JobEnds(j)
        PROVE  Goal
    <2>1. watch'[i] = watch[i] \/ (box[i] = "up" /\ watch'[i][1] = "heard")
      BY <1>0, <1>6, DieEffect DEF JobEnds, Typed
    <2> QED BY <1>5, <1>6, <2>1 DEF JobEnds
  <1>7. ASSUME NEW j \in Runs, StopAndRemove(j), UNCHANGED <<timer, published>>
        PROVE  Goal
    <2>1. watch'[i] = watch[i] \/ (box[i] = "up" /\ watch'[i][1] = "heard")
      BY <1>0, <1>7, RemoveEffect DEF Typed
    <2> QED BY <1>5, <1>7, <2>1
  <1>8. ASSUME NEW j \in Runs, Reaping(j) \/ StopOne(j)
        PROVE  Goal
    BY <1>1, <1>7, <1>8
       DEF Reaping, StuckRead, StuckMark, KillRead, KillStop, KillFails, StopOne
  <1>9. ASSUME NEW j \in Runs, NEW s \in Streams, Watching(j, s)
        PROVE  Goal
    <2>1. PICK pc \in WatchStates : WatchGoto(j, s, pc)
      BY <1>9 DEF Watching, Hear, Finalise, Publish, WatchStates
    <2>2. /\ s = 1 /\ watch'[j][1] = pc
          /\ \A k \in Runs \ {j} : watch'[k][1] = watch[k][1]
      BY <1>0, <2>1, WatchMoves DEF Typed
    <2>3. \A k \in Runs \ {j} :
            timer'[k] = timer[k] /\ published'[k] = published[k]
      BY <1>9 DEF Watching, Hear, Finalise, Publish, Typed, TypeOK
    <2>4. CASE i # j
      BY <1>0, <2>2, <2>3, <2>4 DEF SpentAt, Live
    <2>5. CASE i = j /\ Publish(j, s)
      <3>1. /\ published'[i] = published[i] + 1
            /\ timer'[i] \in {timer[i], timer[i] + 1}
            /\ watch[i][1] = "written"
        BY <2>2, <2>5 DEF Publish, Typed, TypeOK
      <3>2. watch'[i][1] = "done"
        BY <2>2, <2>5, WatchMoves DEF Publish, WatchStates, Typed
      <3> QED BY <1>0, <3>1, <3>2 DEF SpentAt, Live
    <2>6. CASE i = j /\ ~Publish(j, s)
      <3>1. UNCHANGED <<timer, published>> /\ watch[i][1] \in {"heard", "read"}
        BY <1>9, <2>2, <2>6 DEF Watching, Hear, Finalise
      <3> QED BY <1>0, <3>1 DEF SpentAt, Live
    <2> QED BY <2>4, <2>5, <2>6
  <1>10. CASE ServerRestart
    <2>1. PICK ended \in SUBSET {j \in Runs : box[j] = "up"} :
            watch' = [j \in Runs |-> [s \in Streams |->
                 IF j \in ended \/ watch[j][s] \in {"heard", "read", "written"}
                   THEN "lost" ELSE watch[j][s]]]
      BY <1>10 DEF ServerRestart
    <2>2. /\ watch'[i][1] \in {watch[i][1], "lost"}
          /\ watch[i][1] = "done" => watch'[i][1] = "done"
      BY <1>0, <2>1
    <2>3. timer'[i] = 0 /\ published'[i] = published[i]
      BY <1>10 DEF ServerRestart
    <2> QED BY <1>0, <2>2, <2>3 DEF SpentAt, Live
  <1> QED BY <1>2, <1>3, <1>4, <1>6, <1>8, <1>9, <1>10, <1>0 DEF Next

LEMMA SpentAlways ==
  ASSUME OneStream
  PROVE  Spec => [](Typed /\ EndsOnce /\ Spent)
  <1>1. Init => Spent
    <2>1. 1 \in Streams
      BY DEF OneStream, Streams
    <2> QED BY <2>1 DEF Init, Spent, SpentAt
  <1>2. Typed /\ EndsOnce /\ Spent /\ [Next]_vars => Spent'
    BY EventStep DEF Spent
  <1> QED BY <1>1, <1>2, EndsAlways, PTL DEF Spec

\* With one event stream a run's end is told once: the handler of its only
\* die event is the only one to publish.
THEOREM ToldOnce ==
  ASSUME OneStream
  PROVE  Spec => []FinalisedOnce
  <1>1. Spent => FinalisedOnce
    BY DEF Spent, SpentAt, FinalisedOnce
  <1> QED BY <1>1, SpentAlways, PTL

-----------------------------------------------------------------------------
(* Retries form a chain *)

Successor(j, i) == origin[j] = origin[i] /\ attempt[j] = attempt[i] + 1

\* A lineage is one chain without gaps, and only its last run is live.
Lineage ==
  /\ LineageIsAChain
  /\ \A i \in Existing :
       /\ origin[i] \in Existing
       /\ Live(i) => \A j \in Existing : ~Successor(j, i)
       /\ attempt[i] > 0 => \E k \in Existing : Successor(i, k)

\* A reservation extends the chain when its attempt is the first that its
\* lineage lacks and the run before it is spent.
LEMMA LineageReserve ==
  ASSUME Typed, Lineage, NEW o \in Runs, NEW a \in 0..Retries, Reserve(o, a),
         \A k \in Existing : Live(k)' => Live(k),
         o \in Existing \cup {made + 1},
         a > 0 => \E k \in Existing : origin[k] = o /\ attempt[k] + 1 = a,
         \A k \in Existing : origin[k] = o => attempt[k] \notin {a, a + 1},
         \A k \in Existing : origin[k] = o /\ attempt[k] + 1 = a => ~Live(k)'
  PROVE  Lineage'
  <1> DEFINE n == made + 1
  <1>1. /\ made \in Nat /\ n \notin Existing /\ Existing' = Existing \cup {n}
        /\ Existing \subseteq Runs /\ n \in Runs
    BY ReserveType, ActiveAreRuns DEF Existing
  <1>2. /\ origin'[n] = o /\ attempt'[n] = a
        /\ \A k \in Existing : origin'[k] = origin[k] /\ attempt'[k] = attempt[k]
    BY <1>1, ReserveType
  <1>3. a \in Nat /\ \A k \in Existing : attempt[k] \in Nat
    BY <1>1 DEF Typed, TypeOK
  <1> HIDE DEF n
  <1>4. LineageIsAChain'
    BY <1>1, <1>2, <1>3 DEF Lineage, LineageIsAChain
  <1>5. ASSUME NEW i \in Existing'
        PROVE  origin'[i] \in Existing'
    BY <1>1, <1>2, <1>5 DEF Lineage, n
  <1>6. ASSUME NEW i \in Existing', Live(i)', NEW j \in Existing'
        PROVE  ~Successor(j, i)'
    <2>1. CASE i = n
      BY <1>1, <1>2, <1>3, <2>1 DEF Successor
    <2>2. CASE i # n
      BY <1>1, <1>2, <1>6, <2>2 DEF Successor, Lineage
    <2> QED BY <2>1, <2>2
  <1>7. ASSUME NEW i \in Existing', attempt'[i] > 0
        PROVE  \E k \in Existing' : Successor(i, k)'
    <2>1. CASE i = n
      BY <1>1, <1>2, <2>1, <1>7, <1>3 DEF Successor
    <2>2. CASE i # n
      BY <1>1, <1>2, <1>7, <2>2 DEF Successor, Lineage
    <2> QED BY <2>1, <2>2
  <1> QED BY <1>4, <1>5, <1>6, <1>7 DEF Lineage

\* Steps that reserve nothing leave the rows' lineage alone.
LEMMA LineageKept ==
  ASSUME [Next]_vars, ~Trigger,
         ~ \E i \in Runs : Retry(i) /\ Reserve(origin[i], attempt[i] + 1)
  PROVE  UNCHANGED <<made, origin, attempt>>
  <1>2. ASSUME NEW i \in Runs, Retry(i)
        PROVE  UNCHANGED <<made, origin, attempt>>
    BY <1>2 DEF Retry, row
  <1>3. ASSUME NEW i \in Runs,
               \/ Spawning(i) \/ JobEnds(i) \/ Reaping(i) \/ StopOne(i)
               \/ \E s \in Streams : Watching(i, s)
        PROVE  UNCHANGED <<made, origin, attempt>>
    BY <1>3 DEF Spawning, Resolve, Start, Poll, SpawnFails, Land, JobEnds,
                Reaping, StuckRead, StuckMark, KillRead, KillStop, KillFails,
                StopOne, Watching, Hear, Finalise, Publish, row
  <1>4. CASE StopList \/ StopMark \/ ServerRestart \/ UNCHANGED vars
    BY <1>4 DEF StopList, StopMark, ServerRestart, vars, row
  <1> QED BY <1>2, <1>3, <1>4 DEF Next

LEMMA LineageInductive ==
  ASSUME OneStream, Typed, EndsOnce, Spent, Lineage, [Next]_vars
  PROVE  Lineage'
  <1>1. \A i \in Existing : i \in Runs /\ (Live(i)' => Live(i))
    BY EventStep, ActiveAreRuns
  <1>2. \A i \in Existing : attempt[i] \in Nat
    BY <1>1 DEF Typed, TypeOK
  <1>3. CASE Trigger
    <2>1. /\ made + 1 \in Runs /\ 0 \in 0..Retries /\ made + 1 \notin Existing
      BY <1>3 DEF Trigger, Reserve, Typed, TypeOK, Runs, Existing
    <2>2. \A k \in Existing : origin[k] # made + 1
      BY <2>1 DEF Lineage
    <2> QED BY <1>1, <1>3, <2>1, <2>2, LineageReserve DEF Trigger
  <1>4. ASSUME NEW i \in Runs, Retry(i), Reserve(origin[i], attempt[i] + 1)
        PROVE  Lineage'
    <2>1. i \in Existing /\ timer[i] = 1 /\ timer'[i] = 0 /\ Live(i) /\ ~Live(i)'
      <3>1. i \in Existing /\ timer[i] > 0 /\ timer'[i] = timer[i] - 1
            /\ watch' = watch
        BY <1>4, RetryEffect DEF Existing, Runs
      <3> QED BY <3>1 DEF Spent, SpentAt, Live
    <2>2. \A k \in Existing : ~Successor(k, i)
      BY <2>1 DEF Lineage
    <2>3. ASSUME NEW k \in Existing, origin[k] = origin[i]
          PROVE  attempt[k] \notin {attempt[i] + 1, attempt[i] + 1 + 1}
      <3>1. attempt[k] # attempt[i] + 1
        BY <2>2, <2>3 DEF Successor
      <3>2. CASE attempt[k] = attempt[i] + 1 + 1
        <4>1. PICK m \in Existing : Successor(k, m)
          BY <1>2, <2>1, <3>2 DEF Lineage
        <4> QED BY <1>2, <2>1, <2>2, <2>3, <3>2, <4>1 DEF Successor
      <3> QED BY <3>1, <3>2
    <2>4. \A k \in Existing :
            origin[k] = origin[i] /\ attempt[k] + 1 = attempt[i] + 1 => k = i
      BY <1>2, <2>1 DEF Lineage, LineageIsAChain
    <2> QED BY <1>1, <1>2, <1>4, <2>1, <2>3, <2>4, LineageReserve, RetryEffect
            DEF Lineage
  <1>5. CASE /\ ~Trigger
             /\ ~ \E i \in Runs : Retry(i) /\ Reserve(origin[i], attempt[i] + 1)
    BY <1>1, <1>5, LineageKept DEF Lineage, LineageIsAChain, Successor, Existing
  <1> QED BY <1>3, <1>4, <1>5

LEMMA LineageAlways ==
  ASSUME OneStream
  PROVE  Spec => [](Typed /\ EndsOnce /\ Lineage)
  <1>1. Init => Lineage
    BY DEF Init, Lineage, LineageIsAChain, Existing
  <1>2. Typed /\ EndsOnce /\ Spent /\ Lineage /\ [Next]_vars => Lineage'
    BY LineageInductive
  <1> QED BY <1>1, <1>2, SpentAlways, PTL DEF Spec

\* With one event stream no trigger starts two runs of one attempt, so its
\* retries end within the budget that TypeCorrect gives them.
THEOREM Chain ==
  ASSUME OneStream
  PROVE  Spec => []LineageIsAChain
  <1>1. Lineage => LineageIsAChain
    BY DEF Lineage
  <1> QED BY <1>1, LineageAlways, PTL

\* However many slots are free, a trigger is never at work twice: it has no
\* more than one container that runs or is about to be made.
AtWork(i) == box[i] = "up" \/ spawn[i] \in {"resolving", "creating"}
OneJobPerTrigger ==
  \A i, j \in Existing :
    origin[i] = origin[j] /\ AtWork(i) /\ AtWork(j) => i = j

\* A trigger leads to no more than onFailure.retries + 1 runs.
RunsPerTrigger ==
  \A o \in Runs :
    Cardinality({i \in Existing : origin[i] = o}) <= Retries + 1

\* A run that was followed by any later attempt was followed by the next one.
LEMMA NextFollows ==
  ASSUME Typed, Lineage, NEW i \in Existing, NEW j \in Existing,
         origin[i] = origin[j], attempt[i] < attempt[j]
  PROVE  \E k \in Existing : Successor(k, i)
  <1> DEFINE Later == {k \in Existing : /\ origin[k] = origin[i]
                                        /\ attempt[i] < attempt[k]}
             T == {attempt[k] : k \in Later}
  <1>1. \A k \in Existing : attempt[k] \in Nat
    BY ActiveAreRuns DEF Typed, TypeOK
  <1>2. T \subseteq Nat /\ T # {}
    BY <1>1
  <1>3. PICK a \in T : \A b \in T : <<b, a>> \notin OpToRel(<, Nat)
    <2> HIDE DEF T
    <2> QED BY <1>2, NatLessThanWellFounded, WFMin
  <1>4. \A b \in T : ~(b < a)
    <2> HIDE DEF T
    <2> QED BY <1>2, <1>3 DEF OpToRel
  <1>5. PICK k \in Later : attempt[k] = a
    OBVIOUS
  <1>6. PICK m \in Existing : Successor(k, m)
    BY <1>1, <1>5 DEF Lineage
  <1>7. attempt[m] \in Nat /\ attempt[m] + 1 = a /\ origin[m] = origin[i]
    BY <1>1, <1>5, <1>6 DEF Successor
  <1>8. m \notin Later
    <2>1. attempt[m] < a
      BY <1>7
    <2> QED BY <1>4, <2>1
  <1>9. attempt[m] = attempt[i]
    BY <1>1, <1>5, <1>7, <1>8
  <1>10. m = i
    BY <1>7, <1>9 DEF Lineage, LineageIsAChain
  <1> QED BY <1>5, <1>6, <1>10

\* A retry comes only after the die event of the attempt before it, so with
\* one event stream no two jobs of one trigger run together, whatever
\* maxConcurrent allows, Docker delays and the reaper kills.
THEOREM OneJob ==
  ASSUME OneStream
  PROVE  Spec => []OneJobPerTrigger
  <1>1. ASSUME Typed, EndsOnce, Lineage
        PROVE  OneJobPerTrigger
    <2> SUFFICES ASSUME NEW i \in Existing, NEW j \in Existing,
                        origin[i] = origin[j], AtWork(i), AtWork(j), i # j
                 PROVE  FALSE
      BY DEF OneJobPerTrigger
    <2>1. /\ attempt[i] \in Nat /\ attempt[j] \in Nat
          /\ attempt[i] # attempt[j]
      BY <1>1, ActiveAreRuns DEF Typed, TypeOK, Lineage, LineageIsAChain
    <2>2. ASSUME NEW k \in Existing, AtWork(k)
          PROVE  Live(k)
      <3>1. k \in Runs /\ 1 \in Streams
        BY <1>1, ActiveAreRuns DEF OneStream, Streams
      <3> QED BY <1>1, <2>2, <3>1 DEF EndsOnce, Quiet, AtWork, Live
    <2>3. CASE attempt[i] < attempt[j]
      BY <1>1, <2>2, <2>3, NextFollows DEF Lineage
    <2>4. CASE attempt[j] < attempt[i]
      BY <1>1, <2>2, <2>4, NextFollows DEF Lineage
    <2> QED BY <2>1, <2>3, <2>4
  <1> QED BY <1>1, LineageAlways, PTL

\* One run per attempt, and attempts within the budget: retries never run
\* away, however often the job fails.
THEOREM Budget ==
  ASSUME OneStream
  PROVE  Spec => []RunsPerTrigger
  <1>1. ASSUME Typed, Lineage
        PROVE  RunsPerTrigger
    <2> SUFFICES ASSUME NEW o \in Runs
                 PROVE  Cardinality({i \in Existing : origin[i] = o})
                          <= Retries + 1
      BY DEF RunsPerTrigger
    <2> DEFINE S == {i \in Existing : origin[i] = o}
               f == [i \in S |-> attempt[i]]
    <2>1. f \in [S -> 0..Retries]
      BY <1>1, ActiveAreRuns DEF Typed, TypeOK
    <2>2. \A i, j \in S : f[i] = f[j] => i = j
      BY <1>1 DEF Lineage, LineageIsAChain
    <2>3. f \in Injection(S, 0..Retries)
      <3> HIDE DEF f, S
      <3> QED BY <2>1, <2>2 DEF Injection, IsInjective
    <2>4. /\ IsFiniteSet(0..Retries)
          /\ Cardinality(0..Retries) = Retries + 1
      BY FS_Interval
    <2>5. Cardinality(S) <= Cardinality(0..Retries)
      <3> HIDE DEF f, S
      <3> QED BY <2>3, <2>4, FS_Injection
    <2> QED BY <2>4, <2>5
  <1> QED BY <1>1, LineageAlways, PTL

-----------------------------------------------------------------------------
(* What triggers are promised *)

\* A written verdict leaves its row without a slot, and a retry waits only for
\* a failure that was told.
Announced ==
  /\ \A i \in Runs, s \in Streams :
       watch[i][s] = "written" => status[i] \notin Active
  /\ \A i \in Runs : timer[i] > 0 => published[i] > 0 /\ exit[i] = "bad"

LEMMA AnnouncedInductive ==
  ASSUME Typed, EndsOnce, Announced, [Next]_vars
  PROVE  Announced'
  <1>0. /\ \A i \in Runs : timer[i] \in Nat /\ published[i] \in Nat
        /\ \A i \in Runs, s \in Streams :
             watch[i][s] = "written" => status[i] \notin Active
        /\ \A i \in Runs : timer[i] > 0 => published[i] > 0 /\ exit[i] = "bad"
    BY DEF Typed, TypeOK, Announced
  <1>1. ASSUME UNCHANGED <<watch, timer, published, exit>>,
               \A i \in Runs : status'[i] \in Active => status[i] \in Active
        PROVE  Announced'
    BY <1>1 DEF Announced
  <1>2. CASE Trigger
    <2>1. made + 1 \in Runs /\ 0 \in 0..Retries
      BY <1>2 DEF Trigger, Reserve, Typed, TypeOK, Runs
    <2>2. /\ \A i \in Runs \ {made + 1} : status'[i] = status[i]
          /\ made \in Nat
      BY <1>2, <2>1, ReserveType DEF Trigger
    <2>3. \A s \in Streams : watch[made + 1][s] = "quiet"
      BY <2>1, <2>2 DEF Typed, Unborn
    <2> QED BY <1>2, <2>1, <2>2, <2>3 DEF Trigger, Announced
  <1>3. ASSUME NEW i \in Runs, Retry(i)
        PROVE  Announced'
    <2>0. /\ timer'[i] = timer[i] - 1
          /\ \A j \in Runs \ {i} : timer'[j] = timer[j]
          /\ UNCHANGED <<watch, published, exit>>
      BY <1>3, RetryEffect
    <2>1. \A j \in Runs : timer'[j] > 0 => timer[j] > 0
      BY <1>0, <2>0
    <2>2. CASE Reserve(origin[i], attempt[i] + 1)
      <3>1. /\ made + 1 \in Runs /\ made \in Nat
            /\ \A j \in Runs \ {made + 1} : status'[j] = status[j]
        BY <1>3, <2>2, ReserveType, RetryEffect
      <3>2. \A s \in Streams : watch[made + 1][s] = "quiet"
        BY <3>1 DEF Typed, Unborn
      <3> QED BY <2>0, <2>1, <3>1, <3>2 DEF Announced
    <2>3. CASE UNCHANGED <<row, spawn>>
      BY <2>0, <2>1, <2>3 DEF Announced, row
    <2> QED BY <1>3, <2>2, <2>3, RetryEffect
  <1>4. ASSUME UNCHANGED <<status, timer, published>>, NEW i \in Runs,
               \A j \in Runs \ {i} : watch'[j] = watch[j] /\ exit'[j] = exit[j],
               \/ watch' = watch /\ exit' = exit
               \/ /\ box[i] = "up"
                  /\ \A s \in Streams : watch'[i][s] = "heard"
        PROVE  Announced'
    <2>1. box[i] = "up" => timer[i] = 0
      BY <1>0 DEF EndsOnce
    <2> QED BY <1>4, <2>1 DEF Announced
  <1>5. ASSUME NEW i \in Runs, JobEnds(i)
        PROVE  Announced'
    BY <1>4, <1>5, DieEffect DEF JobEnds, row, Typed
  <1>6. ASSUME NEW i \in Runs, StopAndRemove(i),
               UNCHANGED <<status, timer, published>>
        PROVE  Announced'
    BY <1>4, <1>6, RemoveEffect DEF Typed
  <1>7. ASSUME NEW i \in Runs, Reaping(i) \/ StopOne(i)
        PROVE  Announced'
    <2>1. CASE StuckMark(i)
      <3>1. \A j \in Runs : status'[j] \in Active => status[j] \in Active
        BY <2>1 DEF StuckMark, Typed, TypeOK, Active
      <3> QED BY <1>1, <2>1, <3>1 DEF StuckMark
    <2>2. CASE StuckRead(i) \/ KillRead(i) \/ KillFails(i)
      BY <1>1, <2>2 DEF StuckRead, KillRead, KillFails, row
    <2>3. CASE KillStop(i) \/ StopOne(i)
      BY <1>1, <1>6, <2>3 DEF KillStop, StopOne, row
    <2> QED BY <1>7, <2>1, <2>2, <2>3 DEF Reaping
  <1>8. ASSUME NEW i \in Runs, NEW s \in Streams, Watching(i, s)
        PROVE  Announced'
    <2>1. PICK pc \in WatchStates : WatchGoto(i, s, pc)
      BY <1>8 DEF Watching, Hear, Finalise, Publish, WatchStates
    <2>2. /\ \A j \in Runs, t \in Streams :
               <<j, t>> # <<i, s>> => watch'[j][t] = watch[j][t]
          /\ watch'[i][s] = pc /\ exit' = exit
      BY <1>8, <2>1, WatchMoves DEF Watching, Hear, Finalise, Publish, Typed
    <2>3. CASE Hear(i, s)
      <3>1. watch'[i][s] # "written"
        BY <2>3, WatchMoves DEF Hear, WatchStates, Typed, Verdicts
      <3> QED BY <2>2, <2>3, <3>1 DEF Hear, row, Announced
    <2>4. CASE Finalise(i, s)
      <3>1. /\ UNCHANGED <<timer, published>>
            /\ \A j \in Runs \ {i} : status'[j] = status[j]
            /\ status'[i] \notin Active
        BY <2>4 DEF Finalise, Typed, TypeOK, Active
      <3> QED BY <2>2, <3>1 DEF Announced
    <2>5. CASE Publish(i, s)
      <3>1. /\ status' = status
            /\ \A j \in Runs \ {i} : /\ timer'[j] = timer[j]
                                     /\ published'[j] = published[j]
            /\ published'[i] = published[i] + 1
            /\ timer'[i] = timer[i] \/ exit[i] = "bad"
        BY <2>5 DEF Publish, row, Typed, TypeOK
      <3>2. watch'[i][s] # "written"
        BY <2>5, WatchMoves DEF Publish, WatchStates, Typed
      <3>3. published'[i] > 0
        BY <1>0, <3>1
      <3> QED BY <2>2, <3>1, <3>2, <3>3 DEF Announced
    <2> QED BY <1>8, <2>3, <2>4, <2>5 DEF Watching
  <1>9. ASSUME NEW i \in Runs, Spawning(i)
        PROVE  Announced'
    <2>1. UNCHANGED <<watch, timer, published, exit>>
      BY <1>9 DEF Spawning, Resolve, Start, Poll, SpawnFails, Land
    <2>2. \A j \in Runs : status'[j] \in Active => status[j] \in Active
      <3>1. CASE Land(i)
        BY <3>1 DEF Land, Typed, TypeOK, Active
      <3>2. CASE SpawnFails(i)
        BY <3>2 DEF SpawnFails, Typed, TypeOK, Active
      <3>3. CASE ~Land(i) /\ ~SpawnFails(i)
        BY <1>9, <3>3 DEF Spawning, Resolve, Start, Poll, row
      <3> QED BY <3>1, <3>2, <3>3
    <2> QED BY <1>1, <2>1, <2>2
  <1>10. CASE StopMark
    <2>1. \A j \in Runs : status'[j] \in Active => status[j] \in Active
      BY <1>10 DEF StopMark, Active
    <2> QED BY <1>1, <1>10, <2>1 DEF StopMark
  <1>11. CASE StopList \/ UNCHANGED vars
    BY <1>1, <1>11 DEF StopList, vars, row, server
  <1>12. CASE ServerRestart
    <2>1. PICK ended \in SUBSET {i \in Runs : box[i] = "up"} :
            watch' = [i \in Runs |-> [s \in Streams |->
                 IF i \in ended \/ watch[i][s] \in {"heard", "read", "written"}
                   THEN "lost" ELSE watch[i][s]]]
      BY <1>12 DEF ServerRestart
    <2>2. \A i \in Runs, s \in Streams : watch'[i][s] # "written"
      BY <2>1
    <2>3. \A i \in Runs : timer'[i] = 0
      BY <1>12 DEF ServerRestart
    <2> QED BY <2>2, <2>3 DEF Announced
  <1> QED BY <1>2, <1>3, <1>5, <1>7, <1>8, <1>9, <1>10, <1>11, <1>12 DEF Next

\* All that is known of a pool with one event stream.
Known == Typed /\ EndsOnce /\ Spent /\ Lineage /\ Announced

LEMMA KnownAlways ==
  ASSUME OneStream
  PROVE  Spec => []Known
  <1>1. Init => Announced
    BY DEF Init, Announced
  <1>2. Typed /\ EndsOnce /\ Announced /\ [Next]_vars => Announced'
    BY AnnouncedInductive
  <1>3. Typed /\ EndsOnce /\ Spent /\ Lineage /\ Announced => Known
    BY DEF Known
  <1> QED BY <1>1, <1>2, <1>3, SpentAlways, LineageAlways, PTL DEF Spec

\* Different runs are different tries.
LEMMA TriesDiffer ==
  ASSUME Known, NEW S \in SUBSET Existing, NEW i \in Existing
  PROVE  try(i) \in tries(S) <=> i \in S
  <1>1. \A j \in S : try(i) = try(j) => i = j
    BY DEF Known, Lineage, LineageIsAChain, try
  <1> QED BY <1>1 DEF tries

\* A reservation of a try that its trigger has not had is a grant.
LEMMA ReserveGrants ==
  ASSUME Known, NEW o \in Runs, NEW a \in 0..Retries, Reserve(o, a),
         UNCHANGED <<exit, published>>,
         \A k \in Existing : origin[k] = o => attempt[k] # a,
         a > 0 => <<o, a - 1>> \in tries(told("bad"))
  PROVE  Promise!Next
  <1>0. PICK n \in Runs : n = made + 1
    BY ReserveType DEF Known
  <1>1. /\ made \in Nat /\ n \notin Existing /\ Existing' = Existing \cup {n}
        /\ Existing \subseteq Runs /\ n \in Runs /\ Typed
    BY <1>0, ReserveType, ActiveAreRuns DEF Existing, Known
  <1>2. /\ try(n)' = <<o, a>> /\ status'[n] = "starting"
        /\ \A k \in Existing : try(k)' = try(k) /\ status'[k] = status[k]
    BY <1>0, <1>1, ReserveType DEF try
  <1>3. published'[n] = 0
    <2>1. n > made
      BY <1>0, <1>1
    <2> QED BY <1>1, <2>1 DEF Typed, Unborn
  <1>4. /\ ActiveRuns' = ActiveRuns \cup {n}
        /\ (Existing \ ActiveRuns)' = Existing \ ActiveRuns
        /\ ActiveRuns \subseteq Existing
    BY <1>1, <1>2 DEF ActiveRuns, Active
  <1>5. ASSUME NEW how
        PROVE  told(how)' = told(how)
    BY <1>1, <1>3 DEF told
  <1>6. ASSUME NEW S \in SUBSET Existing
        PROVE  {try(k)' : k \in S} = tries(S)
    BY <1>2 DEF tries
  <1>7. /\ tries(ActiveRuns)' = tries(ActiveRuns) \cup {<<o, a>>}
        /\ tries(Existing \ ActiveRuns)' = tries(Existing \ ActiveRuns)
    BY <1>2, <1>4, <1>6 DEF tries
  <1>8. /\ tries(told("bad"))' = tries(told("bad"))
        /\ tries(told("ok"))' = tries(told("ok"))
    <2>1. ASSUME NEW how
          PROVE  tries(told(how))' = tries(told(how))
      <3>1. told(how) \in SUBSET Existing
        BY DEF told
      <3>2. {try(k)' : k \in told(how)} = tries(told(how))
        BY <1>6, <3>1
      <3> QED BY <1>5, <3>2 DEF tries
    <2> QED BY <2>1
  <1>9. <<o, a>> \notin tries(ActiveRuns) \cup tries(Existing \ ActiveRuns)
    BY <1>4 DEF tries, try
  <1>10. Cardinality(tries(ActiveRuns)) < MaxConcurrent
    <2>1. /\ IsFiniteSet(ActiveRuns) /\ Cardinality(ActiveRuns) \in Nat
          /\ Cardinality(ActiveRuns) < MaxConcurrent
      BY <1>1, ActiveAreRuns DEF Reserve
    <2>2. /\ IsFiniteSet(tries(ActiveRuns))
          /\ Cardinality(tries(ActiveRuns)) <= Cardinality(ActiveRuns)
      <3> DEFINE f == [k \in ActiveRuns |-> try(k)]
      <3>1. f \in Surjection(ActiveRuns, tries(ActiveRuns))
        BY DEF Surjection, tries
      <3> HIDE DEF f
      <3> QED BY <2>1, <3>1, FS_Surjection
    <2>3. Cardinality(tries(ActiveRuns)) \in Nat
      BY <2>2, FS_CardinalityType
    <2> QED BY <2>1, <2>2, <2>3
  <1>11. Promise!Grant(o, a)
    <2>1. \A S : Promise!Cardinality(S) = Cardinality(S)
      BY DEF Promise!Cardinality, Cardinality
    <2> QED BY <1>7, <1>8, <1>9, <1>10, <2>1 DEF Promise!Grant
  <1>12. <<o, a>> \in Promise!Tries
    BY DEF Promise!Tries
  <1> QED BY <1>11, <1>12 DEF Promise!Next

\* Where no row is made and nothing told, slots are at most given back.
LEMMA OthersGiveBack ==
  ASSUME Known, UNCHANGED <<made, origin, attempt, published>>,
         \A i \in Existing : published[i] > 0 => exit'[i] = exit[i],
         \A i \in Existing : status'[i] \in Active => status[i] \in Active
  PROVE  Promise!Next
  <1> DEFINE Ended == ActiveRuns \ ActiveRuns'
  <1>1. /\ Existing' = Existing /\ ActiveRuns' \subseteq ActiveRuns
        /\ ActiveRuns \subseteq Existing
    BY DEF Existing, ActiveRuns
  <1>2. ASSUME NEW S
        PROVE  tries(S)' = {try(i) : i \in S'}
    BY DEF tries, try
  <1>3. ASSUME NEW how
        PROVE  told(how)' = told(how)
    BY <1>1 DEF told
  <1>4. UNCHANGED <<tries(told("bad")), tries(told("ok"))>>
    BY <1>2, <1>3 DEF tries
  <1>5. tries(ActiveRuns)' = tries(ActiveRuns) \ tries(Ended)
    <2>1. tries(ActiveRuns)' = tries(ActiveRuns')
      BY <1>2 DEF tries
    <2>2. ASSUME NEW i \in Existing
          PROVE  /\ try(i) \in tries(ActiveRuns') <=> i \in ActiveRuns'
                 /\ try(i) \in tries(ActiveRuns) <=> i \in ActiveRuns
                 /\ try(i) \in tries(Ended) <=> i \in Ended
      BY <1>1, TriesDiffer
    <2>3. ASSUME NEW x
          PROVE  x \in tries(ActiveRuns')
                   <=> x \in tries(ActiveRuns) /\ x \notin tries(Ended)
      <3>1. x \in tries(ActiveRuns') \cup tries(ActiveRuns)
              => \E i \in Existing : x = try(i)
        BY <1>1 DEF tries
      <3> QED BY <1>1, <2>2, <3>1
    <2> QED BY <2>1, <2>3
  <1>6. tries(Existing \ ActiveRuns)'
          = tries(Existing \ ActiveRuns) \cup tries(Ended)
    BY <1>1, <1>2 DEF tries
  <1>7. tries(Ended) \subseteq tries(ActiveRuns)
    BY DEF tries
  <1>8. Promise!GiveBack(tries(Ended))
    BY <1>4, <1>5, <1>6, <1>7 DEF Promise!GiveBack
  <1> QED BY <1>7, <1>8 DEF Promise!Next

\* A history event tells of a run without a slot that was not told of before.
LEMMA PublishTells ==
  ASSUME OneStream, Known, NEW i \in Runs, NEW s \in Streams, Publish(i, s)
  PROVE  Promise!Next
  <1>1. s = 1 /\ watch[i][s] = "written"
    BY DEF OneStream, Streams, Publish
  <1>2. i \in Existing /\ status[i] \notin Active /\ exit[i] \in {"ok", "bad"}
    <2>1. i <= made /\ made \in Nat
      BY <1>1, Born DEF Known
    <2>2. status[i] \notin Active /\ exit[i] # "none"
      BY <1>1 DEF Known, Announced, EndsOnce, Heard
    <2> QED BY <2>1, <2>2 DEF Existing, Runs, Known, Typed, TypeOK
  <1>3. published[i] = 0
    BY <1>1 DEF Known, Spent, SpentAt
  <1>4. /\ \A j \in Runs \ {i} : published'[j] = published[j]
        /\ published'[i] = 1 /\ UNCHANGED <<row, exit>>
    BY <1>3 DEF Publish, Known, Typed, TypeOK
  <1>5. Existing \subseteq Runs
    BY ActiveAreRuns DEF Known
  <1>6. PICK c \in {"ok", "bad"} : exit[i] = c
    BY <1>2
  <1>7. /\ told(c)' = told(c) \cup {i}
        /\ \A how : how # c => told(how)' = told(how)
    BY <1>2, <1>3, <1>4, <1>5, <1>6 DEF told, row, Existing
  <1>8. /\ tries(told(c))' = tries(told(c)) \cup {try(i)}
        /\ \A how : how # c => tries(told(how))' = tries(told(how))
    BY <1>4, <1>7 DEF tries, try, row
  <1>9. try(i) \in tries(Existing \ ActiveRuns)
    BY <1>2 DEF tries, ActiveRuns
  <1>10. try(i) \notin tries(told("bad")) \cup tries(told("ok"))
    <2>1. told("bad") \in SUBSET Existing /\ told("ok") \in SUBSET Existing
      BY DEF told
    <2>2. i \notin told("bad") \cup told("ok")
      BY <1>3 DEF told
    <2> QED BY <1>2, <2>1, <2>2, TriesDiffer
  <1>11. UNCHANGED <<tries(ActiveRuns), tries(Existing \ ActiveRuns)>>
    BY <1>4 DEF tries, try, row, ActiveRuns, Existing
  <1>12. Promise!Tell(try(i))
    <2>1. CASE c = "bad"
      <3>1. tries(told("bad"))' = tries(told("bad")) \cup {try(i)}
        BY <1>8, <2>1
      <3>2. tries(told("ok"))' = tries(told("ok"))
        BY <1>8, <2>1
      <3> QED BY <1>9, <1>10, <1>11, <3>1, <3>2 DEF Promise!Tell, Promise!told
    <2>2. CASE c = "ok"
      <3>1. tries(told("ok"))' = tries(told("ok")) \cup {try(i)}
        BY <1>8, <2>2
      <3>2. tries(told("bad"))' = tries(told("bad"))
        BY <1>8, <2>2
      <3> QED BY <1>9, <1>10, <1>11, <3>1, <3>2 DEF Promise!Tell, Promise!told
    <2> QED BY <2>1, <2>2
  <1>13. try(i) \in Promise!Tries
    BY DEF Promise!Tries, try, Known, Typed, TypeOK
  <1> QED BY <1>12, <1>13 DEF Promise!Next

\* A trigger starts the first try of a lineage that is new.
LEMMA TriggerGrants ==
  ASSUME Known, Trigger
  PROVE  Promise!Next
  <1>1. /\ made + 1 \in Runs /\ 0 \in 0..Retries /\ made + 1 \notin Existing
    BY DEF Trigger, Reserve, Known, Typed, TypeOK, Runs, Existing
  <1>2. \A k \in Existing : origin[k] # made + 1
    BY <1>1 DEF Known, Lineage
  <1>3. Reserve(made + 1, 0) /\ UNCHANGED <<exit, published>>
    BY DEF Trigger
  <1>4. ~ (0 > 0)
    OBVIOUS
  <1> QED BY <1>1, <1>2, <1>3, <1>4, ReserveGrants

\* A timer starts the try after one whose failure was told.
LEMMA RetryGrants ==
  ASSUME Known, NEW i \in Runs, Retry(i), Reserve(origin[i], attempt[i] + 1)
  PROVE  Promise!Next
  <1>1. /\ i \in Existing /\ timer[i] > 0 /\ timer[i] \in {0, 1}
        /\ origin[i] \in Runs /\ attempt[i] + 1 \in 0..Retries
        /\ attempt[i] \in Nat /\ UNCHANGED <<exit, published>>
    <2>1. /\ timer[i] > 0 /\ i <= made /\ made \in Nat
          /\ origin[i] \in Runs /\ attempt[i] + 1 \in 0..Retries
          /\ UNCHANGED <<exit, published>>
      BY RetryEffect DEF Known
    <2>2. timer[i] \in {0, 1} /\ attempt[i] \in Nat
      BY DEF Known, Spent, SpentAt, Typed, TypeOK
    <2>3. i \in Existing
      BY <2>1 DEF Existing, Runs
    <2> QED BY <2>1, <2>2, <2>3
  <1>2. \A k \in Existing : origin[k] = origin[i] => attempt[k] # attempt[i] + 1
    BY <1>1 DEF Known, Lineage, Live, Successor
  <1>3. <<origin[i], (attempt[i] + 1) - 1>> \in tries(told("bad"))
    <2>1. i \in told("bad")
      BY <1>1 DEF Known, Announced, told
    <2>2. (attempt[i] + 1) - 1 = attempt[i]
      BY <1>1
    <2> QED BY <2>1, <2>2 DEF tries, try
  <1> QED BY <1>1, <1>2, <1>3, ReserveGrants

\* What is told of stays as it is.
LEMMA ToldStays ==
  ASSUME OneStream, Known, [Next]_vars,
         NEW i \in Existing, published[i] > 0
  PROVE  exit'[i] = exit[i]
  <1>1. i \in Runs /\ 1 \in Streams
    BY ActiveAreRuns DEF Known, OneStream, Streams
  <1>2. box[i] # "up"
    BY <1>1 DEF Known, EndsOnce, Quiet, Spent, SpentAt
  <1>3. ASSUME NEW j \in Runs, JobEnds(j)
        PROVE  exit'[i] = exit[i]
    BY <1>1, <1>2, <1>3, DieEffect DEF JobEnds, Known, Typed
  <1>4. ASSUME NEW j \in Runs, StopAndRemove(j)
        PROVE  exit'[i] = exit[i]
    BY <1>1, <1>2, <1>4, RemoveEffect DEF Known, Typed
  <1>5. ASSUME NEW j \in Runs, Reaping(j) \/ StopOne(j)
        PROVE  exit'[i] = exit[i]
    BY <1>4, <1>5 DEF Reaping, StuckRead, StuckMark, KillRead, KillStop,
                      KillFails, StopOne
  <1>6. ASSUME NEW j \in Runs,
               Spawning(j) \/ Retry(j) \/ \E s \in Streams : Watching(j, s)
        PROVE  exit' = exit
    BY <1>6 DEF Spawning, Resolve, Start, Poll, SpawnFails, Land, Retry,
                Watching, Hear, Finalise, Publish
  <1>7. CASE Trigger \/ StopList \/ StopMark \/ ServerRestart \/ UNCHANGED vars
    BY <1>7 DEF Trigger, StopList, StopMark, ServerRestart, vars
  <1> QED BY <1>3, <1>5, <1>6, <1>7 DEF Next

\* With one event stream the pool implements what TriggeredJobs states, for any
\* cap, budget and number of runs and however Docker lags: every step of it is
\* a grant, a return of slots, a telling, or nothing a trigger can see.
THEOREM PromiseKept ==
  ASSUME OneStream
  PROVE  Spec => KeepsPromise
  <1>1. Init => Promise!Init
    BY DEF Init, Promise!Init, tries, told, ActiveRuns, Existing
  <1>2. ASSUME Known, [Next]_vars
        PROVE  [Promise!Next]_(Promise!jobs)
    <2>1. CASE Trigger
      BY <1>2, <2>1, TriggerGrants
    <2>2. ASSUME NEW i \in Runs, Retry(i), Reserve(origin[i], attempt[i] + 1)
          PROVE  Promise!Next
      BY <1>2, <2>2, RetryGrants
    <2>3. ASSUME NEW i \in Runs, Retry(i), UNCHANGED <<row, spawn>>
          PROVE  UNCHANGED Promise!jobs
      <3>1. UNCHANGED <<row, exit, published>>
        BY <1>2, <2>3, RetryEffect DEF Known
      <3> QED BY <3>1
              DEF Promise!jobs, row, tries, try, told, ActiveRuns, Existing
    <2>4. ASSUME NEW i \in Runs, NEW s \in Streams, Publish(i, s)
          PROVE  Promise!Next
      BY <1>2, <2>4, PublishTells
    <2>5. CASE /\ ~Trigger /\ ~ \E i \in Runs : Retry(i)
               /\ ~ \E i \in Runs, s \in Streams : Publish(i, s)
      <3>1. UNCHANGED <<made, origin, attempt>>
        BY <1>2, <2>5, LineageKept
      <3>2. published' = published
        BY <1>2, <2>5, TellingStays
      <3>3. \A i \in Existing : status'[i] \in Active => status[i] \in Active
        BY <1>2, <2>5, OthersOnlyEnd, ActiveAreRuns DEF Known
      <3>4. \A i \in Existing : published[i] > 0 => exit'[i] = exit[i]
        BY <1>2, ToldStays
      <3> QED BY <1>2, <3>1, <3>2, <3>3, <3>4, OthersGiveBack
    <2> QED BY <1>2, <2>1, <2>2, <2>3, <2>4, <2>5, RetryEffect DEF Known
  <1> QED BY <1>1, <1>2, KnownAlways, PTL DEF Spec, KeepsPromise, Promise!Spec

-----------------------------------------------------------------------------
(* Slots are real *)

\* Until the stack or the server is stopped, a spawn under way owns its row,
\* a starting row has a spawn under way and a live job an active row.
OwnsRow(i) ==
  /\ spawn[i] \in {"resolving", "creating"} => status[i] = "starting"
  /\ status[i] = "starting" => spawn[i] # "none"
  /\ box[i] = "up" => status[i] \in Active
  /\ reap[i] # "stuck"
Steady ==
  stops = 0 /\ restarts = 0
    => stop = {} /\ stopping = FALSE /\ \A i \in Runs : OwnsRow(i)

\* One step of one run, the other runs' rows and containers staying.
LEMMA OwnsStep ==
  ASSUME ~DockerLags, Typed, EndsOnce, NEW i \in Runs, OwnsRow(i),
         \/ Spawning(i) \/ JobEnds(i) \/ Reaping(i)
         \/ \E s \in Streams : Watching(i, s)
  PROVE  /\ OwnsRow(i)'
         /\ \A j \in Runs \ {i} :
              /\ status'[j] = status[j] /\ spawn'[j] = spawn[j]
              /\ box'[j] = box[j] /\ reap'[j] = reap[j]
         /\ UNCHANGED <<stop, stopping, stops, restarts>>
  <1> DEFINE Others == \A j \in Runs \ {i} :
                /\ status'[j] = status[j] /\ spawn'[j] = spawn[j]
                /\ box'[j] = box[j] /\ reap'[j] = reap[j]
             Calm == UNCHANGED <<stop, stopping, stops, restarts>>
  <1>0. /\ status \in [Runs -> Active \cup Verdicts
                                 \cup {"none", "error", "stopped"}]
        /\ box \in [Runs -> {"absent", "up", "dead"}]
        /\ spawn \in [Runs -> {"none", "resolving", "creating", "polling",
                               "found"}]
        /\ reap \in [Runs -> {"none", "stuck", "kill"}]
        /\ spawn[i] \in {"resolving", "creating"} => box[i] = "absent" /\ Quiet(i)
    BY DEF Typed, TypeOK, EndsOnce
  <1>1. CASE Spawning(i)
    <2>1. CASE Resolve(i) \/ Start(i) \/ Poll(i)
      BY <1>0, <2>1 DEF Resolve, Start, Poll, SpawnGoto, row, OwnsRow, Active
    <2>2. CASE SpawnFails(i)
      BY <1>0, <2>2 DEF SpawnFails, SpawnGoto, OwnsRow, Active
    <2>3. CASE Land(i)
      BY <1>0, <2>3 DEF Land, SpawnGoto, OwnsRow, Active
    <2> QED BY <1>1, <2>1, <2>2, <2>3 DEF Spawning
  <1>2. CASE JobEnds(i)
    <2>1. box'[i] = "dead" /\ \A j \in Runs \ {i} : box'[j] = box[j]
      BY <1>2, DieEffect DEF JobEnds, Typed
    <2> QED BY <1>2, <2>1 DEF JobEnds, row, OwnsRow
  <1>3. CASE Reaping(i)
    <2>1. ~StuckMark(i) /\ ~StuckRead(i)
      BY DEF StuckMark, StuckRead, OwnsRow
    <2>2. CASE KillRead(i) \/ KillFails(i)
      BY <1>0, <2>2 DEF KillRead, KillFails, row, OwnsRow
    <2>3. CASE KillStop(i)
      <3>1. box'[i] = "absent" /\ \A j \in Runs \ {i} : box'[j] = box[j]
        BY <2>3, RemoveEffect DEF KillStop, Typed
      <3> QED BY <1>0, <2>3, <3>1 DEF KillStop, row, OwnsRow
    <2> QED BY <1>3, <2>1, <2>2, <2>3 DEF Reaping
  <1>4. ASSUME NEW s \in Streams, Watching(i, s)
        PROVE  OwnsRow(i)' /\ Others /\ Calm
    <2>1. /\ box[i] # "up" /\ spawn[i] \notin {"resolving", "creating"}
          /\ watch[i][s] \in Heard
      <3>1. watch[i][s] \in Heard
        BY <1>4 DEF Watching, Hear, Finalise, Publish, Heard
      <3> QED BY <3>1 DEF EndsOnce, Quiet, Heard
    <2>2. CASE Finalise(i, s)
      BY <1>0, <2>1, <2>2 DEF Finalise, OwnsRow
    <2>3. CASE ~Finalise(i, s)
      BY <1>4, <2>3 DEF Watching, Hear, Publish, row, OwnsRow
    <2> QED BY <2>2, <2>3
  <1> QED BY <1>1, <1>2, <1>3, <1>4

LEMMA SteadyReserve ==
  ASSUME Typed, Steady, NEW o \in Runs, NEW a \in 0..Retries, Reserve(o, a),
         UNCHANGED <<box, reap, stop, stopping, stops, restarts>>
  PROVE  Steady'
  <1> DEFINE n == made + 1
  <1>1. /\ n \in Runs /\ made \in Nat
        /\ status'[n] = "starting" /\ spawn'[n] = "resolving"
        /\ \A i \in Runs \ {n} : status'[i] = status[i] /\ spawn'[i] = spawn[i]
    BY ReserveType
  <1>2. box[n] = "absent" /\ reap[n] = "none"
    <2>1. n > made /\ n \in Runs
      BY <1>1
    <2> HIDE DEF n
    <2> QED BY <2>1 DEF Typed, Unborn
  <1> HIDE DEF n
  <1> QED BY <1>1, <1>2 DEF Steady, OwnsRow

LEMMA SteadyInductive ==
  ASSUME ~DockerLags, Typed, EndsOnce, Steady, [Next]_vars
  PROVE  Steady'
  <1>1. CASE Trigger
    <2>1. made + 1 \in Runs /\ 0 \in 0..Retries
      BY <1>1 DEF Trigger, Reserve, Typed, TypeOK, Runs
    <2> QED BY <1>1, <2>1, SteadyReserve DEF Trigger
  <1>2. ASSUME NEW i \in Runs, Retry(i)
        PROVE  Steady'
    <2>1. CASE Reserve(origin[i], attempt[i] + 1)
      BY <1>2, <2>1, RetryEffect, SteadyReserve
    <2>2. CASE UNCHANGED <<row, spawn>>
      BY <1>2, <2>2, RetryEffect DEF row, Steady, OwnsRow
    <2> QED BY <1>2, <2>1, <2>2, RetryEffect
  <1>3. ASSUME NEW i \in Runs,
               \/ Spawning(i) \/ JobEnds(i) \/ Reaping(i)
               \/ \E s \in Streams : Watching(i, s)
        PROVE  Steady'
    <2>1. UNCHANGED <<stop, stopping, stops, restarts>>
      BY <1>3 DEF Spawning, Resolve, Start, Poll, SpawnFails, Land, JobEnds,
                  Reaping, StuckRead, StuckMark, KillRead, KillStop, KillFails,
                  Watching, Hear, Finalise, Publish
    <2>2. CASE stops = 0 /\ restarts = 0
      <3>1. stop = {} /\ stopping = FALSE /\ \A j \in Runs : OwnsRow(j)
        BY <2>2 DEF Steady
      <3>2. /\ OwnsRow(i)'
            /\ \A j \in Runs \ {i} :
                 /\ status'[j] = status[j] /\ spawn'[j] = spawn[j]
                 /\ box'[j] = box[j] /\ reap'[j] = reap[j]
        BY <1>3, <3>1, OwnsStep
      <3> QED BY <2>1, <3>1, <3>2 DEF Steady, OwnsRow
    <2> QED BY <2>1, <2>2 DEF Steady
  <1>4. CASE StopMark \/ \E i \in Runs : StopOne(i)
    BY <1>4 DEF StopMark, StopOne, Steady
  <1>5. CASE StopList \/ ServerRestart
    <2>1. stops' = stops + 1 \/ restarts' = restarts + 1
      BY <1>5 DEF StopList, ServerRestart
    <2>2. stops \in Nat /\ restarts \in Nat
      BY DEF Typed, TypeOK
    <2> QED BY <2>1, <2>2 DEF Steady
  <1>6. CASE UNCHANGED vars
    BY <1>6 DEF vars, row, server, Steady, OwnsRow
  <1> QED BY <1>1, <1>2, <1>3, <1>4, <1>5, <1>6 DEF Next

\* While Docker answers and nobody stops the stack or the server, the cap on
\* rows is a cap on live jobs, for any cap and number of runs.
THEOREM LiveJobs ==
  ASSUME ~DockerLags
  PROVE  Spec => []JobsWithinCap
  <1>1. Init => Steady
    BY DEF Init, Steady, OwnsRow, Active
  <1>2. Typed /\ EndsOnce /\ Steady /\ [Next]_vars => Steady'
    BY SteadyInductive
  <1>3. Typed /\ Steady /\ CapRespected => JobsWithinCap
    <2> SUFFICES ASSUME Typed, Steady, CapRespected, stops = 0, restarts = 0
                 PROVE  Cardinality({i \in Runs : box[i] = "up"})
                          <= MaxConcurrent
      BY DEF JobsWithinCap
    <2> DEFINE Up == {i \in Runs : box[i] = "up"}
    <2>1. ASSUME NEW i \in Up
          PROVE  i \in ActiveRuns
      <3>1. i \in Runs /\ box[i] = "up" /\ status[i] \in Active
        BY DEF Steady, OwnsRow
      <3>2. i <= made /\ made \in Nat
        BY <3>1, Born
      <3> QED BY <3>1, <3>2 DEF ActiveRuns, Existing, Runs
    <2>2. Up \subseteq ActiveRuns
      BY <2>1
    <2>3. /\ Cardinality(Up) <= Cardinality(ActiveRuns)
          /\ Cardinality(Up) \in Nat /\ Cardinality(ActiveRuns) \in Nat
      BY <2>2, ActiveAreRuns, FS_Subset, FS_CardinalityType
    <2> QED BY <2>3 DEF CapRespected
  <1> QED BY <1>1, <1>2, <1>3, EndsAlways, Cap, PTL DEF Spec

=============================================================================

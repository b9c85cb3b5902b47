------------------------------ MODULE JobPools ------------------------------
(***************************************************************************)
(* The runs of ONE service of type JobPool: runJobPool, which every trigger *)
(* calls, the watcher of Docker's die events that settles a run, the        *)
(* scheduler that retries a failed one, the two passes of the reaper that   *)
(* concern runs, and the stop of the whole stack.                           *)
(*                                                                          *)
(* Runs are numbered in the order of their rows; every run has a runId of   *)
(* its own.  A job ends well or badly; an event without an exit code counts *)
(* as badly.  Whether the stack is in error is left open: a trigger may     *)
(* always be refused.  Error messages and history payloads are left out.    *)
(*                                                                          *)
(* DockerService opens an event stream when it connects, and one more each  *)
(* time its settings change; a listener hears a die event once per stream.  *)
(***************************************************************************)
EXTENDS Naturals, FiniteSets

CONSTANTS
  MaxConcurrent, \* JobPoolConfig.maxConcurrent
  Retries,       \* JobPoolConfig.onFailure.retries
  KillsLate,     \* is JobPoolConfig.killAfterSeconds set?
  OpenStreams,   \* open Docker event streams
  DockerLags,    \* may Docker take minutes to answer?  A spawn may then outlast
                 \* five minutes, and inspections fail for thirty seconds
  MaxRuns,       \* bound: runs ever reserved
  MaxStops,      \* bound: stops of the stack
  MaxRestarts    \* bound: restarts of the server

ASSUME ConfigAssumption ==
  /\ MaxConcurrent \in Nat \ {0} /\ Retries \in Nat
  /\ KillsLate \in BOOLEAN /\ DockerLags \in BOOLEAN
ASSUME BoundsAssumption ==
  /\ OpenStreams \in Nat \ {0}
  /\ MaxRuns \in Nat /\ MaxStops \in Nat /\ MaxRestarts \in Nat

Runs == 1..MaxRuns
Streams == 1..OpenStreams

VARIABLES
  made,      \* number of runs reserved
  status,    \* PoolInstance.status
  origin,    \* the run its trigger reserved first
  attempt,   \* label retry-attempt of its container
  box,       \* its container
  exit,      \* how its job ended, as the die event says
  spawn,     \* where runJobPool is with it
  watch,     \* where handleEvent is with its die event, per stream
  timer,     \* retries of it waiting for their backoff
  published, \* history events sent about its end
  reap,      \* what the reaper read it for
  stop,      \* containers the stop of the stack has still to remove
  stopping, stops, restarts

row == <<made, status, origin, attempt>>
server == <<spawn, watch, timer, reap, stop, stopping>>
vars == <<row, box, exit, server, published, stops, restarts>>

Active == {"starting", "running"}
Verdicts == {"completed", "failed"}
Existing == 1..made
ActiveRuns == {i \in Existing : status[i] \in Active}

TypeOK ==
  /\ made \in 0..MaxRuns
  /\ status \in [Runs -> Active \cup Verdicts \cup {"none", "error", "stopped"}]
  /\ origin \in [Runs -> Runs]
  /\ attempt \in [Runs -> 0..Retries]
  /\ box \in [Runs -> {"absent", "up", "dead"}]
  /\ exit \in [Runs -> {"none", "ok", "bad"}]
  /\ spawn \in [Runs -> {"none", "resolving", "creating", "polling", "found"}]
  /\ watch \in [Runs -> [Streams -> {"quiet", "heard", "read", "written",
                                     "done", "lost"}]]
  /\ timer \in [Runs -> Nat]
  /\ published \in [Runs -> Nat]
  /\ reap \in [Runs -> {"none", "stuck", "kill"}]
  /\ stop \in SUBSET Runs
  /\ stopping \in BOOLEAN
  /\ stops \in 0..MaxStops /\ restarts \in 0..MaxRestarts

Init ==
  /\ made = 0
  /\ status = [i \in Runs |-> "none"]
  /\ origin = [i \in Runs |-> i]
  /\ attempt = [i \in Runs |-> 0]
  /\ box = [i \in Runs |-> "absent"]
  /\ exit = [i \in Runs |-> "none"]
  /\ spawn = [i \in Runs |-> "none"]
  /\ watch = [i \in Runs |-> [s \in Streams |-> "quiet"]]
  /\ timer = [i \in Runs |-> 0]
  /\ published = [i \in Runs |-> 0]
  /\ reap = [i \in Runs |-> "none"]
  /\ stop = {} /\ stopping = FALSE
  /\ stops = 0 /\ restarts = 0

-----------------------------------------------------------------------------
(* runJobPool *)

\* Slip: the cap counts the runs that run, not those that will.
ReserveUnderRunning(o, a) ==
  /\ made < MaxRuns
  /\ Cardinality({i \in Existing : status[i] = "running"}) < MaxConcurrent
  /\ made' = made + 1
  /\ status' = [status EXCEPT ![made + 1] = "starting"]
  /\ origin' = [origin EXCEPT ![made + 1] = o]
  /\ attempt' = [attempt EXCEPT ![made + 1] = a]
  /\ spawn' = [spawn EXCEPT ![made + 1] = "resolving"]

\* One transaction: cap not reached, create.  A full pool skips the run.
Reserve(o, a) ==
  /\ made < MaxRuns
  /\ Cardinality(ActiveRuns) < MaxConcurrent
  /\ made' = made + 1
  /\ status' = [status EXCEPT ![made + 1] = "starting"]
  /\ origin' = [origin EXCEPT ![made + 1] = o]
  /\ attempt' = [attempt EXCEPT ![made + 1] = a]
  /\ spawn' = [spawn EXCEPT ![made + 1] = "resolving"]

\* A cron tick, a NATS request or the manual route.
Trigger ==
  /\ Reserve(made + 1, 0)
  /\ UNCHANGED <<box, exit, watch, timer, published, reap, stop, stopping,
                 stops, restarts>>

SpawnGoto(i, pc) == spawn' = [spawn EXCEPT ![i] = pc]

\* The runtime env resolver is done.
Resolve(i) ==
  /\ spawn[i] = "resolving"
  /\ SpawnGoto(i, "creating")
  /\ UNCHANGED <<row, box, exit, watch, timer, published, reap, stop,
                 stopping, stops, restarts>>

\* spawnPoolInstance has created and started the container.
Start(i) ==
  /\ spawn[i] = "creating"
  /\ box' = [box EXCEPT ![i] = "up"]
  /\ SpawnGoto(i, "polling")
  /\ UNCHANGED <<row, exit, watch, timer, published, reap, stop, stopping,
                 stops, restarts>>

\* inspect() finds the container, running or already exited.
Poll(i) ==
  /\ spawn[i] = "polling"
  /\ box[i] # "absent"
  /\ SpawnGoto(i, "found")
  /\ UNCHANGED <<row, box, exit, watch, timer, published, reap, stop,
                 stopping, stops, restarts>>

\* The resolver, the creation or the start failed, or no inspection answered
\* for thirty seconds: the row is in error whatever it was.
SpawnFails(i) ==
  /\ \/ spawn[i] \in {"resolving", "creating"}
     \/ spawn[i] = "polling" /\ (DockerLags \/ box[i] = "absent")
  /\ status' = [status EXCEPT ![i] = "error"]
  /\ SpawnGoto(i, "none")
  /\ UNCHANGED <<made, origin, attempt, box, exit, watch, timer, published,
                 reap, stop, stopping, stops, restarts>>

\* Slip: the row becomes running whatever it is now.
LandAnyway(i) ==
  /\ spawn[i] = "found"
  /\ status' = [status EXCEPT ![i] = "running"]
  /\ SpawnGoto(i, "none")
  /\ UNCHANGED <<made, origin, attempt, box, exit, watch, timer, published,
                 reap, stop, stopping, stops, restarts>>

\* starting -> running, unless somebody settled the run in the meantime.
Land(i) ==
  /\ spawn[i] = "found"
  /\ status' = [status EXCEPT ![i] = IF @ = "starting" THEN "running" ELSE @]
  /\ SpawnGoto(i, "none")
  /\ UNCHANGED <<made, origin, attempt, box, exit, watch, timer, published,
                 reap, stop, stopping, stops, restarts>>

-----------------------------------------------------------------------------
(* The die event and its watcher *)

\* The job ends; Docker tells every open stream.
Die(i, left) ==
  /\ box[i] = "up"
  /\ box' = [box EXCEPT ![i] = left]
  /\ exit' \in {[exit EXCEPT ![i] = c] : c \in {"ok", "bad"}}
  /\ watch' = [watch EXCEPT ![i] = [s \in Streams |-> "heard"]]

\* Slip: the listener takes the removal of a container for its end.
StopAndRemoveTold(i) ==
  \/ Die(i, "absent")
  \/ /\ box[i] # "up"
     /\ box' = [box EXCEPT ![i] = "absent"]
     /\ watch' = [watch EXCEPT ![i] = [s \in Streams |-> "heard"]]
     /\ UNCHANGED exit

\* Stopping and removing a container: one that had ended is only removed.
StopAndRemove(i) ==
  \/ Die(i, "absent")
  \/ /\ box[i] # "up"
     /\ box' = [box EXCEPT ![i] = "absent"]
     /\ UNCHANGED <<exit, watch>>

JobEnds(i) ==
  /\ Die(i, "dead")
  /\ UNCHANGED <<row, spawn, timer, published, reap, stop, stopping, stops,
                 restarts>>

WatchGoto(i, s, pc) == watch' = [watch EXCEPT ![i][s] = pc]

\* Slip: a run that has not landed yet is left to its spawn.
HearRunning(i, s) ==
  /\ watch[i][s] = "heard"
  /\ WatchGoto(i, s, IF status[i] = "running" THEN "read" ELSE "done")
  /\ UNCHANGED <<row, box, exit, spawn, timer, published, reap, stop,
                 stopping, stops, restarts>>

\* Reads the row; a run that is settled already is left alone.
Hear(i, s) ==
  /\ watch[i][s] = "heard"
  /\ WatchGoto(i, s, IF status[i] \in Verdicts THEN "done" ELSE "read")
  /\ UNCHANGED <<row, box, exit, spawn, timer, published, reap, stop,
                 stopping, stops, restarts>>

Finalise(i, s) ==
  /\ watch[i][s] = "read"
  /\ status' = [status EXCEPT ![i] = IF exit[i] = "ok" THEN "completed"
                                     ELSE "failed"]
  /\ WatchGoto(i, s, "written")
  /\ UNCHANGED <<made, origin, attempt, box, exit, spawn, timer, published,
                 reap, stop, stopping, stops, restarts>>

\* scheduleJobPoolRetry is asked for attempt + 1.
RetryDue(i) == attempt[i] + 1 <= Retries

\* Slip: how the job ended is not looked at again before its retry.
PublishRetriesAll(i, s) ==
  /\ watch[i][s] = "written"
  /\ published' = [published EXCEPT ![i] = @ + 1]
  /\ \/ /\ RetryDue(i)
        /\ timer' = [timer EXCEPT ![i] = @ + 1]
     \/ UNCHANGED timer
  /\ WatchGoto(i, s, "done")
  /\ UNCHANGED <<row, box, exit, spawn, reap, stop, stopping, stops, restarts>>

\* History event, then the retry of a failed run; it is lost if Docker cannot
\* be reached at that moment.
Publish(i, s) ==
  /\ watch[i][s] = "written"
  /\ published' = [published EXCEPT ![i] = @ + 1]
  /\ \/ /\ exit[i] = "bad" /\ RetryDue(i)
        /\ timer' = [timer EXCEPT ![i] = @ + 1]
     \/ UNCHANGED timer
  /\ WatchGoto(i, s, "done")
  /\ UNCHANGED <<row, box, exit, spawn, reap, stop, stopping, stops, restarts>>

\* Slip: the attempt counter does not travel with the retry.
RetryFromZero(i) ==
  /\ timer[i] > 0
  /\ timer' = [timer EXCEPT ![i] = @ - 1]
  /\ \/ Reserve(origin[i], 0)
     \/ UNCHANGED <<row, spawn>>
  /\ UNCHANGED <<box, exit, watch, published, reap, stop, stopping, stops,
                 restarts>>

\* The backoff is over.  A retry that is refused is not tried again.
Retry(i) ==
  /\ timer[i] > 0
  /\ timer' = [timer EXCEPT ![i] = @ - 1]
  /\ \/ Reserve(origin[i], attempt[i] + 1)
     \/ UNCHANGED <<row, spawn>>
  /\ UNCHANGED <<box, exit, watch, published, reap, stop, stopping, stops,
                 restarts>>

-----------------------------------------------------------------------------
(* The reaper, and the stop of the stack *)

\* Slip: the stuck pass forgets that the spawn may be under way.
StuckReadAtOnce(i) ==
  /\ status[i] = "starting" /\ reap[i] = "none"
  /\ reap' = [reap EXCEPT ![i] = "stuck"]
  /\ UNCHANGED <<row, box, exit, spawn, watch, timer, published, stop,
                 stopping, stops, restarts>>

\* Starting for five minutes.  Its row names no container yet.
StuckRead(i) ==
  /\ status[i] = "starting" /\ reap[i] = "none"
  /\ DockerLags \/ spawn[i] = "none"
  /\ reap' = [reap EXCEPT ![i] = "stuck"]
  /\ UNCHANGED <<row, box, exit, spawn, watch, timer, published, stop,
                 stopping, stops, restarts>>

StuckMark(i) ==
  /\ reap[i] = "stuck"
  /\ status' = [status EXCEPT ![i] = "error"]
  /\ reap' = [reap EXCEPT ![i] = "none"]
  /\ UNCHANGED <<made, origin, attempt, box, exit, spawn, watch, timer,
                 published, stop, stopping, stops, restarts>>

\* Running for longer than killAfterSeconds.
KillRead(i) ==
  /\ KillsLate
  /\ status[i] = "running" /\ reap[i] = "none"
  /\ reap' = [reap EXCEPT ![i] = "kill"]
  /\ UNCHANGED <<row, box, exit, spawn, watch, timer, published, stop,
                 stopping, stops, restarts>>

\* The watcher stays the one that settles the run.
KillStop(i) ==
  /\ reap[i] = "kill"
  /\ StopAndRemove(i)
  /\ reap' = [reap EXCEPT ![i] = "none"]
  /\ UNCHANGED <<row, spawn, timer, published, stop, stopping, stops, restarts>>

\* (Docker refuses: retried by the next tick)
KillFails(i) ==
  /\ reap[i] = "kill"
  /\ reap' = [reap EXCEPT ![i] = "none"]
  /\ UNCHANGED <<row, box, exit, spawn, watch, timer, published, stop,
                 stopping, stops, restarts>>

\* stopStack lists the stack's containers ...
StopList ==
  /\ ~stopping /\ stops < MaxStops
  /\ stopping' = TRUE /\ stops' = stops + 1
  /\ stop' = {i \in Runs : box[i] # "absent"}
  /\ UNCHANGED <<row, box, exit, spawn, watch, timer, published, reap,
                 restarts>>

\* ... removes one after the other (or fails to) ...
StopOne(i) ==
  /\ i \in stop
  /\ stop' = stop \ {i}
  /\ StopAndRemove(i) \/ UNCHANGED <<box, exit, watch>>
  /\ UNCHANGED <<row, spawn, timer, published, reap, stopping, stops, restarts>>

\* ... and marks the rows that are active now.
StopMark ==
  /\ stopping /\ stop = {}
  /\ status' = [i \in Runs |-> IF status[i] \in Active THEN "stopped"
                                ELSE status[i]]
  /\ stopping' = FALSE
  /\ UNCHANGED <<made, origin, attempt, box, exit, spawn, watch, timer,
                 published, reap, stop, stops, restarts>>

\* Handlers and timers are gone; what ends meanwhile is not heard of.
ServerRestart ==
  /\ restarts < MaxRestarts
  /\ restarts' = restarts + 1
  /\ \E ended \in SUBSET {i \in Runs : box[i] = "up"} :
       /\ box' = [i \in Runs |-> IF i \in ended THEN "dead" ELSE box[i]]
       /\ watch' = [i \in Runs |-> [s \in Streams |->
            IF i \in ended \/ watch[i][s] \in {"heard", "read", "written"}
              THEN "lost" ELSE watch[i][s]]]
  /\ spawn' = [i \in Runs |-> "none"]
  /\ timer' = [i \in Runs |-> 0]
  /\ reap' = [i \in Runs |-> "none"]
  /\ stop' = {} /\ stopping' = FALSE
  /\ UNCHANGED <<row, exit, published, stops>>

-----------------------------------------------------------------------------

Spawning(i) == Resolve(i) \/ Start(i) \/ Poll(i) \/ SpawnFails(i) \/ Land(i)
Watching(i, s) == Hear(i, s) \/ Finalise(i, s) \/ Publish(i, s)
Reaping(i) ==
  StuckRead(i) \/ StuckMark(i) \/ KillRead(i) \/ KillStop(i) \/ KillFails(i)

Next ==
  \/ Trigger
  \/ \E i \in Runs :
       \/ Spawning(i) \/ JobEnds(i) \/ Retry(i) \/ Reaping(i) \/ StopOne(i)
       \/ \E s \in Streams : Watching(i, s)
  \/ StopList \/ StopMark \/ ServerRestart

Spec == Init /\ [][Next]_vars

\* Calls settle, ticks come round, and Docker does not refuse the same
\* removal for ever.  Nothing triggers a run, and no job need end by itself.
Fairness ==
  \A i \in Runs :
    /\ WF_vars(Spawning(i)) /\ WF_vars(Retry(i)) /\ WF_vars(Reaping(i))
    /\ SF_vars(KillStop(i))
    /\ \A s \in Streams : WF_vars(Watching(i, s))
FairSpec == Spec /\ Fairness

-----------------------------------------------------------------------------
(* Properties *)

\* However triggers, retries, spawns and verdicts interleave, no more than
\* maxConcurrent rows hold a slot.
CapRespected == Cardinality(ActiveRuns) <= MaxConcurrent

\* The slots are real: while Docker answers and nobody stops the stack or the
\* server, no more than maxConcurrent jobs run, so no row gives its slot up
\* under a live job.
JobsWithinCap ==
  stops = 0 /\ restarts = 0
    => Cardinality({i \in Runs : box[i] = "up"}) <= MaxConcurrent

\* A trigger leads to one run per attempt: with one event stream its retries
\* form a chain, which ends after onFailure.retries.
LineageIsAChain ==
  \A i, j \in Existing :
    origin[i] = origin[j] /\ attempt[i] = attempt[j] => i = j

\* The watcher's verdict stands: nobody takes it back to an active status,
\* to stopped, or to the other verdict.
VerdictStands ==
  [][\A i \in Existing :
       status[i] \in Verdicts => status'[i] \in {status[i], "error"}]_vars

\* The end of a run is told once, also when Docker repeats its die event.
FinalisedOnce == \A i \in Runs : published[i] <= 1

\* The abstract view: a run is one try of its trigger.
try(i) == <<origin[i], attempt[i]>>
tries(S) == {try(i) : i \in S}
told(how) == {i \in Existing : published[i] > 0 /\ exit[i] = how}
Promise == INSTANCE TriggeredJobs
  WITH Triggers <- Runs, Retries <- Retries, Cap <- MaxConcurrent,
       held <- tries(ActiveRuns), over <- tries(Existing \ ActiveRuns),
       failed <- tries(told("bad")), succeeded <- tries(told("ok"))

\* Through lost events, kills, stops and restarts the pool keeps what it
\* promises its triggers: a retry starts only after the failure before it was
\* told, no try has a slot twice, and no end is told before its slot is free.
KeepsPromise == Promise!Spec

\* Every run gives its slot back, except one whose die event was lost with
\* the server: nothing else settles that one.
EveryRunSettles ==
  \A i \in Runs :
    (status[i] \in Active)
      ~> (status[i] \notin Active \/ \A s \in Streams : watch[i][s] = "lost")

=============================================================================

----------------------------- MODULE Deployments -----------------------------
(***************************************************************************)
(* The deployments of ONE StatelessWeb service behind HAProxy: the four    *)
(* state machines of services/haproxy (first deployment, blue-green        *)
(* deployment, blue-green update, removal), the actions they start, and    *)
(* what those leave in Docker, in HAProxy and in the database.             *)
(*                                                                         *)
(* The operation lock lets one machine run at a time; a machine that ended *)
(* in failed goes on cleaning up in the background.  The machines differ   *)
(* in a few transitions only, so they share their states here.  A timer    *)
(* (after: ...) is one way an action may fail; what an action does after   *)
(* its state was left by a timer is left out.  Certificates, DNS and the   *)
(* HAProxyBackend and HAProxyServer rows, which nothing here reads back,   *)
(* are left out too.                                                       *)
(***************************************************************************)
EXTENDS Naturals, FiniteSets

CONSTANTS
  MaxContainers, \* bound: containers ever deployed
  Faults,        \* what may fail, of:
                 \*  "container"  create, start, stop, remove of a container
                 \*  "haproxy"    a call of the data plane API
                 \*  "torn"       the removal of a route, half way
                 \*  "listing"    the container list that tells stale servers
  CleanupIsPrompt, \* does the clean-up of a failed run end before the next run?
  MayRestart     \* may the server process restart?

AllFaults == {"container", "haproxy", "torn", "listing"}

ASSUME MaxContainersAssumption == MaxContainers \in Nat
ASSUME FaultsAssumption == Faults \subseteq AllFaults
ASSUME FlagsAssumption == CleanupIsPrompt \in BOOLEAN /\ MayRestart \in BOOLEAN

Containers == 1..MaxContainers   \* in the order of their runs

VARIABLES
  made,      \* containers deployed so far
  container, \* what Docker shows of a container
  well,      \* does it answer health checks while it runs?
  server,    \* its server in the HAProxy backend, admin state
  backend,   \* does HAProxy have the backend?
  rule,      \* does HAProxy's shared frontend route the hostname to it?
  route,     \* is there a HAProxyRoute row?
  run,       \* the machine
  cleaning   \* where cleanupFailedDeployment is, per container

haproxy == <<server, backend, rule, route>>
docker == <<made, container, well>>
vars == <<docker, haproxy, run, cleaning>>

DeployKinds == {"initial", "replace", "update"}
Kinds == DeployKinds \cup {"removal"}
Final == {"idle", "completed", "rollbackComplete", "failed"}
RollbackStates == {"rollbackRemoveFrontend", "rollbackDisableTraffic",
                   "rollbackRemoveConfig", "rollbackStopping",
                   "rollbackRemoving"}
States == Final \cup RollbackStates \cup
          {"deploying", "waitingReady", "initializingLB", "healthCheck",
           "configuringFrontend", "openingTraffic", "drainingBlue",
           "waitingForDrain", "decommissioningBlueLB", "stoppingBlue",
           "removingBlue", "removingFromLB", "removingFrontend",
           "stoppingApplication", "removingApplication"}
CleanupStages == {"none", "lb", "count", "frontend", "stop", "remove"}

\* new: newContainerId, old: oldContainerId or containersToRemove.  served is
\* not in the code: the service was up when the run began, and no container
\* of it has died since.
Machine == [kind : Kinds \cup {"none"}, at : States, new : 0..MaxContainers,
            old : SUBSET Containers, served : BOOLEAN]

NoRun == [kind |-> "none", at |-> "idle", new |-> 0, old |-> {},
          served |-> FALSE]

TypeOK ==
  /\ made \in 0..MaxContainers
  /\ container \in [Containers -> {"none", "created", "running", "stopped"}]
  /\ well \in [Containers -> BOOLEAN]
  /\ server \in [Containers -> {"none", "ready", "maint", "drain"}]
  /\ backend \in BOOLEAN /\ rule \in BOOLEAN /\ route \in BOOLEAN
  /\ run \in Machine
  /\ cleaning \in [Containers -> CleanupStages]

Init ==
  /\ made = 0
  /\ container = [c \in Containers |-> "none"]
  /\ well = [c \in Containers |-> FALSE]
  /\ server = [c \in Containers |-> "none"]
  /\ backend = FALSE /\ rule = FALSE /\ route = FALSE
  /\ run = NoRun
  /\ cleaning = [c \in Containers |-> "none"]

-----------------------------------------------------------------------------
(* Vocabulary *)

Fails(what) == what \in Faults
Present == {c \in Containers : container[c] # "none"}
Ended == run.at \in Final
At(state) == run.at = state
Is(kinds) == run.kind \in kinds
Goto(state) == run' = [run EXCEPT !.at = state]

\* HAProxy sends requests for the hostname to a container that answers.
Up(c) == server[c] = "ready" /\ container[c] = "running" /\ well[c]
Serving == rule /\ backend /\ \E c \in Containers : Up(c)

\* Servers of a backend go with it.
NoServers == [c \in Containers |-> "none"]
SetState(cs, state) ==
  server' = [c \in Containers |->
    IF c \in cs /\ server[c] # "none" THEN state ELSE server[c]]
Without(cs) == [c \in Containers |-> IF c \in cs THEN "none" ELSE server[c]]

-----------------------------------------------------------------------------
(* The actions the machines start *)

\* Servers whose container Docker does not list.  The list is asked for each
\* server; when it fails, that counts as "does not exist".
StaleServers ==
  LET enlisted == {c \in Containers : server[c] # "none"}
      gone == {c \in enlisted : container[c] = "none"}
  IN  {gone \cup doubted : doubted \in
         IF Fails("listing") THEN SUBSET enlisted ELSE {{}}}

\* RemoveContainerFromLB: the servers of cs, then the stale ones.  A server
\* whose statistics cannot be read is taken for gone and stays; so does one
\* that fails to be deleted.
RemoveFromLB(cs) ==
  /\ \E stale \in StaleServers :
       \E left \in IF Fails("haproxy") THEN SUBSET (cs \cup stale) ELSE {{}} :
         server' = (IF backend THEN Without((cs \cup stale) \ left) ELSE server)
  /\ UNCHANGED <<backend, rule, route>>

\* removeBackendIfOrphaned; its errors are only logged.
DropBackend ==
  \/ backend' = FALSE /\ server' = NoServers
  \/ Fails("haproxy") /\ UNCHANGED <<backend, server>>

\* RemoveFrontend: switching rule, ACL, row, then the orphaned backend.
RemoveFrontend ==
  \/ route /\ rule' = FALSE /\ route' = FALSE /\ DropBackend
  \/ ~route /\ UNCHANGED <<rule, route>> /\ DropBackend
  \/ route /\ Fails("haproxy") /\ UNCHANGED haproxy
  \/ route /\ Fails("torn") /\ rule' = FALSE
       /\ UNCHANGED <<server, backend, route>>

\* StopApplication and RemoveApplication go on when a container resists.
Stopped(cs) ==
  \E bad \in SUBSET cs :
    /\ bad # {} => Fails("container")
    /\ container' = [c \in Containers |->
         IF c \in cs \ bad /\ container[c] = "running"
           THEN "stopped" ELSE container[c]]
    /\ UNCHANGED <<made, well>>

Removed(cs) ==
  \E bad \in SUBSET cs :
    /\ bad # {} => Fails("container")
    /\ container' = [c \in Containers |->
         IF c \in cs \ bad THEN "none" ELSE container[c]]
    /\ UNCHANGED <<made, well>>

-----------------------------------------------------------------------------
(* A run starts: applyStatelessWeb, updateStatelessWeb, removeStackContainers *)

\* One at a time; a machine that failed may still be cleaning up.
MayStart ==
  /\ Ended
  /\ CleanupIsPrompt => \A c \in Containers : cleaning[c] = "none"

\* The plan says create when no container is listed, else recreate or, from
\* the update route, update.  buildContainerMap keeps one container of the
\* service as the old one, the last it saw.
StartDeployment ==
  /\ MayStart /\ made < MaxContainers
  /\ \/ Present = {} /\ run' = [NoRun EXCEPT !.kind = "initial",
                                             !.at = "deploying"]
     \/ \E c \in Present, kind \in {"replace", "update"} :
          run' = [NoRun EXCEPT !.kind = kind, !.at = "deploying",
                               !.old = {c}, !.served = Serving]
  /\ UNCHANGED <<docker, haproxy, cleaning>>

\* Destroying the stack: every container of the service.
StartRemoval ==
  /\ MayStart
  /\ run' = [NoRun EXCEPT !.kind = "removal", !.at = "removingFromLB",
                          !.old = Present]
  /\ UNCHANGED <<docker, haproxy, cleaning>>

\* Stopping the stack removes its containers and leaves HAProxy alone.
StopStack ==
  /\ MayStart
  /\ Removed(Present)
  /\ run' = NoRun
  /\ UNCHANGED <<haproxy, cleaning>>

-----------------------------------------------------------------------------
(* The three deployment machines *)

DeploySucceeds ==
  /\ At("deploying")
  /\ made' = made + 1
  /\ container' = [container EXCEPT ![made'] = "running"]
  /\ \E w \in BOOLEAN : well' = [well EXCEPT ![made'] = w]
  /\ run' = [run EXCEPT !.at = "waitingReady", !.new = made']
  /\ UNCHANGED <<haproxy, cleaning>>

\* DEPLOYMENT_ERROR carries no container id: one that was created and did not
\* start stays, and there is nothing for the clean-up to do.
DeployFails ==
  /\ At("deploying") /\ Fails("container")
  /\ made' = made + 1
  /\ container' \in {container, [container EXCEPT ![made'] = "created"]}
  /\ Goto("failed")
  /\ UNCHANGED <<well, haproxy, cleaning>>

\* MonitorContainerStartup, two minutes at most.
ContainerReady ==
  /\ At("waitingReady")
  /\ \/ container[run.new] = "running" /\ Goto("initializingLB")
     \/ Goto(IF Is({"initial"}) THEN "rollbackStopping"
                                ELSE "rollbackRemoving")
  /\ UNCHANGED <<docker, haproxy, cleaning>>

\* AddContainerToLB: the backend when there is none, then an enabled server.
\* After an error either may be there; blue-green goes on without removing it.
AddToLB ==
  /\ At("initializingLB")
  /\ \/ /\ backend' = TRUE
        /\ server' = [server EXCEPT ![run.new] = "ready"]
        /\ Goto("healthCheck")
     \/ /\ Fails("haproxy")
        /\ backend' \in {backend, TRUE}
        /\ server' \in {server, [server EXCEPT ![run.new] =
                                   IF backend' THEN "ready" ELSE @]}
        /\ Goto(IF Is({"initial"}) THEN "rollbackRemoveConfig"
                                   ELSE "rollbackStopping")
  /\ UNCHANGED <<rule, route, docker, cleaning>>

\* Slip: a server that HAProxy still calls down goes on to the frontend.
HealthCheckLenient ==
  /\ At("healthCheck")
  /\ Goto(IF Is({"update"}) THEN "openingTraffic" ELSE "configuringFrontend")
  /\ UNCHANGED <<docker, haproxy, cleaning>>

\* Slip: the machine has no timer and no transition for a health check that
\* gives up.
HealthCheckForever ==
  /\ At("healthCheck")
  /\ Up(run.new)
  /\ Goto(IF Is({"update"}) THEN "openingTraffic" ELSE "configuringFrontend")
  /\ UNCHANGED <<docker, haproxy, cleaning>>

\* PerformHealthChecks polls HAProxy until the server is UP or time is over.
HealthCheck ==
  /\ At("healthCheck")
  /\ \/ /\ Up(run.new)
        /\ Goto(IF Is({"update"}) THEN "openingTraffic"
                                  ELSE "configuringFrontend")
     \/ Goto("rollbackRemoveConfig")
  /\ UNCHANGED <<docker, haproxy, cleaning>>

\* ConfigureFrontend: a hostname that has a row is taken as routed, HAProxy
\* is not touched.
ConfigureFrontend ==
  /\ At("configuringFrontend")
  /\ \/ backend /\ route /\ UNCHANGED <<rule, route>> /\ Goto("openingTraffic")
     \/ /\ backend /\ ~route
        /\ rule' = TRUE /\ route' = TRUE
        /\ Goto("openingTraffic")
     \/ /\ ~backend \/ Fails("haproxy")
        /\ rule' \in {rule, rule \/ (backend /\ ~route)}
        /\ route' = route
        /\ Goto(IF Is({"initial"}) THEN "rollbackRemoveFrontend"
                                   ELSE "rollbackRemoveConfig")
  /\ UNCHANGED <<server, backend, docker, cleaning>>

\* EnableTraffic: the admin state, which addServer had set already.
OpenTraffic ==
  /\ At("openingTraffic")
  /\ \/ /\ server[run.new] # "none"
        /\ SetState({run.new}, "ready")
        /\ Goto(IF Is({"initial"}) THEN "completed" ELSE "drainingBlue")
     \/ /\ server[run.new] = "none" \/ Fails("haproxy")
        /\ UNCHANGED server \/ SetState({run.new}, "ready")
        /\ Goto(CASE Is({"initial"}) -> "rollbackRemoveFrontend"
                  [] Is({"replace"}) -> "rollbackDisableTraffic"
                  [] Is({"update"})  -> "rollbackRemoveConfig")
  /\ UNCHANGED <<backend, rule, route, docker, cleaning>>

\* Slip: a drain that cannot be started rolls green back, as it once did.
DrainOrRollBack ==
  /\ At("drainingBlue")
  /\ \/ /\ \A c \in run.old : server[c] # "none"
        /\ SetState(run.old, "drain")
        /\ Goto("waitingForDrain")
     \/ /\ Fails("haproxy") \/ \A c \in run.old : server[c] = "none"
        /\ UNCHANGED server \/ SetState(run.old, "drain")
        /\ Goto("rollbackRemoveConfig")
  /\ UNCHANGED <<backend, rule, route, docker, cleaning>>

\* InitiateDrain; its failure is not critical once green is live.
Drain ==
  /\ At("drainingBlue")
  /\ \/ /\ \A c \in run.old : server[c] # "none"
        /\ SetState(run.old, "drain")
        /\ Goto("waitingForDrain")
     \/ /\ Fails("haproxy") \/ \A c \in run.old : server[c] = "none"
        /\ UNCHANGED server \/ SetState(run.old, "drain")
        /\ Goto("decommissioningBlueLB")
  /\ UNCHANGED <<backend, rule, route, docker, cleaning>>

\* Drained, given up after two minutes, or not to be seen: blue goes.
Drained ==
  /\ At("waitingForDrain")
  /\ Goto("decommissioningBlueLB")
  /\ UNCHANGED <<docker, haproxy, cleaning>>

RetireBlueFromLB ==
  /\ At("decommissioningBlueLB")
  /\ RemoveFromLB(run.old)
  /\ Goto("stoppingBlue")
  /\ UNCHANGED <<docker, cleaning>>

StopBlue ==
  /\ At("stoppingBlue")
  /\ Stopped(run.old)
  /\ Goto("removingBlue")
  /\ UNCHANGED <<made, well, haproxy, cleaning>>

RemoveBlue ==
  /\ At("removingBlue")
  /\ Removed(run.old)
  /\ Goto("completed")
  /\ UNCHANGED <<made, well, haproxy, cleaning>>

-----------------------------------------------------------------------------
(* Rolling back *)

RollbackFrontend ==
  /\ At("rollbackRemoveFrontend")
  /\ RemoveFrontend
  /\ Goto("rollbackRemoveConfig")
  /\ UNCHANGED <<docker, cleaning>>

RollbackTraffic ==
  /\ At("rollbackDisableTraffic")
  /\ \/ SetState({run.new}, "maint")
     \/ Fails("haproxy") /\ UNCHANGED server
  /\ Goto("rollbackRemoveConfig")
  /\ UNCHANGED <<backend, rule, route, docker, cleaning>>

\* ROLLBACK_ERROR ends the run; both blue-green machines then start
\* cleanupFailedDeployment and do not wait for it.
RollbackConfig ==
  /\ At("rollbackRemoveConfig")
  /\ RemoveFromLB({run.new})
  /\ \/ Goto("rollbackStopping") /\ UNCHANGED cleaning
     \/ /\ Fails("haproxy")
        /\ Goto("failed")
        /\ cleaning' = [cleaning EXCEPT ![run.new] =
                          IF Is({"initial"}) THEN "none" ELSE "lb"]
  /\ UNCHANGED docker

RollbackStop ==
  /\ At("rollbackStopping")
  /\ Stopped({run.new})
  /\ Goto("rollbackRemoving")
  /\ UNCHANGED <<haproxy, cleaning>>

RollbackRemove ==
  /\ At("rollbackRemoving")
  /\ Removed({run.new})
  /\ Goto("rollbackComplete")
  /\ UNCHANGED <<haproxy, cleaning>>

-----------------------------------------------------------------------------
(* The removal machine: whatever fails, it goes on *)

\* resetState has cleared the container id, so only stale servers go here.
RemovalFromLB ==
  /\ At("removingFromLB")
  /\ RemoveFromLB({})
  /\ Goto("removingFrontend")
  /\ UNCHANGED <<docker, cleaning>>

RemovalOfFrontend ==
  /\ At("removingFrontend")
  /\ RemoveFrontend
  /\ Goto("stoppingApplication")
  /\ UNCHANGED <<docker, cleaning>>

RemovalStop ==
  /\ At("stoppingApplication")
  /\ Stopped(run.old)
  /\ Goto("removingApplication")
  /\ UNCHANGED <<haproxy, cleaning>>

RemovalRemove ==
  /\ At("removingApplication")
  /\ Removed(run.old)
  /\ Goto("completed")
  /\ UNCHANGED <<haproxy, cleaning>>

-----------------------------------------------------------------------------
(* cleanupFailedDeployment, which nobody waits for *)

CleanupGoto(c, stage) == cleaning' = [cleaning EXCEPT ![c] = stage]

CleanupFromLB(c) ==
  /\ cleaning[c] = "lb"
  /\ RemoveFromLB({c})
  /\ CleanupGoto(c, "count")
  /\ UNCHANGED <<docker, run>>

\* Slip: the frontend goes without a look at the servers that remain.
CleanupNoCount(c) ==
  /\ cleaning[c] = "count"
  /\ CleanupGoto(c, "frontend")
  /\ UNCHANGED <<docker, haproxy, run>>

\* The frontend goes only when the backend has no server left, and stays when
\* that cannot be told.
CleanupCount(c) ==
  /\ cleaning[c] = "count"
  /\ \/ Fails("haproxy") /\ CleanupGoto(c, "stop")
     \/ CleanupGoto(c, IF backend /\ \E s \in Containers : server[s] # "none"
                         THEN "stop" ELSE "frontend")
  /\ UNCHANGED <<docker, haproxy, run>>

CleanupFrontend(c) ==
  /\ cleaning[c] = "frontend"
  /\ RemoveFrontend
  /\ CleanupGoto(c, "stop")
  /\ UNCHANGED <<docker, run>>

CleanupStop(c) ==
  /\ cleaning[c] = "stop"
  /\ Stopped({c})
  /\ CleanupGoto(c, "remove")
  /\ UNCHANGED <<haproxy, run>>

CleanupRemove(c) ==
  /\ cleaning[c] = "remove"
  /\ Removed({c})
  /\ CleanupGoto(c, "none")
  /\ UNCHANGED <<haproxy, run>>

Cleanup(c) ==
  \/ CleanupFromLB(c) \/ CleanupCount(c) \/ CleanupFrontend(c)
  \/ CleanupStop(c) \/ CleanupRemove(c)

-----------------------------------------------------------------------------
(* The environment *)

ContainerDies ==
  /\ \E c \in Containers :
       /\ container[c] = "running"
       /\ container' = [container EXCEPT ![c] = "stopped"]
  /\ run' = [run EXCEPT !.served = FALSE]
  /\ UNCHANGED <<made, well, haproxy, cleaning>>

\* Machines and clean-ups live in memory.
ServerRestart ==
  /\ MayRestart
  /\ run' = NoRun
  /\ cleaning' = [c \in Containers |-> "none"]
  /\ UNCHANGED <<docker, haproxy>>

-----------------------------------------------------------------------------

Forward ==
  \/ DeploySucceeds \/ DeployFails \/ ContainerReady \/ AddToLB \/ HealthCheck
  \/ ConfigureFrontend \/ OpenTraffic \/ Drain \/ Drained
  \/ RetireBlueFromLB \/ StopBlue \/ RemoveBlue

Rollback ==
  \/ RollbackFrontend \/ RollbackTraffic \/ RollbackConfig \/ RollbackStop
  \/ RollbackRemove

Removal ==
  RemovalFromLB \/ RemovalOfFrontend \/ RemovalStop \/ RemovalRemove

RunStep == Forward \/ Rollback \/ Removal

Next ==
  \/ StartDeployment \/ StartRemoval \/ StopStack
  \/ RunStep
  \/ \E c \in Containers : Cleanup(c)
  \/ ContainerDies \/ ServerRestart

Spec == Init /\ [][Next]_vars

\* Actions catch their errors and report an event, and the calls they make
\* have timeouts.
FairSpec == Spec /\ WF_vars(RunStep)

-----------------------------------------------------------------------------
(* Properties *)

\* README: no dropped requests.  A run that began while the service answered
\* keeps it answering through every step, roll-back included, unless one of
\* its containers dies.
NoDroppedRequests == run.served => Serving

\* When a deployment says completed, its own container answers: it is in the
\* backend, healthy, and the hostname leads to it.
CompletedMeansServed ==
  At("completed") /\ Is(DeployKinds) /\ container[run.new] = "running" =>
    Up(run.new) /\ backend /\ (run.kind # "update" => rule)

\* The clean-up of a failed run takes the hostname's route only when nobody
\* answers behind it.
CleanupSparesLiveRoute ==
  [][(\E c \in Containers : CleanupFrontend(c)) => ~Serving]_vars

\* Every run ends: no state waits for an event that nothing sends.
RunEnds == (run.kind # "none" /\ ~Ended) ~> Ended

=============================================================================

-------------------------- MODULE DeploymentsProofs --------------------------
(***************************************************************************)
(* No deployment takes a service down that answered when it began, and one *)
(* that says completed is served, for any number of containers, whatever   *)
(* fails or dies, under the assumptions each theorem names.                *)
(***************************************************************************)
EXTENDS Deployments, TLAPS

DeployStates ==
  RollbackStates \cup
  {"deploying", "waitingReady", "initializingLB", "healthCheck",
   "configuringFrontend", "openingTraffic", "drainingBlue", "waitingForDrain",
   "decommissioningBlueLB", "stoppingBlue", "removingBlue"}

RemovalStates == {"removingFromLB", "removingFrontend", "stoppingApplication",
                  "removingApplication"}

\* Green has been found healthy.
GreenStates ==
  {"configuringFrontend", "openingTraffic", "drainingBlue", "waitingForDrain",
   "decommissioningBlueLB", "stoppingBlue", "removingBlue", "completed"}

\* Blue is on its way out.
CutOver == GreenStates \ {"configuringFrontend", "openingTraffic"}

-----------------------------------------------------------------------------
(* The inductive invariant *)

\* A run's own container is the last one made; the ones it replaces are older.
NewIsLast ==
  /\ run.new <= made
  /\ \A c \in Containers :
       c > made => container[c] = "none" /\ server[c] = "none"
  /\ \A c \in run.old : c <= made /\ c # run.new

\* Which machine may be where.
Stage ==
  /\ At("deploying") => made < MaxContainers /\ run.new = 0
  /\ run.at \in DeployStates => run.kind \in DeployKinds
  /\ run.at \in RemovalStates => run.kind = "removal"
  /\ At("rollbackRemoveFrontend") => run.kind = "initial"
  /\ run.at \in DeployStates \ {"deploying"} => run.new # 0
  /\ At("completed") /\ run.kind \in DeployKinds => run.new # 0
  /\ run.served => run.kind \in {"replace", "update"}

\* Servers are in the backend.
Enlisted == backend \/ \A c \in Containers : server[c] = "none"

\* A clean-up is of the run that failed last; it takes the frontend only when
\* no server is left.
Cleaned ==
  CleanupIsPrompt => \A c \in Containers : cleaning[c] # "none" =>
    /\ At("failed") /\ c = run.new
    /\ cleaning[c] = "frontend" => \A s \in Containers : server[s] = "none"

\* A row means a rule, unless a removal may be torn.
RowMeansRule == "torn" \notin Faults => (route => rule)

\* Until blue is on its way out, a run that began with the service up keeps it
\* up without its own container.
BlueServes ==
  run.served =>
    /\ rule /\ backend
    /\ run.at \notin CutOver => \E c \in Containers : c # run.new /\ Up(c)
    /\ run.at \in GreenStates => container[run.new] = "running"

\* Green, once healthy, stays in the backend while it runs.
GreenServes ==
  run.at \in GreenStates /\ run.kind \in DeployKinds
    /\ container[run.new] = "running" => Up(run.new) /\ backend

\* Once it is configured, the hostname leads to green.
GreenRouted ==
  "torn" \notin Faults /\ run.at \in GreenStates \ {"configuringFrontend"}
    /\ run.kind \in {"initial", "replace"} => rule

Base == TypeOK /\ NewIsLast /\ Stage /\ Enlisted /\ Cleaned /\ RowMeansRule
Served == BlueServes /\ GreenServes /\ GreenRouted

\* What the invariant of a served run assumes.
Careful == CleanupIsPrompt /\ "listing" \notin Faults

-----------------------------------------------------------------------------
(* What the actions' vocabulary does *)

ServerStates == {"none", "ready", "maint", "drain"}
ContainerStates == {"none", "created", "running", "stopped"}

LEMMA RunTypes ==
  ASSUME TypeOK
  PROVE  /\ run \in Machine
         /\ run.kind \in Kinds \cup {"none"} /\ run.at \in States
         /\ run.new \in 0..MaxContainers /\ run.new \in Nat
         /\ run.old \in SUBSET Containers /\ run.served \in BOOLEAN
         /\ made \in Nat /\ made <= MaxContainers
         /\ \A c \in Containers : c \in Nat /\ c <= MaxContainers
         /\ run.new # 0 => run.new \in Containers
  <1>1. /\ run \in Machine
        /\ run.kind \in Kinds \cup {"none"} /\ run.at \in States
        /\ run.new \in 0..MaxContainers
        /\ run.old \in SUBSET Containers /\ run.served \in BOOLEAN
        /\ made \in 0..MaxContainers
    BY DEF TypeOK, Machine
  <1> QED BY <1>1, MaxContainersAssumption DEF Containers

LEMMA GotoFacts ==
  ASSUME TypeOK, NEW state \in States, Goto(state)
  PROVE  /\ run' \in Machine /\ run'.at = state /\ run'.kind = run.kind
         /\ run'.new = run.new /\ run'.old = run.old /\ run'.served = run.served
  BY DEF Goto, TypeOK, Machine

\* Only servers of the containers named go, and of those Docker does not list.
LEMMA RemoveFromLBFacts ==
  ASSUME TypeOK, NEW cs \in SUBSET Containers, RemoveFromLB(cs)
  PROVE  /\ server' \in [Containers -> ServerStates]
         /\ UNCHANGED <<backend, rule, route>>
         /\ \A c \in Containers : server'[c] \in {server[c], "none"}
         /\ "listing" \notin Faults =>
              \A c \in Containers \ cs :
                container[c] # "none" => server'[c] = server[c]
  <1>1. PICK stale \in StaleServers :
          \E left \in IF Fails("haproxy") THEN SUBSET (cs \cup stale) ELSE {{}} :
            server' = (IF backend THEN Without((cs \cup stale) \ left) ELSE server)
    BY DEF RemoveFromLB
  <1>2. PICK left : server' = (IF backend THEN Without((cs \cup stale) \ left)
                                         ELSE server)
    BY <1>1
  <1>3. "listing" \notin Faults =>
          \A c \in stale : c \in Containers => container[c] = "none"
    BY DEF StaleServers, Fails
  <1> QED BY <1>2, <1>3 DEF RemoveFromLB, Without, ServerStates, TypeOK

LEMMA SetStateFacts ==
  ASSUME TypeOK, NEW cs \in SUBSET Containers, NEW state \in ServerStates \ {"none"},
         SetState(cs, state)
  PROVE  /\ server' \in [Containers -> ServerStates]
         /\ \A c \in Containers : server'[c] = "none" <=> server[c] = "none"
         /\ \A c \in Containers \ cs : server'[c] = server[c]
         /\ \A c \in cs : server[c] # "none" => server'[c] = state
  BY DEF SetState, ServerStates, TypeOK

LEMMA StoppedFacts ==
  ASSUME TypeOK, NEW cs \in SUBSET Containers, Stopped(cs)
  PROVE  /\ container' \in [Containers -> ContainerStates]
         /\ UNCHANGED <<made, well>>
         /\ \A c \in Containers \ cs : container'[c] = container[c]
         /\ \A c \in Containers : /\ container[c] = "none" => container'[c] = "none"
                                  /\ container'[c] = "running" =>
                                       container[c] = "running"
  BY DEF Stopped, ContainerStates, TypeOK

LEMMA RemovedFacts ==
  ASSUME TypeOK, NEW cs \in SUBSET Containers, Removed(cs)
  PROVE  /\ container' \in [Containers -> ContainerStates]
         /\ UNCHANGED <<made, well>>
         /\ \A c \in Containers \ cs : container'[c] = container[c]
         /\ \A c \in Containers : /\ container[c] = "none" => container'[c] = "none"
                                  /\ container'[c] = "running" =>
                                       container[c] = "running"
  BY DEF Removed, ContainerStates, TypeOK

LEMMA RemoveFrontendFacts ==
  ASSUME TypeOK, Enlisted, RowMeansRule, RemoveFrontend
  PROVE  /\ server' \in [Containers -> ServerStates]
         /\ backend' \in BOOLEAN /\ rule' \in BOOLEAN /\ route' \in BOOLEAN
         /\ \A c \in Containers : server'[c] \in {server[c], "none"}
         /\ Enlisted' /\ RowMeansRule'
  <1>1. DropBackend => /\ server' \in [Containers -> ServerStates]
                       /\ backend' \in BOOLEAN
                       /\ \A c \in Containers : server'[c] \in {server[c], "none"}
                       /\ Enlisted'
    <2>1. CASE backend' = FALSE /\ server' = NoServers
      BY <2>1 DEF NoServers, ServerStates, Enlisted, TypeOK
    <2>2. CASE UNCHANGED <<backend, server>>
      BY <2>2 DEF ServerStates, Enlisted, TypeOK
    <2> QED BY <2>1, <2>2 DEF DropBackend
  <1>2. CASE route /\ rule' = FALSE /\ route' = FALSE /\ DropBackend
    BY <1>1, <1>2 DEF RowMeansRule
  <1>3. CASE ~route /\ UNCHANGED <<rule, route>> /\ DropBackend
    BY <1>1, <1>3 DEF RowMeansRule, TypeOK
  <1>4. CASE UNCHANGED haproxy
    BY <1>4 DEF haproxy, RowMeansRule, Enlisted, ServerStates, TypeOK
  <1>5. CASE Fails("torn") /\ rule' = FALSE /\ UNCHANGED <<server, backend, route>>
    BY <1>5 DEF Fails, RowMeansRule, Enlisted, ServerStates, TypeOK
  <1> QED BY <1>2, <1>3, <1>4, <1>5 DEF RemoveFrontend

-----------------------------------------------------------------------------
(* Frames *)

\* A run goes on; it may only add its own server.
LEMMA BaseFrame ==
  ASSUME Base, run' \in Machine, run'.new = run.new, run'.old = run.old,
         container' \in [Containers -> ContainerStates],
         server' \in [Containers -> ServerStates],
         \A c \in Containers : container[c] = "none" => container'[c] = "none",
         \A c \in Containers : server[c] = "none" =>
           server'[c] = "none" \/ c = run.new,
         backend' \in BOOLEAN, rule' \in BOOLEAN, route' \in BOOLEAN,
         cleaning' \in [Containers -> CleanupStages],
         UNCHANGED <<made, well>>
  PROVE  TypeOK' /\ NewIsLast'
  <1> USE DEF Base
  <1>1. TypeOK'
    BY DEF TypeOK, ContainerStates, ServerStates
  <1>2. ASSUME NEW c \in Containers, c > made
        PROVE  container'[c] = "none" /\ server'[c] = "none"
    <2>1. container[c] = "none" /\ server[c] = "none"
      BY <1>2 DEF NewIsLast
    <2>2. c # run.new
      BY <1>2, RunTypes DEF NewIsLast
    <2> QED BY <2>1, <2>2
  <1>3. NewIsLast'
    BY <1>2 DEF NewIsLast
  <1> QED BY <1>1, <1>3

\* A run that has not failed has nobody cleaning up after it.
LEMMA NotCleaning ==
  ASSUME Cleaned, ~At("failed"), UNCHANGED cleaning
  PROVE  Cleaned'
  BY DEF Cleaned

\* Before green is healthy, and while it is taken back, blue stays.
LEMMA BlueStays ==
  ASSUME Base, Served, run'.new = run.new, run'.served = run.served,
         run.at \notin CutOver, run'.at \notin GreenStates,
         run.served => rule' /\ backend',
         run.served => \A c \in Containers \ {run.new} : Up(c) => Up(c)'
  PROVE  Served'
  <1>1. GreenServes' /\ GreenRouted'
    BY DEF GreenServes, GreenRouted
  <1>2. run'.at \notin CutOver
    BY DEF CutOver
  <1>3. BlueServes'
    <2> SUFFICES ASSUME run.served
                 PROVE  \E c \in Containers : c # run.new /\ Up(c)'
      BY <1>2 DEF BlueServes
    <2>1. PICK c \in Containers : c # run.new /\ Up(c)
      BY DEF Served, BlueServes
    <2> QED BY <2>1
  <1> QED BY <1>1, <1>3 DEF Served

\* A step that only says where the run is.
LEMMA OnlyGoto ==
  ASSUME Base, NEW state \in States, Goto(state), ~At("failed"),
         UNCHANGED <<docker, haproxy, cleaning>>, Stage'
  PROVE  Base'
  <1> USE DEF Base
  <1>1. UNCHANGED <<made, container, well, server, backend, rule, route, cleaning>>
    BY DEF docker, haproxy
  <1>2. TypeOK' /\ NewIsLast'
    BY <1>1, GotoFacts, BaseFrame DEF TypeOK, ContainerStates, ServerStates
  <1>3. Cleaned' /\ Enlisted' /\ RowMeansRule'
    BY <1>1, NotCleaning DEF Enlisted, RowMeansRule
  <1> QED BY <1>2, <1>3

LEMMA UpSame ==
  ASSUME UNCHANGED <<docker, haproxy>>
  PROVE  /\ \A c \in Containers : Up(c)' <=> Up(c)
         /\ UNCHANGED <<container, server, backend, rule, route>>
  BY DEF docker, haproxy, Up

-----------------------------------------------------------------------------
(* Forward *)

LEMMA DeploySucceedsKeeps ==
  ASSUME Base, DeploySucceeds
  PROVE  Base' /\ (Served => Served')
  <1> USE DEF Base
  <1>1. /\ At("deploying") /\ made' = made + 1
        /\ container' = [container EXCEPT ![made'] = "running"]
        /\ \E w \in BOOLEAN : well' = [well EXCEPT ![made'] = w]
        /\ run' = [run EXCEPT !.at = "waitingReady", !.new = made']
        /\ UNCHANGED <<server, backend, rule, route, cleaning>>
    BY DEF DeploySucceeds, haproxy
  <1>2. /\ made' \in Containers /\ made' \in 0..MaxContainers /\ made' > made
        /\ made' # 0 /\ made \in Nat /\ made' \in Nat
    BY <1>1, RunTypes, MaxContainersAssumption DEF Stage, Containers
  <1>3. run.new = 0 /\ run.kind \in DeployKinds
    BY <1>1 DEF Stage, DeployStates, At
  <1>4. /\ run'.at = "waitingReady" /\ run'.new = made' /\ run'.kind = run.kind
        /\ run'.old = run.old /\ run'.served = run.served /\ run' \in Machine
    BY <1>1, <1>2, RunTypes DEF Machine, States
  <1>5. TypeOK'
    <2>1. well' \in [Containers -> BOOLEAN]
      BY <1>1 DEF TypeOK
    <2>2. container' \in [Containers -> ContainerStates]
      BY <1>1 DEF TypeOK, ContainerStates
    <2> QED BY <1>1, <1>2, <1>4, <2>1, <2>2 DEF TypeOK, ContainerStates
  <1>6. NewIsLast'
    <2>1. \A c \in Containers : c > made' => c > made /\ c # made'
      BY <1>2, RunTypes
    <2>2. \A c \in Containers : c > made' => container'[c] = "none"
      BY <1>1, <2>1 DEF NewIsLast, TypeOK
    <2>3. \A c \in Containers : c > made' => server'[c] = "none"
      BY <1>1, <2>1 DEF NewIsLast
    <2>4. \A c \in run.old : c <= made' /\ c # made'
      <3> TAKE c \in run.old
      <3>1. c \in Nat /\ c <= made
        BY RunTypes DEF NewIsLast
      <3> QED BY <1>2, <3>1
    <2> QED BY <1>2, <1>4, <2>2, <2>3, <2>4 DEF NewIsLast
  <1>7. Stage'
    BY <1>2, <1>3, <1>4 DEF Stage, At, DeployStates, RollbackStates, RemovalStates
  <1>8. Enlisted' /\ RowMeansRule'
    BY <1>1 DEF Enlisted, RowMeansRule
  <1>9. Cleaned'
    BY <1>1 DEF Cleaned, At
  <1>10. ASSUME Served
        PROVE  Served'
    <2>1. GreenServes' /\ GreenRouted'
      BY <1>4 DEF GreenServes, GreenRouted, GreenStates
    <2>2. ASSUME run.served
          PROVE  \E c \in Containers : c # made' /\ Up(c)'
      <3>1. PICK c \in Containers : Up(c)
        BY <1>1, <1>10, <2>2 DEF Served, BlueServes, At, CutOver, GreenStates
      <3>2. c <= made
        BY <3>1, RunTypes DEF NewIsLast, Up
      <3>3. c # made'
        BY <1>2, <3>2, RunTypes
      <3> QED BY <1>1, <3>1, <3>3 DEF Up, TypeOK
    <2>3. BlueServes'
      BY <1>1, <1>4, <1>10, <2>2 DEF Served, BlueServes, GreenStates
    <2> QED BY <2>1, <2>3 DEF Served
  <1> QED BY <1>5, <1>6, <1>7, <1>8, <1>9, <1>10

LEMMA DeployFailsKeeps ==
  ASSUME Base, DeployFails
  PROVE  Base' /\ (Served => Served')
  <1> USE DEF Base
  <1>1. /\ At("deploying") /\ made' = made + 1
        /\ container' \in {container, [container EXCEPT ![made'] = "created"]}
        /\ Goto("failed")
        /\ UNCHANGED <<well, server, backend, rule, route, cleaning>>
    BY DEF DeployFails, haproxy
  <1>2. /\ made' \in Containers /\ made' \in 0..MaxContainers /\ made' > made
        /\ run.new = 0 /\ made \in Nat /\ made' \in Nat
    BY <1>1, RunTypes, MaxContainersAssumption DEF Stage, Containers
  <1>3. /\ run'.at = "failed" /\ run'.new = 0 /\ run'.kind = run.kind
        /\ run'.old = run.old /\ run'.served = run.served /\ run' \in Machine
    BY <1>1, <1>2, GotoFacts DEF States, Final
  <1>4. TypeOK'
    <2>1. container' \in [Containers -> ContainerStates]
      BY <1>1 DEF TypeOK, ContainerStates
    <2> QED BY <1>1, <1>2, <1>3, <2>1 DEF TypeOK, ContainerStates
  <1>5. NewIsLast'
    <2>1. \A c \in Containers : c > made' => c > made /\ c # made'
      BY <1>2, RunTypes
    <2>2. \A c \in Containers : c > made' => /\ container'[c] = "none"
                                          /\ server'[c] = "none"
      BY <1>1, <2>1 DEF NewIsLast, TypeOK
    <2>3. \A c \in run.old : c <= made' /\ c # 0
      <3> TAKE c \in run.old
      <3>1. c \in Nat /\ c <= made /\ c # 0
        BY <1>2, RunTypes DEF NewIsLast
      <3> QED BY <1>2, <3>1
    <2> QED BY <1>2, <1>3, <2>2, <2>3 DEF NewIsLast
  <1>6. Stage'
    BY <1>1, <1>3 DEF Stage, At, DeployStates, RollbackStates, RemovalStates
  <1>7. Enlisted' /\ RowMeansRule' /\ Cleaned'
    BY <1>1, NotCleaning DEF Enlisted, RowMeansRule, At
  <1>8. ASSUME Served
        PROVE  Served'
    <2>1. \A c \in Containers : Up(c) => Up(c)'
      <3> SUFFICES ASSUME NEW c \in Containers, Up(c)
                   PROVE  container'[c] = container[c]
        BY <1>1 DEF Up
      <3>1. c <= made
        BY RunTypes DEF NewIsLast, Up
      <3>2. c # made'
        BY <1>2, <3>1, RunTypes
      <3> QED BY <1>1, <3>2 DEF TypeOK
    <2>2. run.served => rule' /\ backend'
      BY <1>1, <1>8 DEF Served, BlueServes
    <2> QED BY <1>1, <1>2, <1>3, <1>8, <2>1, <2>2, BlueStays
        DEF At, CutOver, GreenStates
  <1> QED BY <1>4, <1>5, <1>6, <1>7, <1>8

LEMMA ContainerReadyKeeps ==
  ASSUME Base, ContainerReady
  PROVE  Base' /\ (Served => Served')
  <1> USE DEF Base
  <1>1. /\ At("waitingReady") /\ UNCHANGED <<docker, haproxy, cleaning>>
        /\ \E state \in {"initializingLB", "rollbackStopping", "rollbackRemoving"} :
             Goto(state)
    BY DEF ContainerReady
  <1>2. PICK state \in {"initializingLB", "rollbackStopping", "rollbackRemoving"} :
          Goto(state)
    BY <1>1
  <1>3. state \in States /\ ~At("failed")
    BY <1>1 DEF States, RollbackStates, At
  <1>4. /\ run'.at = state /\ run'.kind = run.kind
        /\ run'.new = run.new /\ run'.served = run.served
    BY <1>2, <1>3, GotoFacts
  <1>5. Stage'
    BY <1>1, <1>2, <1>4
    DEF Stage, At, DeployStates, RollbackStates, RemovalStates
  <1>6. Base'
    BY <1>1, <1>2, <1>3, <1>5, OnlyGoto
  <1>7. ASSUME Served
        PROVE  Served'
    BY <1>1, <1>2, <1>4, <1>7, UpSame, BlueStays
    DEF Served, BlueServes, At, CutOver, GreenStates
  <1> QED BY <1>6, <1>7

LEMMA AddToLBKeeps ==
  ASSUME Base, AddToLB
  PROVE  Base' /\ (Served => Served')
  <1> USE DEF Base
  <1>1. /\ At("initializingLB") /\ UNCHANGED <<rule, route, cleaning>>
        /\ UNCHANGED <<made, container, well>>
        /\ backend' \in {backend, TRUE}
        /\ server' \in {server, [server EXCEPT ![run.new] = "ready"]}
        /\ server' # server => backend'
        /\ \E state \in {"healthCheck", "rollbackRemoveConfig",
                         "rollbackStopping"} : Goto(state)
    <2>1. CASE /\ backend' = TRUE
               /\ server' = [server EXCEPT ![run.new] = "ready"]
               /\ Goto("healthCheck")
      BY <2>1 DEF AddToLB, docker
    <2>2. CASE /\ backend' \in {backend, TRUE}
               /\ server' \in {server, [server EXCEPT ![run.new] =
                                   IF backend' THEN "ready" ELSE @]}
               /\ Goto(IF Is({"initial"}) THEN "rollbackRemoveConfig"
                                         ELSE "rollbackStopping")
      <3>1. CASE backend'
        BY <2>2, <3>1 DEF AddToLB, docker
      <3>2. CASE ~backend'
        <4>1. server' = server
          BY <2>2, <3>2 DEF TypeOK
        <4> QED BY <2>2, <3>2, <4>1 DEF AddToLB, docker
      <3> QED BY <3>1, <3>2
    <2> QED BY <2>1, <2>2 DEF AddToLB
  <1>2. PICK state \in {"healthCheck", "rollbackRemoveConfig", "rollbackStopping"} :
          Goto(state)
    BY <1>1
  <1>3. /\ run' \in Machine /\ run'.at = state /\ run'.kind = run.kind
        /\ run'.new = run.new /\ run'.old = run.old /\ run'.served = run.served
    BY <1>2, GotoFacts DEF States, RollbackStates
  <1>4. /\ server' \in [Containers -> ServerStates] /\ backend' \in BOOLEAN
        /\ \A c \in Containers : c # run.new => server'[c] = server[c]
    BY <1>1 DEF TypeOK, ServerStates
  <1>5. TypeOK' /\ NewIsLast'
    BY <1>1, <1>3, <1>4, BaseFrame DEF TypeOK, ContainerStates
  <1>6. Stage'
    BY <1>1, <1>2, <1>3
    DEF Stage, At, DeployStates, RollbackStates, RemovalStates
  <1>7. Enlisted'
    <2>1. CASE server' # server
      BY <1>1, <2>1 DEF Enlisted
    <2>2. CASE server' = server
      <3>1. backend => backend'
        BY <1>1
      <3> QED BY <2>2, <3>1 DEF Enlisted
    <2> QED BY <2>1, <2>2
  <1>8. RowMeansRule' /\ Cleaned'
    BY <1>1, NotCleaning DEF RowMeansRule, At
  <1>9. ASSUME Served
        PROVE  Served'
    <2>1. run.served => rule' /\ backend'
      BY <1>1, <1>9 DEF Served, BlueServes
    <2>2. \A c \in Containers \ {run.new} : Up(c) => Up(c)'
      BY <1>1, <1>4 DEF Up
    <2> QED BY <1>1, <1>2, <1>3, <1>9, <2>1, <2>2, BlueStays
        DEF At, CutOver, GreenStates
  <1> QED BY <1>5, <1>6, <1>7, <1>8, <1>9

LEMMA HealthCheckKeeps ==
  ASSUME Base, HealthCheck
  PROVE  Base' /\ (Served => Served')
  <1> USE DEF Base
  <1>1. /\ At("healthCheck") /\ UNCHANGED <<docker, haproxy, cleaning>>
        /\ \/ Goto("rollbackRemoveConfig")
           \/ /\ Up(run.new)
              /\ Goto(IF Is({"update"}) THEN "openingTraffic"
                                       ELSE "configuringFrontend")
    BY DEF HealthCheck
  <1>2. PICK state \in {"rollbackRemoveConfig", "openingTraffic",
                        "configuringFrontend"} :
          /\ Goto(state)
          /\ state # "rollbackRemoveConfig" => Up(run.new)
          /\ state = "openingTraffic" => run.kind = "update"
    BY <1>1 DEF Is
  <1>3. state \in States /\ ~At("failed")
    BY <1>1 DEF States, RollbackStates, At
  <1>4. /\ run'.at = state /\ run'.kind = run.kind
        /\ run'.new = run.new /\ run'.served = run.served
    BY <1>2, <1>3, GotoFacts
  <1>5. Stage'
    BY <1>1, <1>2, <1>4
    DEF Stage, At, DeployStates, RollbackStates, RemovalStates
  <1>6. Base'
    BY <1>1, <1>2, <1>3, <1>5, OnlyGoto
  <1>7. ASSUME Served
        PROVE  Served'
    <2>1. CASE state = "rollbackRemoveConfig"
      BY <1>1, <1>4, <1>7, <2>1, UpSame, BlueStays
      DEF Served, BlueServes, At, CutOver, GreenStates
    <2>2. CASE state # "rollbackRemoveConfig"
      <3>1. Up(run.new) /\ run.new \in Containers
        BY <1>1, <1>2, <2>2, RunTypes
        DEF Stage, At, DeployStates, RollbackStates
      <3>2. backend
        BY <3>1 DEF Enlisted, Up
      <3>3. GreenServes'
        BY <1>1, <1>4, <3>1, <3>2 DEF GreenServes, Up, docker, haproxy
      <3>4. GreenRouted'
        BY <1>2, <1>4, <2>2 DEF GreenRouted
      <3>5. BlueServes'
        BY <1>1, <1>2, <1>4, <1>7, <2>2, <3>1, UpSame
        DEF Served, BlueServes, At, CutOver, GreenStates, Up
      <3> QED BY <3>3, <3>4, <3>5 DEF Served
    <2> QED BY <2>1, <2>2
  <1> QED BY <1>6, <1>7

LEMMA ConfigureFrontendKeeps ==
  ASSUME Base, ConfigureFrontend
  PROVE  Base' /\ (Served => Served')
  <1> USE DEF Base
  <1>1. /\ At("configuringFrontend") /\ UNCHANGED <<server, backend, cleaning>>
        /\ UNCHANGED <<made, container, well>>
    BY DEF ConfigureFrontend, docker
  <1>2. \E state \in {"openingTraffic", "rollbackRemoveFrontend",
                     "rollbackRemoveConfig"} :
          /\ Goto(state)
          /\ rule => rule'
          /\ rule' \in BOOLEAN /\ route' \in BOOLEAN
          /\ RowMeansRule'
          /\ state = "rollbackRemoveFrontend" => run.kind = "initial"
          /\ state = "openingTraffic" /\ "torn" \notin Faults => rule'
    <2>1. CASE backend /\ route /\ UNCHANGED <<rule, route>> /\ Goto("openingTraffic")
      BY <2>1 DEF RowMeansRule, TypeOK
    <2>2. CASE ~route /\ rule' = TRUE /\ route' = TRUE /\ Goto("openingTraffic")
      BY <2>2 DEF RowMeansRule
    <2>3. CASE /\ rule' \in {rule, rule \/ (backend /\ ~route)}
               /\ route' = route
               /\ Goto(IF Is({"initial"}) THEN "rollbackRemoveFrontend"
                                         ELSE "rollbackRemoveConfig")
      <3>1. (rule \/ (backend /\ ~route)) \in BOOLEAN
        OBVIOUS
      <3>2. rule' \in BOOLEAN /\ (rule => rule') /\ route' \in BOOLEAN
        BY <2>3, <3>1 DEF TypeOK
      <3>3. RowMeansRule'
        BY <2>3, <3>2 DEF RowMeansRule
      <3> QED BY <2>3, <3>2, <3>3 DEF Is
    <2> QED BY <2>1, <2>2, <2>3 DEF ConfigureFrontend
  <1>3. PICK state \in {"openingTraffic", "rollbackRemoveFrontend",
                        "rollbackRemoveConfig"} :
          /\ Goto(state)
          /\ rule => rule'
          /\ rule' \in BOOLEAN /\ route' \in BOOLEAN
          /\ RowMeansRule'
          /\ state = "rollbackRemoveFrontend" => run.kind = "initial"
          /\ state = "openingTraffic" /\ "torn" \notin Faults => rule'
    BY <1>2
  <1>4. /\ run' \in Machine /\ run'.at = state /\ run'.kind = run.kind
        /\ run'.new = run.new /\ run'.old = run.old /\ run'.served = run.served
    BY <1>3, GotoFacts DEF States, RollbackStates
  <1>5. TypeOK' /\ NewIsLast'
    BY <1>1, <1>3, <1>4, BaseFrame DEF TypeOK, ContainerStates, ServerStates
  <1>6. Stage'
    BY <1>1, <1>3, <1>4
    DEF Stage, At, DeployStates, RollbackStates, RemovalStates
  <1>7. Enlisted' /\ Cleaned'
    BY <1>1, NotCleaning DEF Enlisted, At
  <1>8. ASSUME Served
        PROVE  Served'
    <2>1. run.served => rule' /\ backend'
      BY <1>1, <1>3, <1>8 DEF Served, BlueServes
    <2>2. \A c \in Containers : Up(c) => Up(c)'
      BY <1>1 DEF Up
    <2>3. CASE state # "openingTraffic"
      BY <1>1, <1>3, <1>4, <1>8, <2>1, <2>2, <2>3, BlueStays
      DEF At, CutOver, GreenStates
    <2>4. CASE state = "openingTraffic"
      <3>1. GreenServes'
        BY <1>1, <1>4, <1>8
        DEF Served, GreenServes, GreenStates, At, Up
      <3>2. GreenRouted'
        BY <1>3, <1>4, <2>4 DEF GreenRouted
      <3>3. BlueServes'
        BY <1>1, <1>4, <1>8, <2>1, <2>4
        DEF Served, BlueServes, GreenStates, CutOver, At, Up
      <3> QED BY <3>1, <3>2, <3>3 DEF Served
    <2> QED BY <2>3, <2>4
  <1> QED BY <1>3, <1>5, <1>6, <1>7, <1>8

\* A step of the load balancer's server states.
LEMMA OpenTrafficKeeps ==
  ASSUME Base, OpenTraffic
  PROVE  Base' /\ (Served => Served')
  <1> USE DEF Base
  <1>1. /\ At("openingTraffic") /\ UNCHANGED <<backend, rule, route, cleaning>>
        /\ UNCHANGED <<made, container, well>>
    BY DEF OpenTraffic, docker
  <1>2. run.kind \in DeployKinds /\ run.new \in Containers
    BY <1>1, RunTypes DEF Stage, At, DeployStates
  <1>3. \E state \in {"completed", "drainingBlue", "rollbackRemoveFrontend",
                     "rollbackDisableTraffic", "rollbackRemoveConfig"} :
          /\ Goto(state)
          /\ UNCHANGED server \/ SetState({run.new}, "ready")
          /\ state = "completed" => run.kind = "initial"
          /\ state = "rollbackRemoveFrontend" => run.kind = "initial"
    <2>1. CASE /\ SetState({run.new}, "ready")
               /\ Goto(IF Is({"initial"}) THEN "completed" ELSE "drainingBlue")
      BY <2>1 DEF Is
    <2>2. CASE /\ UNCHANGED server \/ SetState({run.new}, "ready")
               /\ Goto(CASE Is({"initial"}) -> "rollbackRemoveFrontend"
                          [] Is({"replace"}) -> "rollbackDisableTraffic"
                          [] Is({"update"})  -> "rollbackRemoveConfig")
      <3>1. CASE run.kind = "initial"
        BY <2>2, <3>1 DEF Is
      <3>2. CASE run.kind = "replace"
        BY <2>2, <3>2 DEF Is
      <3>3. CASE run.kind = "update"
        BY <2>2, <3>3 DEF Is
      <3> QED BY <1>2, <3>1, <3>2, <3>3 DEF DeployKinds
    <2> QED BY <2>1, <2>2 DEF OpenTraffic
  <1>4. PICK state \in {"completed", "drainingBlue", "rollbackRemoveFrontend",
                        "rollbackDisableTraffic", "rollbackRemoveConfig"} :
          /\ Goto(state)
          /\ UNCHANGED server \/ SetState({run.new}, "ready")
          /\ state = "completed" => run.kind = "initial"
          /\ state = "rollbackRemoveFrontend" => run.kind = "initial"
    BY <1>3
  <1>5. /\ run' \in Machine /\ run'.at = state /\ run'.kind = run.kind
        /\ run'.new = run.new /\ run'.old = run.old /\ run'.served = run.served
    BY <1>4, GotoFacts DEF States, RollbackStates, Final
  <1>6. /\ server' \in [Containers -> ServerStates]
        /\ \A c \in Containers : /\ server'[c] = "none" <=> server[c] = "none"
                                 /\ server[c] = "ready" => server'[c] = "ready"
    <2>1. CASE UNCHANGED server
      BY <2>1 DEF TypeOK, ServerStates
    <2>2. CASE SetState({run.new}, "ready")
      BY <2>2 DEF SetState, TypeOK, ServerStates
    <2> QED BY <1>4, <2>1, <2>2
  <1>7. TypeOK' /\ NewIsLast'
    BY <1>1, <1>5, <1>6, BaseFrame DEF TypeOK, ContainerStates
  <1>8. Stage'
    BY <1>1, <1>2, <1>4, <1>5
    DEF Stage, At, DeployStates, RollbackStates, RemovalStates, DeployKinds
  <1>9. Enlisted' /\ Cleaned' /\ RowMeansRule'
    BY <1>1, <1>6, NotCleaning DEF Enlisted, RowMeansRule, At
  <1>10. ASSUME Served
         PROVE  Served'
    <2>1. run.served => rule' /\ backend'
      BY <1>1, <1>10 DEF Served, BlueServes
    <2>2. \A c \in Containers : Up(c) => Up(c)'
      BY <1>1, <1>6 DEF Up
    <2>3. CASE state \in RollbackStates
      <3>1. state \notin GreenStates
        BY <2>3 DEF GreenStates, RollbackStates
      <3> QED BY <1>1, <1>5, <1>10, <2>1, <2>2, <3>1, BlueStays DEF At, CutOver
    <2>4. CASE state \in {"completed", "drainingBlue"}
      <3>1. /\ container[run.new] = "running" => Up(run.new) /\ backend
            /\ run.served => container[run.new] = "running"
        BY <1>1, <1>2, <1>10
        DEF Served, GreenServes, BlueServes, GreenStates, At
      <3>2. GreenServes'
        BY <1>1, <1>2, <1>5, <1>6, <3>1 DEF GreenServes, Up
      <3>3. GreenRouted'
        BY <1>1, <1>5, <1>10 DEF Served, GreenRouted, GreenStates, At
      <3>4. BlueServes'
        BY <1>1, <1>5, <2>1, <2>4, <3>1
        DEF BlueServes, GreenStates, CutOver
      <3> QED BY <3>2, <3>3, <3>4 DEF Served
    <2> QED BY <1>4, <2>3, <2>4 DEF RollbackStates
  <1> QED BY <1>7, <1>8, <1>9, <1>10

\* Once green is live, blue's leaving takes nothing from it.
LEMMA GreenStays ==
  ASSUME Base, Served, run'.kind = run.kind, run'.new = run.new,
         run'.served = run.served, run.new \in Containers,
         run.at \in GreenStates \ {"configuringFrontend"},
         run'.at \in CutOver, UNCHANGED <<backend, rule, well>>,
         run.kind \in DeployKinds,
         container'[run.new] = container[run.new],
         container[run.new] = "running" => server'[run.new] = server[run.new]
  PROVE  Served'
  <1>1. run'.at \in GreenStates
    BY DEF CutOver
  <1>2. GreenServes'
    BY <1>1 DEF Served, GreenServes, Up
  <1>3. GreenRouted'
    BY <1>1 DEF Served, GreenRouted
  <1>4. BlueServes'
    BY <1>1 DEF Served, BlueServes
  <1> QED BY <1>2, <1>3, <1>4 DEF Served

LEMMA DrainKeeps ==
  ASSUME Base, Drain
  PROVE  Base' /\ (Served => Served')
  <1> USE DEF Base
  <1>1. /\ At("drainingBlue") /\ UNCHANGED <<backend, rule, route, cleaning>>
        /\ UNCHANGED <<made, container, well>>
        /\ UNCHANGED server \/ SetState(run.old, "drain")
        /\ \E state \in {"waitingForDrain", "decommissioningBlueLB"} : Goto(state)
    BY DEF Drain, docker
  <1>2. PICK state \in {"waitingForDrain", "decommissioningBlueLB"} : Goto(state)
    BY <1>1
  <1>3. /\ run' \in Machine /\ run'.at = state /\ run'.kind = run.kind
        /\ run'.new = run.new /\ run'.old = run.old /\ run'.served = run.served
    BY <1>2, GotoFacts DEF States
  <1>4. /\ server' \in [Containers -> ServerStates]
        /\ \A c \in Containers : server'[c] = "none" <=> server[c] = "none"
        /\ \A c \in Containers \ run.old : server'[c] = server[c]
    <2>1. CASE UNCHANGED server
      BY <2>1 DEF TypeOK, ServerStates
    <2>2. CASE SetState(run.old, "drain")
      BY <2>2, SetStateFacts, RunTypes DEF ServerStates
    <2> QED BY <1>1, <2>1, <2>2
  <1>5. TypeOK' /\ NewIsLast'
    BY <1>1, <1>3, <1>4, BaseFrame DEF TypeOK, ContainerStates
  <1>6. Stage'
    BY <1>1, <1>2, <1>3
    DEF Stage, At, DeployStates, RollbackStates, RemovalStates
  <1>7. Enlisted' /\ Cleaned' /\ RowMeansRule'
    BY <1>1, <1>4, NotCleaning DEF Enlisted, RowMeansRule, At
  <1>8. ASSUME Served
        PROVE  Served'
    <2>1. run.new \in Containers \ run.old /\ run.kind \in DeployKinds
      BY <1>1, RunTypes DEF Stage, At, DeployStates, NewIsLast
    <2>2. run'.at \in CutOver /\ run.at \in GreenStates \ {"configuringFrontend"}
      BY <1>1, <1>2, <1>3 DEF At, CutOver, GreenStates
    <2> QED BY <1>1, <1>3, <1>4, <1>8, <2>1, <2>2, GreenStays
  <1> QED BY <1>5, <1>6, <1>7, <1>8

LEMMA DrainedKeeps ==
  ASSUME Base, Drained
  PROVE  Base' /\ (Served => Served')
  <1> USE DEF Base
  <1>1. /\ At("waitingForDrain") /\ UNCHANGED <<docker, haproxy, cleaning>>
        /\ Goto("decommissioningBlueLB")
    BY DEF Drained
  <1>2. "decommissioningBlueLB" \in States /\ ~At("failed")
    BY <1>1 DEF States, At
  <1>3. /\ run'.at = "decommissioningBlueLB" /\ run'.kind = run.kind
        /\ run'.new = run.new /\ run'.served = run.served
    BY <1>1, <1>2, GotoFacts
  <1>4. Stage'
    BY <1>1, <1>3 DEF Stage, At, DeployStates, RollbackStates, RemovalStates
  <1>5. Base'
    BY <1>1, <1>2, <1>4, OnlyGoto
  <1>6. ASSUME Served
        PROVE  Served'
    <2>1. run.new \in Containers /\ run.kind \in DeployKinds
      BY <1>1, RunTypes DEF Stage, At, DeployStates
    <2>2. run'.at \in CutOver /\ run.at \in GreenStates \ {"configuringFrontend"}
      BY <1>1, <1>3 DEF At, CutOver, GreenStates
    <2> QED BY <1>1, <1>3, <1>6, <2>1, <2>2, GreenStays DEF docker, haproxy
  <1> QED BY <1>5, <1>6

LEMMA RetireBlueKeeps ==
  ASSUME Base, RetireBlueFromLB
  PROVE  Base' /\ (Careful /\ Served => Served')
  <1> USE DEF Base
  <1>1. /\ At("decommissioningBlueLB") /\ RemoveFromLB(run.old)
        /\ Goto("stoppingBlue") /\ UNCHANGED <<made, container, well, cleaning>>
    BY DEF RetireBlueFromLB, docker
  <1>2. /\ run' \in Machine /\ run'.at = "stoppingBlue" /\ run'.kind = run.kind
        /\ run'.new = run.new /\ run'.old = run.old /\ run'.served = run.served
    BY <1>1, GotoFacts DEF States
  <1>3. /\ server' \in [Containers -> ServerStates]
        /\ UNCHANGED <<backend, rule, route>>
        /\ \A c \in Containers : server'[c] \in {server[c], "none"}
        /\ "listing" \notin Faults =>
             \A c \in Containers \ run.old :
               container[c] # "none" => server'[c] = server[c]
    BY <1>1, RemoveFromLBFacts, RunTypes
  <1>4. TypeOK' /\ NewIsLast'
    BY <1>1, <1>2, <1>3, BaseFrame DEF TypeOK, ContainerStates
  <1>5. Stage'
    BY <1>1, <1>2 DEF Stage, At, DeployStates, RollbackStates, RemovalStates
  <1>6. Enlisted' /\ Cleaned' /\ RowMeansRule'
    BY <1>1, <1>3, NotCleaning DEF Enlisted, RowMeansRule, At
  <1>7. ASSUME Careful, Served
        PROVE  Served'
    <2>1. run.new \in Containers \ run.old /\ run.kind \in DeployKinds
      BY <1>1, RunTypes DEF Stage, At, DeployStates, NewIsLast
    <2>2. run'.at \in CutOver /\ run.at \in GreenStates \ {"configuringFrontend"}
      BY <1>1, <1>2 DEF At, CutOver, GreenStates
    <2>3. container[run.new] = "running" => server'[run.new] = server[run.new]
      BY <1>3, <1>7, <2>1 DEF Careful
    <2> QED BY <1>1, <1>2, <1>3, <1>7, <2>1, <2>2, <2>3, GreenStays
  <1> QED BY <1>4, <1>5, <1>6, <1>7

\* Blue's containers are stopped, then removed.
LEMMA BlueGoesKeeps ==
  ASSUME Base, StopBlue \/ RemoveBlue
  PROVE  Base' /\ (Served => Served')
  <1> USE DEF Base
  <1>1. PICK state \in {"removingBlue", "completed"} :
          /\ Goto(state) /\ run.at \in {"stoppingBlue", "removingBlue"}
          /\ UNCHANGED <<server, backend, rule, route, cleaning>>
    BY DEF StopBlue, RemoveBlue, At, haproxy
  <1>2. /\ run' \in Machine /\ run'.at = state /\ run'.kind = run.kind
        /\ run'.new = run.new /\ run'.old = run.old /\ run'.served = run.served
    BY <1>1, GotoFacts DEF States, Final
  <1>3. /\ container' \in [Containers -> ContainerStates]
        /\ UNCHANGED <<made, well>>
        /\ \A c \in Containers \ run.old : container'[c] = container[c]
        /\ \A c \in Containers : container[c] = "none" => container'[c] = "none"
    BY StoppedFacts, RemovedFacts, RunTypes DEF StopBlue, RemoveBlue
  <1>4. TypeOK' /\ NewIsLast'
    BY <1>1, <1>2, <1>3, BaseFrame DEF TypeOK, ServerStates
  <1>5. Stage'
    BY <1>1, <1>2 DEF Stage, At, DeployStates, RollbackStates, RemovalStates
  <1>6. Enlisted' /\ Cleaned' /\ RowMeansRule'
    BY <1>1, NotCleaning DEF Enlisted, RowMeansRule, At
  <1>7. ASSUME Served
        PROVE  Served'
    <2>1. run.new \in Containers \ run.old /\ run.kind \in DeployKinds
      BY <1>1, RunTypes DEF Stage, DeployStates, NewIsLast
    <2>2. run'.at \in CutOver /\ run.at \in GreenStates \ {"configuringFrontend"}
      BY <1>1, <1>2 DEF CutOver, GreenStates
    <2> QED BY <1>1, <1>2, <1>3, <1>7, <2>1, <2>2, GreenStays
  <1> QED BY <1>4, <1>5, <1>6, <1>7

-----------------------------------------------------------------------------
(* Rolling back: only green goes *)

\* A first deployment has no service to keep up.
LEMMA NothingServed ==
  ASSUME ~run'.served, run'.at \notin GreenStates
  PROVE  Served'
  BY DEF Served, BlueServes, GreenServes, GreenRouted

LEMMA RollbackFrontendKeeps ==
  ASSUME Base, RollbackFrontend
  PROVE  Base' /\ Served'
  <1> USE DEF Base
  <1>1. /\ At("rollbackRemoveFrontend") /\ RemoveFrontend
        /\ Goto("rollbackRemoveConfig")
        /\ UNCHANGED <<made, container, well, cleaning>>
    BY DEF RollbackFrontend, docker
  <1>2. /\ run' \in Machine /\ run'.at = "rollbackRemoveConfig"
        /\ run'.kind = run.kind /\ run'.new = run.new /\ run'.old = run.old
        /\ run'.served = run.served
    BY <1>1, GotoFacts DEF States, RollbackStates
  <1>3. /\ server' \in [Containers -> ServerStates]
        /\ backend' \in BOOLEAN /\ rule' \in BOOLEAN /\ route' \in BOOLEAN
        /\ \A c \in Containers : server'[c] \in {server[c], "none"}
        /\ Enlisted' /\ RowMeansRule'
    BY <1>1, RemoveFrontendFacts
  <1>4. TypeOK' /\ NewIsLast'
    BY <1>1, <1>2, <1>3, BaseFrame DEF TypeOK, ContainerStates
  <1>5. Stage'
    BY <1>1, <1>2 DEF Stage, At, DeployStates, RollbackStates, RemovalStates
  <1>6. Cleaned'
    BY <1>1, NotCleaning DEF At
  <1>7. ~run'.served /\ run'.at \notin GreenStates
    BY <1>1, <1>2 DEF Stage, At, GreenStates
  <1> QED BY <1>3, <1>4, <1>5, <1>6, <1>7, NothingServed

LEMMA RollbackTrafficKeeps ==
  ASSUME Base, RollbackTraffic
  PROVE  Base' /\ (Served => Served')
  <1> USE DEF Base
  <1>1. /\ At("rollbackDisableTraffic") /\ Goto("rollbackRemoveConfig")
        /\ UNCHANGED server \/ SetState({run.new}, "maint")
        /\ UNCHANGED <<backend, rule, route, made, container, well, cleaning>>
    BY DEF RollbackTraffic, docker
  <1>2. /\ run' \in Machine /\ run'.at = "rollbackRemoveConfig"
        /\ run'.kind = run.kind /\ run'.new = run.new /\ run'.old = run.old
        /\ run'.served = run.served
    BY <1>1, GotoFacts DEF States, RollbackStates
  <1>3. /\ server' \in [Containers -> ServerStates]
        /\ \A c \in Containers : server'[c] = "none" <=> server[c] = "none"
        /\ \A c \in Containers \ {run.new} : server'[c] = server[c]
    <2>1. CASE UNCHANGED server
      BY <2>1 DEF TypeOK, ServerStates
    <2>2. CASE SetState({run.new}, "maint")
      BY <2>2 DEF SetState, TypeOK, ServerStates
    <2> QED BY <1>1, <2>1, <2>2
  <1>4. TypeOK' /\ NewIsLast'
    BY <1>1, <1>2, <1>3, BaseFrame DEF TypeOK, ContainerStates
  <1>5. Stage'
    BY <1>1, <1>2 DEF Stage, At, DeployStates, RollbackStates, RemovalStates
  <1>6. Enlisted' /\ Cleaned' /\ RowMeansRule'
    BY <1>1, <1>3, NotCleaning DEF Enlisted, RowMeansRule, At
  <1>7. ASSUME Served
        PROVE  Served'
    <2>1. run.at \notin CutOver /\ run'.at \notin GreenStates
      BY <1>1, <1>2 DEF At, CutOver, GreenStates
    <2>2. \A c \in Containers \ {run.new} : Up(c) => Up(c)'
      BY <1>1, <1>3 DEF Up
    <2>3. run.served => rule' /\ backend'
      BY <1>1, <1>7 DEF Served, BlueServes
    <2> QED BY <1>2, <1>7, <2>1, <2>2, <2>3, BlueStays
  <1> QED BY <1>4, <1>5, <1>6, <1>7

LEMMA RollbackConfigKeeps ==
  ASSUME Base, RollbackConfig
  PROVE  Base' /\ (Careful /\ Served => Served')
  <1> USE DEF Base
  <1>1. PICK state \in {"rollbackStopping", "failed"} :
          /\ Goto(state)
          /\ \/ UNCHANGED cleaning
             \/ /\ state = "failed"
                /\ cleaning' = [cleaning EXCEPT ![run.new] =
                                  IF Is({"initial"}) THEN "none" ELSE "lb"]
    BY DEF RollbackConfig
  <1>2. /\ At("rollbackRemoveConfig") /\ RemoveFromLB({run.new})
        /\ UNCHANGED <<made, container, well>>
    BY DEF RollbackConfig, docker
  <1>3. /\ run' \in Machine /\ run'.at = state /\ run'.kind = run.kind
        /\ run'.new = run.new /\ run'.old = run.old /\ run'.served = run.served
    BY <1>1, GotoFacts DEF States, RollbackStates, Final
  <1>4. run.new \in Containers /\ {run.new} \in SUBSET Containers
    BY <1>2, RunTypes DEF Stage, At, DeployStates, RollbackStates
  <1>5. /\ server' \in [Containers -> ServerStates]
        /\ UNCHANGED <<backend, rule, route>>
        /\ \A c \in Containers : server'[c] \in {server[c], "none"}
        /\ "listing" \notin Faults =>
             \A c \in Containers \ {run.new} :
               container[c] # "none" => server'[c] = server[c]
    BY <1>2, <1>4, RemoveFromLBFacts
  <1>6. /\ cleaning' \in [Containers -> CleanupStages]
        /\ \A c \in Containers : \/ cleaning'[c] = cleaning[c]
                                 \/ /\ c = run.new /\ state = "failed"
                                    /\ cleaning'[c] \in {"none", "lb"}
    <2>1. CASE UNCHANGED cleaning
      BY <2>1 DEF TypeOK
    <2>2. CASE Is({"initial"})
      BY <1>1, <2>2 DEF TypeOK, CleanupStages
    <2>3. CASE ~Is({"initial"})
      BY <1>1, <2>3 DEF TypeOK, CleanupStages
    <2> QED BY <2>1, <2>2, <2>3
  <1>7. TypeOK' /\ NewIsLast'
    BY <1>2, <1>3, <1>5, <1>6, BaseFrame DEF TypeOK, ContainerStates
  <1>8. Stage'
    BY <1>2, <1>3 DEF Stage, At, DeployStates, RollbackStates, RemovalStates
  <1>9. Enlisted' /\ RowMeansRule'
    BY <1>5 DEF Enlisted, RowMeansRule
  <1>10. Cleaned'
    BY <1>2, <1>3, <1>6 DEF Cleaned, At
  <1>11. ASSUME Careful, Served
         PROVE  Served'
    <2>1. run.at \notin CutOver /\ run'.at \notin GreenStates
      BY <1>2, <1>3 DEF At, CutOver, GreenStates
    <2>2. \A c \in Containers \ {run.new} : Up(c) => Up(c)'
      BY <1>2, <1>5, <1>11 DEF Up, Careful
    <2>3. run.served => rule' /\ backend'
      BY <1>2, <1>5, <1>11 DEF Served, BlueServes
    <2> QED BY <1>3, <1>11, <2>1, <2>2, <2>3, BlueStays
  <1> QED BY <1>7, <1>8, <1>9, <1>10, <1>11

\* Green is stopped, then removed.
LEMMA GreenGoesKeeps ==
  ASSUME Base, RollbackStop \/ RollbackRemove
  PROVE  Base' /\ (Served => Served')
  <1> USE DEF Base
  <1>1. PICK state \in {"rollbackRemoving", "rollbackComplete"} :
          /\ Goto(state) /\ run.at \in {"rollbackStopping", "rollbackRemoving"}
          /\ UNCHANGED <<server, backend, rule, route, cleaning>>
    BY DEF RollbackStop, RollbackRemove, At, haproxy
  <1>2. /\ run' \in Machine /\ run'.at = state /\ run'.kind = run.kind
        /\ run'.new = run.new /\ run'.old = run.old /\ run'.served = run.served
    BY <1>1, GotoFacts DEF States, Final, RollbackStates
  <1>3. run.new \in Containers /\ {run.new} \in SUBSET Containers
    BY <1>1, RunTypes DEF Stage, DeployStates, RollbackStates
  <1>4. /\ container' \in [Containers -> ContainerStates]
        /\ UNCHANGED <<made, well>>
        /\ \A c \in Containers \ {run.new} : container'[c] = container[c]
        /\ \A c \in Containers : container[c] = "none" => container'[c] = "none"
    BY <1>3, StoppedFacts, RemovedFacts DEF RollbackStop, RollbackRemove
  <1>5. TypeOK' /\ NewIsLast'
    BY <1>1, <1>2, <1>4, BaseFrame DEF TypeOK, ServerStates
  <1>6. Stage'
    BY <1>1, <1>2 DEF Stage, At, DeployStates, RollbackStates, RemovalStates
  <1>7. Enlisted' /\ Cleaned' /\ RowMeansRule'
    BY <1>1, NotCleaning DEF Enlisted, RowMeansRule, At
  <1>8. ASSUME Served
        PROVE  Served'
    <2>1. run.at \notin CutOver /\ run'.at \notin GreenStates
      BY <1>1, <1>2 DEF CutOver, GreenStates
    <2>2. \A c \in Containers \ {run.new} : Up(c) => Up(c)'
      BY <1>1, <1>4 DEF Up
    <2>3. run.served => rule' /\ backend'
      BY <1>1, <1>8 DEF Served, BlueServes
    <2> QED BY <1>2, <1>8, <2>1, <2>2, <2>3, BlueStays
  <1> QED BY <1>5, <1>6, <1>7, <1>8

-----------------------------------------------------------------------------
(* Removal *)

LEMMA RemovalKeeps ==
  ASSUME Base, Removal
  PROVE  Base' /\ Served'
  <1> USE DEF Base
  <1>1. PICK state \in {"removingFrontend", "stoppingApplication",
                        "removingApplication", "completed"} :
          Goto(state) /\ run.at \in RemovalStates /\ UNCHANGED cleaning
    BY DEF Removal, RemovalFromLB, RemovalOfFrontend, RemovalStop,
           RemovalRemove, RemovalStates, At
  <1>2. /\ run' \in Machine /\ run'.at = state /\ run'.kind = run.kind
        /\ run'.new = run.new /\ run'.old = run.old /\ run'.served = run.served
    BY <1>1, GotoFacts DEF States, Final
  <1>3. run.kind = "removal" /\ ~run.served
    BY <1>1 DEF Stage
  <1>4. /\ container' \in [Containers -> ContainerStates]
        /\ server' \in [Containers -> ServerStates]
        /\ UNCHANGED <<made, well>>
        /\ \A c \in Containers : container[c] = "none" => container'[c] = "none"
        /\ \A c \in Containers : server[c] = "none" => server'[c] = "none"
        /\ backend' \in BOOLEAN /\ rule' \in BOOLEAN /\ route' \in BOOLEAN
        /\ Enlisted' /\ RowMeansRule'
    <2>1. CASE RemovalFromLB
      BY <2>1, RemoveFromLBFacts
      DEF RemovalFromLB, docker, TypeOK, ContainerStates, Enlisted, RowMeansRule
    <2>2. CASE RemovalOfFrontend
      BY <2>2, RemoveFrontendFacts
      DEF RemovalOfFrontend, docker, TypeOK, ContainerStates
    <2>3. CASE RemovalStop
      BY <2>3, StoppedFacts, RunTypes
      DEF RemovalStop, haproxy, TypeOK, ServerStates, Enlisted, RowMeansRule
    <2>4. CASE RemovalRemove
      BY <2>4, RemovedFacts, RunTypes
      DEF RemovalRemove, haproxy, TypeOK, ServerStates, Enlisted, RowMeansRule
    <2> QED BY <2>1, <2>2, <2>3, <2>4 DEF Removal
  <1>5. TypeOK' /\ NewIsLast'
    BY <1>1, <1>2, <1>4, BaseFrame DEF TypeOK
  <1>6. Stage'
    BY <1>1, <1>2, <1>3
    DEF Stage, At, DeployStates, RollbackStates, RemovalStates, DeployKinds
  <1>7. Cleaned'
    BY <1>1, NotCleaning DEF At, RemovalStates
  <1>8. Served'
    BY <1>2, <1>3
    DEF Served, BlueServes, GreenServes, GreenRouted, DeployKinds
  <1> QED BY <1>4, <1>5, <1>6, <1>7, <1>8

-----------------------------------------------------------------------------
(* Runs start *)

LEMMA StartDeploymentKeeps ==
  ASSUME Base, StartDeployment
  PROVE  Base' /\ Served'
  <1> USE DEF Base
  <1>1. /\ UNCHANGED <<made, container, well, server, backend, rule, route>>
        /\ UNCHANGED cleaning /\ made < MaxContainers
        /\ CleanupIsPrompt => \A c \in Containers : cleaning[c] = "none"
    BY DEF StartDeployment, MayStart, docker, haproxy
  <1>2. /\ run' \in Machine /\ run'.at = "deploying" /\ run'.new = 0
        /\ run'.kind \in DeployKinds
        /\ \A c \in run'.old : container[c] # "none"
        /\ run'.served => run'.kind \in {"replace", "update"} /\ Serving
    <2>1. CASE run' = [NoRun EXCEPT !.kind = "initial", !.at = "deploying"]
      <3>1. run' = [kind |-> "initial", at |-> "deploying", new |-> 0,
                    old |-> {}, served |-> FALSE]
        BY <2>1 DEF NoRun
      <3>2. run' \in Machine
        BY <3>1, MaxContainersAssumption
        DEF Machine, Kinds, DeployKinds, States
      <3> QED BY <3>1, <3>2 DEF DeployKinds
    <2>2. CASE \E c \in Present, kind \in {"replace", "update"} :
                 run' = [NoRun EXCEPT !.kind = kind, !.at = "deploying",
                                      !.old = {c}, !.served = Serving]
      <3>1. PICK c \in Present, kind \in {"replace", "update"} :
              run' = [NoRun EXCEPT !.kind = kind, !.at = "deploying",
                                   !.old = {c}, !.served = Serving]
        BY <2>2
      <3>2. Serving \in BOOLEAN
        BY DEF Serving, TypeOK
      <3>3. /\ run'.at = "deploying" /\ run'.new = 0 /\ run'.kind = kind
            /\ run'.old = {c} /\ run'.served = Serving
            /\ c \in Containers /\ container[c] # "none"
        BY <3>1 DEF NoRun, Present
      <3>4. run' = [kind |-> kind, at |-> "deploying", new |-> 0, old |-> {c},
                    served |-> Serving]
        BY <3>1 DEF NoRun
      <3> HIDE DEF Serving
      <3>5. run' \in Machine
        BY <3>2, <3>3, <3>4, MaxContainersAssumption
        DEF Machine, Kinds, DeployKinds, States
      <3> QED BY <3>3, <3>5 DEF DeployKinds
    <2> QED BY <2>1, <2>2 DEF StartDeployment
  <1>3. TypeOK'
    BY <1>1, <1>2 DEF TypeOK
  <1>4. NewIsLast'
    <2>1. \A c \in run'.old : c \in Containers /\ c \in Nat /\ c # 0
      BY <1>2, MaxContainersAssumption DEF Machine, Containers
    <2>2. \A c \in run'.old : c <= made
      BY <1>2, <2>1, RunTypes DEF NewIsLast
    <2>3. 0 <= made
      BY RunTypes
    <2> QED BY <1>1, <1>2, <2>1, <2>2, <2>3 DEF NewIsLast
  <1>5. Stage' /\ Cleaned' /\ Enlisted' /\ RowMeansRule'
    BY <1>1, <1>2
    DEF Stage, At, DeployStates, RollbackStates, RemovalStates, Cleaned,
        Enlisted, RowMeansRule
  <1>6. Served'
    <2>1. GreenServes' /\ GreenRouted'
      BY <1>2 DEF GreenServes, GreenRouted, GreenStates
    <2>2. run'.at \notin CutOver /\ run'.at \notin GreenStates
      BY <1>2 DEF CutOver, GreenStates
    <2>3. ASSUME run'.served
          PROVE  rule' /\ backend' /\ \E c \in Containers : c # run'.new /\ Up(c)'
      <3>1. rule /\ backend /\ \E c \in Containers : Up(c)
        BY <1>2, <2>3 DEF Serving
      <3>2. \A c \in Containers : c # 0
        BY MaxContainersAssumption DEF Containers
      <3> QED BY <1>1, <1>2, <3>1, <3>2 DEF Up
    <2> QED BY <2>1, <2>2, <2>3 DEF Served, BlueServes
  <1> QED BY <1>3, <1>4, <1>5, <1>6

\* No run, or the run of a removal: nothing is kept up.
LEMMA AfreshKeeps ==
  ASSUME Base, UNCHANGED <<made, well, server, backend, rule, route>>,
         container' \in [Containers -> ContainerStates],
         \A c \in Containers : container[c] = "none" => container'[c] = "none",
         run' \in Machine, run'.new = 0, ~run'.served, run'.kind \notin DeployKinds,
         run'.at \notin DeployStates \cup {"failed"},
         run'.at \in RemovalStates => run'.kind = "removal",
         \A c \in run'.old : c <= made,
         cleaning' \in [Containers -> CleanupStages],
         CleanupIsPrompt => \A c \in Containers : cleaning'[c] = "none"
  PROVE  Base' /\ Served'
  <1> USE DEF Base
  <1>1. TypeOK'
    BY DEF TypeOK, ContainerStates
  <1>2. NewIsLast'
    <2>1. 0 <= made
      BY RunTypes
    <2>2. \A c \in run'.old : c # 0
      BY MaxContainersAssumption DEF Machine, Containers
    <2> QED BY <2>1, <2>2 DEF NewIsLast
  <1>3. Stage' /\ Cleaned' /\ Enlisted' /\ RowMeansRule'
    BY DEF Stage, At, DeployStates, RollbackStates, Cleaned, Enlisted,
           RowMeansRule
  <1>4. Served'
    BY DEF Served, BlueServes, GreenServes, GreenRouted, DeployKinds
  <1> QED BY <1>1, <1>2, <1>3, <1>4

LEMMA NoRunFacts ==
  /\ NoRun \in Machine /\ NoRun.new = 0 /\ ~NoRun.served /\ NoRun.old = {}
  /\ NoRun.kind \notin DeployKinds
  /\ NoRun.at \notin DeployStates \cup RemovalStates \cup {"failed"}
  BY MaxContainersAssumption
  DEF NoRun, Machine, Kinds, DeployKinds, States, Final, DeployStates,
      RollbackStates, RemovalStates

LEMMA StartRemovalKeeps ==
  ASSUME Base, StartRemoval
  PROVE  Base' /\ Served'
  <1> USE DEF Base
  <1>1. /\ UNCHANGED <<made, container, well, server, backend, rule, route>>
        /\ UNCHANGED cleaning
        /\ CleanupIsPrompt => \A c \in Containers : cleaning[c] = "none"
        /\ run' = [NoRun EXCEPT !.kind = "removal", !.at = "removingFromLB",
                                !.old = Present]
    BY DEF StartRemoval, MayStart, docker, haproxy
  <1>2. /\ run'.kind = "removal" /\ run'.at = "removingFromLB"
        /\ run'.old = Present /\ run'.new = 0 /\ ~run'.served
    BY <1>1 DEF NoRun
  <1>3. run' \in Machine
    <2>1. Present \in SUBSET Containers
      BY DEF Present
    <2>2. run' = [kind |-> "removal", at |-> "removingFromLB", new |-> 0,
                  old |-> Present, served |-> FALSE]
      BY <1>1 DEF NoRun
    <2> HIDE DEF Present
    <2> QED BY <2>1, <2>2, MaxContainersAssumption DEF Machine, Kinds, States
  <1>4. \A c \in run'.old : c <= made
    <2>1. \A c \in Present : c \in Containers /\ container[c] # "none"
      BY DEF Present
    <2>2. \A c \in Containers : c \in Nat
      BY RunTypes
    <2>3. \A c \in Present : ~(c > made)
      BY <2>1 DEF NewIsLast
    <2> QED BY <1>2, <2>1, <2>2, <2>3, RunTypes
  <1>5. container' \in [Containers -> ContainerStates]
        /\ cleaning' \in [Containers -> CleanupStages]
    BY <1>1 DEF TypeOK, ContainerStates
  <1>6. /\ run'.kind \notin DeployKinds
        /\ run'.at \notin DeployStates \cup {"failed"}
    BY <1>2 DEF DeployKinds, DeployStates, RollbackStates
  <1> QED BY <1>1, <1>2, <1>3, <1>4, <1>5, <1>6, AfreshKeeps

LEMMA StopStackKeeps ==
  ASSUME Base, StopStack
  PROVE  Base' /\ Served'
  <1> USE DEF Base
  <1>1. /\ UNCHANGED <<server, backend, rule, route, cleaning>>
        /\ CleanupIsPrompt => \A c \in Containers : cleaning[c] = "none"
        /\ Removed(Present) /\ run' = NoRun
    BY DEF StopStack, MayStart, haproxy
  <1>2. Present \in SUBSET Containers
    BY DEF Present
  <1>3. /\ container' \in [Containers -> ContainerStates]
        /\ UNCHANGED <<made, well>>
        /\ \A c \in Containers : container[c] = "none" => container'[c] = "none"
    BY <1>1, <1>2, RemovedFacts
  <1>4. cleaning' \in [Containers -> CleanupStages]
    BY <1>1 DEF TypeOK
  <1> QED BY <1>1, <1>3, <1>4, NoRunFacts, AfreshKeeps

LEMMA ServerRestartKeeps ==
  ASSUME Base, ServerRestart
  PROVE  Base' /\ Served'
  <1> USE DEF Base
  <1>1. /\ UNCHANGED <<made, container, well, server, backend, rule, route>>
        /\ run' = NoRun /\ cleaning' = [c \in Containers |-> "none"]
    BY DEF ServerRestart, docker, haproxy
  <1>2. container' \in [Containers -> ContainerStates]
    BY <1>1 DEF TypeOK, ContainerStates
  <1>3. /\ cleaning' \in [Containers -> CleanupStages]
        /\ \A c \in Containers : cleaning'[c] = "none"
    BY <1>1 DEF CleanupStages
  <1> QED BY <1>1, <1>2, <1>3, NoRunFacts, AfreshKeeps

LEMMA ContainerDiesKeeps ==
  ASSUME Base, ContainerDies
  PROVE  Base' /\ (Served => Served')
  <1> USE DEF Base
  <1>1. /\ UNCHANGED <<made, well, server, backend, rule, route, cleaning>>
        /\ run' = [run EXCEPT !.served = FALSE]
        /\ container' \in [Containers -> ContainerStates]
        /\ \A c \in Containers : /\ container[c] = "none" => container'[c] = "none"
                                 /\ container'[c] = "running" =>
                                      container[c] = "running"
    BY DEF ContainerDies, haproxy, TypeOK, ContainerStates
  <1>2. /\ run' \in Machine /\ ~run'.served /\ run'.at = run.at
        /\ run'.kind = run.kind /\ run'.new = run.new /\ run'.old = run.old
    BY <1>1, RunTypes DEF Machine
  <1>3. TypeOK' /\ NewIsLast'
    BY <1>1, <1>2, BaseFrame DEF TypeOK, ServerStates
  <1>4. Stage' /\ Cleaned' /\ Enlisted' /\ RowMeansRule'
    BY <1>1, <1>2 DEF Stage, At, Cleaned, Enlisted, RowMeansRule
  <1>5. ASSUME Served
        PROVE  Served'
    <2>1. BlueServes'
      BY <1>2 DEF BlueServes
    <2>2. ASSUME run.at \in GreenStates, run.kind \in DeployKinds
          PROVE  run.new \in Containers
      <3>1. run.new # 0
        BY <2>2 DEF GreenStates, Stage, DeployStates, At
      <3> QED BY <3>1, RunTypes
    <2>3. GreenServes'
      BY <1>1, <1>2, <1>5, <2>2 DEF Served, GreenServes, Up
    <2>4. GreenRouted'
      BY <1>1, <1>2, <1>5 DEF Served, GreenRouted
    <2> QED BY <2>1, <2>3, <2>4 DEF Served
  <1> QED BY <1>3, <1>4, <1>5

-----------------------------------------------------------------------------
(* The clean-up of a failed run *)

LEMMA CleanupFacts ==
  ASSUME Base, NEW c \in Containers, Cleanup(c)
  PROVE  /\ UNCHANGED <<run, made, well>> /\ cleaning[c] # "none"
         /\ container' \in [Containers -> ContainerStates]
         /\ \A d \in Containers : /\ container[d] = "none" => container'[d] = "none"
                                  /\ d # c => container'[d] = container[d]
         /\ server' \in [Containers -> ServerStates]
         /\ \A d \in Containers : server'[d] \in {server[d], "none"}
         /\ backend' \in BOOLEAN /\ rule' \in BOOLEAN /\ route' \in BOOLEAN
         /\ Enlisted' /\ RowMeansRule'
         /\ \E stage \in CleanupStages :
              /\ cleaning' = [cleaning EXCEPT ![c] = stage]
              /\ stage = "frontend" =>
                   \A s \in Containers : server'[s] = "none"
         /\ \/ cleaning[c] = "frontend"
            \/ /\ UNCHANGED <<backend, rule, route>>
               /\ "listing" \notin Faults => \A d \in Containers \ {c} :
                    container[d] # "none" => server'[d] = server[d]
  <1> USE DEF Base
  <1>1. CASE CleanupFromLB(c)
    <2>1. /\ RemoveFromLB({c}) /\ cleaning[c] = "lb"
          /\ cleaning' = [cleaning EXCEPT ![c] = "count"]
          /\ UNCHANGED <<made, container, well, run>>
      BY <1>1 DEF CleanupFromLB, CleanupGoto, docker
    <2>2. /\ server' \in [Containers -> ServerStates]
          /\ UNCHANGED <<backend, rule, route>>
          /\ \A d \in Containers : server'[d] \in {server[d], "none"}
          /\ "listing" \notin Faults => \A d \in Containers \ {c} :
               container[d] # "none" => server'[d] = server[d]
      BY <2>1, RemoveFromLBFacts
    <2> QED BY <2>1, <2>2
        DEF TypeOK, ContainerStates, CleanupStages, Enlisted, RowMeansRule
  <1>2. CASE CleanupCount(c)
    <2>1. /\ cleaning[c] = "count"
          /\ UNCHANGED <<made, container, well, run, server, backend, rule, route>>
      BY <1>2 DEF CleanupCount, docker, haproxy
    <2>2. \E stage \in {"stop", "frontend"} :
            /\ cleaning' = [cleaning EXCEPT ![c] = stage]
            /\ stage = "frontend" => \A s \in Containers : server[s] = "none"
      <3>1. CASE CleanupGoto(c, "stop")
        BY <3>1 DEF CleanupGoto
      <3>2. CASE /\ ~(backend /\ \E s \in Containers : server[s] # "none")
                 /\ CleanupGoto(c, "frontend")
        BY <3>2 DEF CleanupGoto, Enlisted
      <3> QED BY <1>2, <3>1, <3>2 DEF CleanupCount
    <2> QED BY <2>1, <2>2
        DEF TypeOK, ContainerStates, ServerStates, CleanupStages, Enlisted,
            RowMeansRule
  <1>3. CASE CleanupFrontend(c)
    <2>1. /\ RemoveFrontend /\ cleaning[c] = "frontend"
          /\ cleaning' = [cleaning EXCEPT ![c] = "stop"]
          /\ UNCHANGED <<made, container, well, run>>
      BY <1>3 DEF CleanupFrontend, CleanupGoto, docker
    <2> QED BY <2>1, RemoveFrontendFacts DEF TypeOK, ContainerStates, CleanupStages
  <1>4. CASE CleanupStop(c) \/ CleanupRemove(c)
    <2>1. \E stage \in {"remove", "none"} :
            /\ cleaning' = [cleaning EXCEPT ![c] = stage]
            /\ cleaning[c] # "none"
            /\ UNCHANGED <<run, server, backend, rule, route>>
      BY <1>4 DEF CleanupStop, CleanupRemove, CleanupGoto, haproxy
    <2>2. Stopped({c}) \/ Removed({c})
      BY <1>4 DEF CleanupStop, CleanupRemove
    <2>3. /\ container' \in [Containers -> ContainerStates]
          /\ UNCHANGED <<made, well>>
          /\ \A d \in Containers : /\ container[d] = "none" => container'[d] = "none"
                                   /\ d # c => container'[d] = container[d]
      <3>1. {c} \in SUBSET Containers
        OBVIOUS
      <3>2. CASE Stopped({c})
        BY <3>1, <3>2, StoppedFacts
      <3>3. CASE Removed({c})
        BY <3>1, <3>3, RemovedFacts
      <3> QED BY <2>2, <3>2, <3>3
    <2>4. \E stage \in CleanupStages :
            /\ cleaning' = [cleaning EXCEPT ![c] = stage]
            /\ stage = "frontend" => \A s \in Containers : server'[s] = "none"
      BY <2>1 DEF CleanupStages
    <2>5. /\ server' \in [Containers -> ServerStates]
          /\ \A d \in Containers : server'[d] = server[d]
          /\ backend' \in BOOLEAN /\ rule' \in BOOLEAN /\ route' \in BOOLEAN
          /\ Enlisted' /\ RowMeansRule'
      BY <2>1 DEF TypeOK, ServerStates, Enlisted, RowMeansRule
    <2> QED BY <2>1, <2>3, <2>4, <2>5
  <1> QED BY <1>1, <1>2, <1>3, <1>4 DEF Cleanup

LEMMA CleanupKeeps ==
  ASSUME Base, NEW c \in Containers, Cleanup(c)
  PROVE  Base' /\ (Careful /\ Served => Served')
  <1> USE DEF Base
  <1>1. PICK stage \in CleanupStages :
          /\ cleaning' = [cleaning EXCEPT ![c] = stage]
          /\ stage = "frontend" => \A s \in Containers : server'[s] = "none"
    BY CleanupFacts
  <1>2. /\ UNCHANGED <<run, made, well>> /\ cleaning[c] # "none"
        /\ container' \in [Containers -> ContainerStates]
        /\ \A d \in Containers : /\ container[d] = "none" => container'[d] = "none"
                                 /\ d # c => container'[d] = container[d]
        /\ server' \in [Containers -> ServerStates]
        /\ \A d \in Containers : server'[d] \in {server[d], "none"}
        /\ backend' \in BOOLEAN /\ rule' \in BOOLEAN /\ route' \in BOOLEAN
        /\ Enlisted' /\ RowMeansRule'
    BY CleanupFacts
  <1>3. run' \in Machine /\ cleaning' \in [Containers -> CleanupStages]
    BY <1>1, <1>2 DEF TypeOK
  <1>4. TypeOK' /\ NewIsLast'
    BY <1>2, <1>3, BaseFrame
  <1>5. Stage'
    BY <1>2 DEF Stage, At
  <1>6. Cleaned'
    <2> SUFFICES ASSUME CleanupIsPrompt, NEW d \in Containers,
                        cleaning'[d] # "none"
                 PROVE  /\ At("failed") /\ d = run.new
                        /\ cleaning'[d] = "frontend" =>
                             \A s \in Containers : server'[s] = "none"
      BY <1>2 DEF Cleaned, At
    <2>1. At("failed") /\ c = run.new
      BY <1>2 DEF Cleaned
    <2>2. CASE d = c
      BY <1>1, <2>1, <2>2 DEF TypeOK
    <2>3. CASE d # c
      <3>1. cleaning'[d] = cleaning[d]
        BY <1>1, <2>3 DEF TypeOK
      <3> QED BY <1>2, <2>1, <2>3, <3>1 DEF Cleaned
    <2> QED BY <2>2, <2>3
  <1>7. ASSUME Careful, Served
        PROVE  Served'
    <2>1. At("failed") /\ c = run.new
      BY <1>2, <1>7 DEF Cleaned, Careful
    <2>2. run.at \notin CutOver /\ run'.at \notin GreenStates
      BY <1>2, <2>1 DEF At, CutOver, GreenStates
    <2>3. ASSUME run.served
          PROVE  cleaning[c] # "frontend"
      <3>1. PICK d \in Containers : Up(d)
        BY <1>7, <2>2, <2>3 DEF Served, BlueServes
      <3> QED BY <1>7, <3>1 DEF Cleaned, Careful, Up
    <2>4. run.served => rule' /\ backend'
      BY <1>7, <2>3, CleanupFacts DEF Served, BlueServes
    <2>5. run.served => \A d \in Containers \ {run.new} : Up(d) => Up(d)'
      BY <1>2, <1>7, <2>1, <2>3, CleanupFacts DEF Careful, Up
    <2> QED BY <1>2, <1>7, <2>2, <2>4, <2>5, BlueStays
  <1> QED BY <1>2, <1>4, <1>5, <1>6, <1>7

-----------------------------------------------------------------------------
(* The invariant *)

LEMMA Start ==
  ASSUME Init
  PROVE  Base /\ Served
  <1>1. TypeOK
    <2>1. made \in 0..MaxContainers
      BY MaxContainersAssumption DEF Init
    <2>2. /\ well \in [Containers -> BOOLEAN]
          /\ backend \in BOOLEAN /\ rule \in BOOLEAN /\ route \in BOOLEAN
      BY DEF Init
    <2>3. /\ container \in [Containers -> ContainerStates]
          /\ server \in [Containers -> ServerStates]
          /\ cleaning \in [Containers -> CleanupStages]
      BY DEF Init, ContainerStates, ServerStates, CleanupStages
    <2>4. run \in Machine
      BY NoRunFacts DEF Init
    <2> QED BY <2>1, <2>2, <2>3, <2>4 DEF TypeOK, ContainerStates, ServerStates
  <1>2. NewIsLast
    BY NoRunFacts DEF Init, NewIsLast
  <1>3. Stage /\ Enlisted /\ Cleaned /\ RowMeansRule
    BY NoRunFacts
    DEF Init, Stage, At, Enlisted, Cleaned, RowMeansRule, DeployStates,
        RollbackStates, RemovalStates
  <1>4. Served
    BY NoRunFacts
    DEF Init, Served, BlueServes, GreenServes, GreenRouted, DeployKinds
  <1> QED BY <1>1, <1>2, <1>3, <1>4 DEF Base

LEMMA Step ==
  ASSUME Base, [Next]_vars
  PROVE  Base' /\ (Careful /\ Served => Served')
  <1>1. CASE Forward
    BY <1>1, DeploySucceedsKeeps, DeployFailsKeeps, ContainerReadyKeeps,
       AddToLBKeeps, HealthCheckKeeps, ConfigureFrontendKeeps,
       OpenTrafficKeeps, DrainKeeps, DrainedKeeps, RetireBlueKeeps,
       BlueGoesKeeps
    DEF Forward
  <1>2. CASE Rollback
    BY <1>2, RollbackFrontendKeeps, RollbackTrafficKeeps, RollbackConfigKeeps,
       GreenGoesKeeps
    DEF Rollback
  <1>3. CASE Removal
    BY <1>3, RemovalKeeps
  <1>4. CASE StartDeployment \/ StartRemoval \/ StopStack
    BY <1>4, StartDeploymentKeeps, StartRemovalKeeps, StopStackKeeps
  <1>5. CASE \E c \in Containers : Cleanup(c)
    BY <1>5, CleanupKeeps
  <1>6. CASE ContainerDies \/ ServerRestart
    BY <1>6, ContainerDiesKeeps, ServerRestartKeeps
  <1>7. CASE UNCHANGED vars
    <2>1. UNCHANGED <<made, container, well, server, backend, rule, route, run,
                      cleaning>>
      BY <1>7 DEF vars, docker, haproxy
    <2>2. Base'
      BY <2>1 DEF Base, TypeOK, NewIsLast, Stage, Enlisted, Cleaned,
                  RowMeansRule, At
    <2>3. Served => Served'
      BY <2>1 DEF Served, BlueServes, GreenServes, GreenRouted, Up
    <2> QED BY <2>2, <2>3
  <1> QED BY <1>1, <1>2, <1>3, <1>4, <1>5, <1>6, <1>7 DEF Next, RunStep

\* The invariant holds whatever fails.
LEMMA BaseHolds == Spec => []Base
  <1>1. Init => Base
    BY Start
  <1>2. Base /\ [Next]_vars => Base'
    BY Step
  <1> QED BY <1>1, <1>2, PTL DEF Spec

\* The served part needs a clean-up that keeps to its own run, and a container
\* list that tells the truth.
LEMMA ServedHolds ==
  ASSUME Careful
  PROVE  Spec => [](Base /\ Served)
  <1>1. Init => Base /\ Served
    BY Start
  <1>2. Base /\ Served /\ [Next]_vars => (Base /\ Served)'
    BY Step
  <1> QED BY <1>1, <1>2, PTL DEF Spec

-----------------------------------------------------------------------------
(* Theorems *)

\* The machines' contexts, Docker and HAProxy keep the shapes the module gives
\* them.
THEOREM TypeCorrect == Spec => []TypeOK
  <1>1. Base => TypeOK
    BY DEF Base
  <1> QED BY <1>1, BaseHolds, PTL

\* A deployment that found the service answering keeps it answering until it
\* ends, through every roll-back, provided the clean-up of a failed run is over
\* before the next run begins and Docker's container list can be had
\* (blue-green-deployment-state-machine.ts, remove-container-from-lb.ts).
THEOREM Undropped ==
  ASSUME Careful
  PROVE  Spec => []NoDroppedRequests
  <1>1. Base /\ Served => NoDroppedRequests
    <2> SUFFICES ASSUME Base, Served, run.served
                 PROVE  rule /\ backend /\ \E c \in Containers : Up(c)
      BY DEF NoDroppedRequests, Serving
    <2>1. rule /\ backend
      BY DEF Served, BlueServes
    <2>2. CASE run.at \notin CutOver
      BY <2>2 DEF Served, BlueServes
    <2>3. CASE run.at \in CutOver
      <3>1. run.at \in GreenStates
        BY <2>3 DEF CutOver
      <3>2. run.kind \in DeployKinds /\ container[run.new] = "running"
        BY <3>1 DEF Base, Stage, DeployKinds, Served, BlueServes
      <3>3. Up(run.new)
        BY <3>1, <3>2 DEF Served, GreenServes
      <3>4. run.new # 0
        BY <3>1, <3>2 DEF Base, Stage, GreenStates, DeployStates, At
      <3> QED BY <2>1, <3>3, <3>4, RunTypes DEF Base
    <2> QED BY <2>1, <2>2, <2>3
  <1> QED BY <1>1, ServedHolds, PTL

\* A deployment that says completed is served by its own container, unless a
\* route's removal was torn between HAProxy and its row (route-operations.ts).
THEOREM Completed ==
  ASSUME Careful, "torn" \notin Faults
  PROVE  Spec => []CompletedMeansServed
  <1>1. Base /\ Served => CompletedMeansServed
    <2> SUFFICES ASSUME Base, Served, At("completed"), run.kind \in DeployKinds,
                        container[run.new] = "running"
                 PROVE  Up(run.new) /\ backend /\ (run.kind # "update" => rule)
      BY DEF CompletedMeansServed, Is
    <2>1. run.at \in GreenStates \ {"configuringFrontend"}
      BY DEF At, GreenStates
    <2> QED BY <2>1 DEF Served, GreenServes, GreenRouted, DeployKinds
  <1> QED BY <1>1, ServedHolds, PTL

\* cleanupFailedDeployment takes the route of nobody who is being served, when
\* it is over before the next run begins (blue-green-deployment-state-machine.ts).
THEOREM CleanupSpares ==
  ASSUME CleanupIsPrompt
  PROVE  Spec => CleanupSparesLiveRoute
  <1>1. Base /\ [Next]_vars =>
          [(\E c \in Containers : CleanupFrontend(c)) => ~Serving]_vars
    BY DEF Base, Cleaned, CleanupFrontend, Serving, Up
  <1> QED BY <1>1, BaseHolds, PTL DEF Spec, CleanupSparesLiveRoute

=============================================================================

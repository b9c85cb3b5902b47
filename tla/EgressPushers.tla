--------------------------- MODULE EgressPushers ---------------------------
(***************************************************************************)
(* How ONE environment's egress gateway is kept up to date: the rule       *)
(* pusher (policies in the database) and the container-map pusher          *)
(* (containers in Docker), each sending whole snapshots over NATS          *)
(* request/reply to a gateway that keeps what arrives last, in memory.     *)
(*                                                                         *)
(* The policies are the number of edits made to them; the containers are   *)
(* one of a few maps, so that a map may come back to what it was.  The     *)
(* pushers' version counters and appliedVersion, which decide nothing,     *)
(* are left out, and so are the health events and stop().                  *)
(*                                                                         *)
(* An action is the code from one await to the next.  A push that fails    *)
(* starts over once, a second later, from the reading of its snapshot.     *)
(***************************************************************************)
EXTENDS Naturals, Sequences

CONSTANTS
  Maps,        \* container maps
  NoMap,       \* none, in the gateway and in lastPushedFingerprint
  Slots,       \* bound: pushes of a kind that overlap
  MaxChanges,  \* bound: edits of policies and container events
  MaxFaults    \* bound: queries that throw, messages lost, late or not
               \* answered, losses of the connection, restarts

ASSUME MapsAssumption == Maps # {} /\ NoMap \notin Maps
ASSUME BoundsAssumption == MaxChanges \in Nat /\ MaxFaults \in Nat

VARIABLES
  policies,   \* what the database says
  asked,      \* calls of pushForPolicy/pushForStack that look up their env
  inFlight, pendingFollowUp,   \* EnvPushState
  push,       \* where the running pushes of the rules are
  wire,       \* rules.apply requests on their way
  rules,      \* what the gateway enforces
  dropped,    \* was a push given up since the policies were last read?
  boxes,      \* what Docker says
  told,       \* onContainerChange callbacks that look up the environments
  timer,      \* the debounce timer
  mapPush,    \* where the running _pushEnv are
  lastPushed, \* lastPushedFingerprint
  post,       \* container-map.apply requests on their way
  map,        \* what the gateway goes by
  mapDropped, \* was a push given up since the containers were last listed?
  blurred,    \* may the gateway have got a map that was not acknowledged?
  booted,     \* has startEgressBackgroundServices() returned?
  up,         \* is the NATS bus connected?
  changes, faults

ruleVars == <<policies, asked, inFlight, pendingFollowUp, push, wire, rules,
              dropped>>
mapVars == <<boxes, told, timer, mapPush, lastPushed, post, map, mapDropped,
             blurred>>
processVars == <<booted, up, changes, faults>>
vars == <<ruleVars, mapVars, processVars>>

AnyMap == Maps \cup {NoMap}

Start(pc) == [pc |-> pc, try |-> 1, snap |-> 0]
Off == Start("off")
MapOff == [pc |-> "off", try |-> 1, map |-> NoMap]
MapStart == [pc |-> "build", try |-> 1, map |-> NoMap]
FirstPush(s) == [q \in Slots |-> IF q = s THEN Start("build") ELSE Off]
FirstMapPush(s) == [q \in Slots |-> IF q = s THEN MapStart ELSE MapOff]

TypeOK ==
  /\ policies \in Nat /\ asked \in Nat /\ rules \in Nat
  /\ inFlight \in BOOLEAN /\ pendingFollowUp \in BOOLEAN
  /\ dropped \in BOOLEAN
  /\ push \in [Slots -> [pc : {"off", "env", "build", "send", "wait", "stamp"},
                         try : {1, 2}, snap : Nat]]
  /\ wire \in Seq([snap : Nat, by : Slots, awaited : BOOLEAN])
  /\ boxes \in Maps /\ told \in Nat /\ timer \in BOOLEAN
  /\ mapPush \in [Slots -> [pc : {"off", "build", "send", "wait", "acked"},
                            try : {1, 2}, map : AnyMap]]
  /\ lastPushed \in AnyMap /\ map \in AnyMap
  /\ post \in Seq([map : AnyMap, by : Slots, awaited : BOOLEAN])
  /\ mapDropped \in BOOLEAN /\ blurred \in BOOLEAN
  /\ booted \in BOOLEAN /\ up \in BOOLEAN
  /\ changes \in Nat /\ faults \in Nat

\* A boot: the map pusher's first push, and the rule pusher's syncAll(), which
\* sets inFlight whatever it is.  The bus is started only later.
Init ==
  /\ policies = 0 /\ asked = 0 /\ rules = 0 /\ dropped = FALSE
  /\ inFlight = TRUE /\ pendingFollowUp = FALSE
  /\ wire = <<>>
  /\ boxes \in Maps /\ told = 0 /\ timer = FALSE
  /\ \E s \in Slots : push = FirstPush(s) /\ mapPush = FirstMapPush(s)
  /\ lastPushed = NoMap /\ post = <<>> /\ map = NoMap
  /\ mapDropped = FALSE /\ blurred = FALSE
  /\ booted = FALSE /\ up = FALSE
  /\ changes = 0 /\ faults = 0

\* Requests of a push that it still waits for, and what becomes of them when
\* it stops waiting: they are answered to nobody.
Awaited(line, s) == {i \in DOMAIN line : line[i].by = s /\ line[i].awaited}
GiveUpOn(line, late) ==
  [i \in DOMAIN line |-> [line[i] EXCEPT !.awaited = @ /\ i \notin late]]

Change == changes < MaxChanges /\ changes' = changes + 1
Fault == faults < MaxFaults /\ faults' = faults + 1

-----------------------------------------------------------------------------
(* The rule pusher *)

\* A push starts in a slot of its own.
Begins ==
  \E s \in Slots : push[s] = Off /\ push' = [push EXCEPT ![s] = Start("env")]

\* Slip: a call that finds a push in flight leaves it at that.
RequestCoalesced ==
  /\ IF inFlight
       THEN UNCHANGED <<inFlight, push>>
       ELSE inFlight' = TRUE /\ Begins
  /\ UNCHANGED pendingFollowUp

\* Slip: inFlight is set after the first await, so nobody sees it.
RequestAnyway ==
  /\ inFlight' = TRUE /\ Begins
  /\ UNCHANGED pendingFollowUp

\* pushForEnvironment() up to its first await.
Request ==
  IF inFlight
    THEN pendingFollowUp' = TRUE /\ UNCHANGED <<inFlight, push>>
    ELSE inFlight' = TRUE /\ Begins /\ UNCHANGED pendingFollowUp

\* A route or a template changes rules, and answers without waiting for the
\* push.  Nothing of the kind runs before the boot is over.
EditPolicies ==
  /\ booted
  /\ Change
  /\ policies' = policies + 1
  /\ asked' = asked + 1
  /\ UNCHANGED <<inFlight, pendingFollowUp, push, wire, rules, dropped,
                 mapVars, booted, up, faults>>

Ask ==
  /\ asked > 0
  /\ asked' = asked - 1
  /\ Request
  /\ UNCHANGED <<policies, wire, rules, dropped, mapVars, processVars>>

\* The look-up throws: a warning, and no push.
AskFails ==
  /\ asked > 0
  /\ Fault
  /\ asked' = asked - 1
  /\ dropped' = TRUE
  /\ UNCHANGED <<policies, inFlight, pendingFollowUp, push, wire, rules,
                 mapVars, booted, up, changes>>

\* finally: the follow-up starts at once.
End(s) ==
  /\ booted' = TRUE
  /\ pendingFollowUp' = FALSE
  /\ inFlight' = pendingFollowUp
  /\ push' = [push EXCEPT ![s] = IF pendingFollowUp THEN Start("env") ELSE Off]

\* catch: once more, then not until the next mutation.
Fails(s) ==
  IF push[s].try = 1
    THEN /\ push' = [push EXCEPT ![s] = [Start("build") EXCEPT !.try = 2]]
         /\ UNCHANGED <<inFlight, pendingFollowUp, dropped, booted>>
    ELSE dropped' = TRUE /\ End(s)

FindEnv(s) ==
  /\ push[s].pc = "env"
  /\ \/ /\ push' = [push EXCEPT ![s] = Start("build")]
        /\ UNCHANGED <<inFlight, pendingFollowUp, dropped, booted, faults>>
     \/ Fault /\ dropped' = TRUE /\ End(s)
  /\ UNCHANGED <<policies, asked, wire, rules, mapVars, up, changes>>

\* _buildSnapshot()
Build(s) ==
  /\ push[s].pc = "build"
  /\ \/ /\ push' = [push EXCEPT ![s].pc = "send", ![s].snap = policies]
        /\ dropped' = FALSE
        /\ UNCHANGED <<inFlight, pendingFollowUp, booted, faults>>
     \/ Fault /\ Fails(s)
  /\ UNCHANGED <<policies, asked, wire, rules, mapVars, up, changes>>

\* A bus that is not connected rejects the request at once.
Send(s) ==
  /\ push[s].pc = "send"
  /\ IF up
       THEN /\ wire' = Append(wire, [snap |-> push[s].snap, by |-> s,
                                     awaited |-> TRUE])
            /\ push' = [push EXCEPT ![s].pc = "wait"]
            /\ UNCHANGED <<inFlight, pendingFollowUp, dropped, booted>>
       ELSE Fails(s) /\ UNCHANGED wire
  /\ UNCHANGED <<policies, asked, rules, mapVars, up, changes, faults>>

\* The gateway takes the snapshot; its answer comes back, or does not.
ApplyRules ==
  /\ wire # <<>>
  /\ rules' = Head(wire).snap
  /\ wire' = Tail(wire)
  /\ \/ /\ Head(wire).awaited
        /\ push' = [push EXCEPT ![Head(wire).by].pc = "stamp"]
        /\ UNCHANGED faults
     \/ Head(wire).awaited /\ Fault /\ UNCHANGED push
     \/ ~Head(wire).awaited /\ UNCHANGED <<push, faults>>
  /\ UNCHANGED <<policies, asked, inFlight, pendingFollowUp, dropped, mapVars,
                 booted, up, changes>>

LoseRules ==
  /\ wire # <<>>
  /\ Fault
  /\ wire' = Tail(wire)
  /\ UNCHANGED <<policies, asked, inFlight, pendingFollowUp, push, rules,
                 dropped, mapVars, booted, up, changes>>

\* No answer in five seconds; a request that is only late still arrives.
Timeout(s) ==
  /\ push[s].pc = "wait"
  /\ IF Awaited(wire, s) = {} THEN UNCHANGED faults ELSE Fault
  /\ wire' = GiveUpOn(wire, Awaited(wire, s))
  /\ Fails(s)
  /\ UNCHANGED <<policies, asked, rules, mapVars, up, changes>>

\* appliedVersion is written: the push is done, unless that throws.
Stamp(s) ==
  /\ push[s].pc = "stamp"
  /\ \/ End(s) /\ UNCHANGED <<dropped, faults>>
     \/ Fault /\ Fails(s)
  /\ UNCHANGED <<policies, asked, wire, rules, mapVars, up, changes>>

-----------------------------------------------------------------------------
(* The container-map pusher *)

\* Any container event calls back, also one that leaves the map as it is.
ContainerEvent ==
  /\ booted
  /\ Change
  /\ boxes' \in Maps
  /\ told' = told + 1
  /\ UNCHANGED <<ruleVars, timer, mapPush, lastPushed, post, map, mapDropped,
                 blurred, booted, up, faults>>

\* _scheduleAllEnvs(): the timer is set anew.
Schedule ==
  /\ told > 0
  /\ told' = told - 1
  /\ \/ timer' = TRUE /\ UNCHANGED <<mapDropped, faults>>
     \/ Fault /\ mapDropped' = TRUE /\ UNCHANGED timer
  /\ UNCHANGED <<ruleVars, boxes, mapPush, lastPushed, post, map, blurred,
                 booted, up, changes>>

\* The timer fires; nothing asks whether a push is running.
Fire(s) ==
  /\ timer /\ mapPush[s] = MapOff
  /\ timer' = FALSE
  /\ mapPush' = [mapPush EXCEPT ![s] = MapStart]
  /\ blurred' = (blurred \/ \E q \in Slots : mapPush[q] # MapOff)
  /\ UNCHANGED <<ruleVars, boxes, told, lastPushed, post, map, mapDropped,
                 processVars>>

MapFails(s) ==
  IF mapPush[s].try = 1
    THEN /\ mapPush' = [mapPush EXCEPT ![s] = [MapStart EXCEPT !.try = 2]]
         /\ UNCHANGED mapDropped
    ELSE mapPush' = [mapPush EXCEPT ![s] = MapOff] /\ mapDropped' = TRUE

\* _buildContainerMap(), with Docker connected.
MapBuild(s) ==
  /\ mapPush[s].pc = "build"
  /\ \/ /\ mapPush' = [mapPush EXCEPT ![s].pc = "send", ![s].map = boxes]
        /\ mapDropped' = FALSE
        /\ UNCHANGED faults
     \/ Fault /\ MapFails(s)
  /\ UNCHANGED <<ruleVars, boxes, told, timer, lastPushed, post, map, blurred,
                 booted, up, changes>>

\* Slip: the fingerprint is kept before the gateway has answered.
MapSendStores(s) ==
  /\ mapPush[s].pc = "send"
  /\ IF mapPush[s].map = lastPushed
       THEN mapPush' = [mapPush EXCEPT ![s] = MapOff]
            /\ UNCHANGED <<post, mapDropped, lastPushed>>
       ELSE IF up
         THEN /\ post' = Append(post, [map |-> mapPush[s].map, by |-> s,
                                       awaited |-> TRUE])
              /\ mapPush' = [mapPush EXCEPT ![s].pc = "wait"]
              /\ lastPushed' = mapPush[s].map
              /\ UNCHANGED mapDropped
         ELSE MapFails(s) /\ UNCHANGED <<post, lastPushed>>
  /\ UNCHANGED <<ruleVars, boxes, told, timer, map, blurred, processVars>>

\* Skipped if the map is the one last acknowledged.
MapSend(s) ==
  /\ mapPush[s].pc = "send"
  /\ IF mapPush[s].map = lastPushed
       THEN mapPush' = [mapPush EXCEPT ![s] = MapOff]
            /\ UNCHANGED <<post, mapDropped>>
       ELSE IF up
         THEN /\ post' = Append(post, [map |-> mapPush[s].map, by |-> s,
                                       awaited |-> TRUE])
              /\ mapPush' = [mapPush EXCEPT ![s].pc = "wait"]
              /\ UNCHANGED mapDropped
         ELSE MapFails(s) /\ UNCHANGED post
  /\ UNCHANGED <<ruleVars, boxes, told, timer, lastPushed, map, blurred,
                 processVars>>

ApplyMap ==
  /\ post # <<>>
  /\ map' = Head(post).map
  /\ post' = Tail(post)
  /\ \/ /\ Head(post).awaited
        /\ mapPush' = [mapPush EXCEPT ![Head(post).by].pc = "acked"]
        /\ UNCHANGED <<faults, blurred>>
     \/ Head(post).awaited /\ Fault /\ blurred' = TRUE /\ UNCHANGED mapPush
     \/ ~Head(post).awaited /\ UNCHANGED <<faults, blurred, mapPush>>
  /\ UNCHANGED <<ruleVars, boxes, told, timer, lastPushed, mapDropped, booted,
                 up, changes>>

LoseMap ==
  /\ post # <<>>
  /\ Fault
  /\ post' = Tail(post)
  /\ UNCHANGED <<ruleVars, boxes, told, timer, mapPush, lastPushed, map,
                 mapDropped, blurred, booted, up, changes>>

MapTimeout(s) ==
  /\ mapPush[s].pc = "wait"
  /\ IF Awaited(post, s) = {} THEN UNCHANGED <<faults, blurred>>
                              ELSE Fault /\ blurred' = TRUE
  /\ post' = GiveUpOn(post, Awaited(post, s))
  /\ MapFails(s)
  /\ UNCHANGED <<ruleVars, boxes, told, timer, lastPushed, map, booted, up,
                 changes>>

MapStore(s) ==
  /\ mapPush[s].pc = "acked"
  /\ lastPushed' = mapPush[s].map
  /\ mapPush' = [mapPush EXCEPT ![s] = MapOff]
  /\ UNCHANGED <<ruleVars, boxes, told, timer, post, map, mapDropped, blurred,
                 processVars>>

-----------------------------------------------------------------------------
(* The bus, the gateway's process, the server's *)

Connect ==
  /\ booted /\ ~up
  /\ up' = TRUE
  /\ UNCHANGED <<ruleVars, mapVars, booted, changes, faults>>

Disconnect ==
  /\ up /\ Fault
  /\ up' = FALSE
  /\ UNCHANGED <<ruleVars, mapVars, booted, changes>>

\* Its rules and its map are gone, and nothing here hears of it.
GatewayRestart ==
  /\ Fault
  /\ rules' = 0 /\ wire' = <<>> /\ dropped' = TRUE
  /\ map' = NoMap /\ post' = <<>> /\ blurred' = TRUE
  /\ UNCHANGED <<policies, asked, inFlight, pendingFollowUp, push, boxes, told,
                 timer, mapPush, lastPushed, mapDropped, booted, up, changes>>

ServerRestart ==
  /\ Fault
  /\ asked' = 0 /\ pendingFollowUp' = FALSE
  /\ inFlight' = TRUE
  /\ wire' = GiveUpOn(wire, DOMAIN wire)
  /\ told' = 0 /\ timer' = FALSE /\ lastPushed' = NoMap
  /\ \E s \in Slots : push' = FirstPush(s) /\ mapPush' = FirstMapPush(s)
  /\ post' = GiveUpOn(post, DOMAIN post)
  /\ blurred' = (post # <<>>)
  /\ dropped' = TRUE /\ mapDropped' = TRUE
  /\ booted' = FALSE /\ up' = FALSE
  /\ UNCHANGED <<policies, rules, boxes, map, changes>>

-----------------------------------------------------------------------------

PushesRules ==
  \/ EditPolicies \/ Ask \/ AskFails \/ ApplyRules \/ LoseRules
  \/ \E s \in Slots : \/ FindEnv(s) \/ Build(s) \/ Send(s)
                      \/ Timeout(s) \/ Stamp(s)

PushesMap ==
  \/ ContainerEvent \/ Schedule \/ ApplyMap \/ LoseMap
  \/ \E s \in Slots : \/ Fire(s) \/ MapBuild(s) \/ MapSend(s)
                      \/ MapTimeout(s) \/ MapStore(s)

Next ==
  \/ PushesRules \/ PushesMap
  \/ Connect \/ Disconnect \/ GatewayRestart \/ ServerRestart

Spec == Init /\ [][Next]_vars

-----------------------------------------------------------------------------
(* Properties *)

\* Once no call and no push is under way, and none was given up since the
\* policies were last read, the gateway enforces the policies as they are:
\* edits that overlap a push in flight are never swallowed.
QuietMeansCurrent ==
  /\ asked = 0 /\ (\A s \in Slots : push[s] = Off) /\ ~dropped
  => rules = policies

\* Whatever is lost, late or repeated, the gateway never goes from newer rules
\* back to older ones, unless it restarts: pushes are one at a time, a retry
\* reads the policies again, and requests arrive in the order they are sent.
NeverOlder == [][rules' >= rules \/ GatewayRestart]_vars

\* Once no map push is under way or due, none was given up since the
\* containers were last listed, no two ran at once and none reached the gateway
\* without being acknowledged, the gateway's map is the containers' own: a push
\* that is skipped for its fingerprint is one the gateway does have.
MapCurrent ==
  /\ told = 0 /\ ~timer /\ (\A s \in Slots : mapPush[s] = MapOff)
  /\ ~mapDropped /\ ~blurred
  => map = boxes

=============================================================================

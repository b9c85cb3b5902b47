-------------------------- MODULE TriggerRegistries -------------------------
(***************************************************************************)
(* The registries of the job pools' triggers: node-cron tasks and NATS     *)
(* subscriptions held in memory (job-pool-cron-registry.ts,                *)
(* job-pool-nats-registry.ts), and those who refresh them from the rows of *)
(* the services: the apply of a stack, every change of a backup            *)
(* configuration, which first materialises its schedule into the rows      *)
(* (backup-job-pool-materialiser.ts), and the boot. A refresh reads a row, *)
(* awaits it, and then brings the registry in line with what it read.      *)
(*                                                                         *)
(* Every pg-az-backup stack has a cron trigger per scheduled database of   *)
(* its environment, and they all declare the one subject of backup runs.   *)
(***************************************************************************)
EXTENDS Integers, Sequences, FiniteSets

CONSTANTS
  Stacks,
  Databases,
  Schedules,   \* schedules a configuration may have; 0 stands for none
  Changes      \* changes of configurations that may overlap

ASSUME SchedulesAssumption == Schedules \subseteq Nat \ {0}
ASSUME StacksAssumption == IsFiniteSet(Stacks)

NoSchedule == 0
Wanted == [Databases -> Schedules \cup {NoSchedule}]
Quiet == [d \in Databases |-> NoSchedule]
Nobody == "nobody"
Procs == Changes \cup {"apply", "boot"}

VARIABLES
  config,    \* the schedules of the BackupConfiguration rows, per stack
  service,   \* the stack's service row: is there, its cron triggers, its
             \* nats trigger
  entry,     \* the cron registry: the schedule registered, 0: no entry
  task,      \* node-cron: how many tasks run on a schedule
  holder,    \* the NATS registry: whose subscription the subject is
  todo,      \* what a process has left to do, a list
  stage,     \* where it is in the first of them
  got,       \* what it has read
  leaving,   \* stacks being destroyed whose triggers have been removed
  undisturbed \* history: nobody else has touched the stack since it began

work == <<todo, stage, got, undisturbed>>
live == <<entry, task, holder>>
vars == <<config, service, live, work, leaving>>

NoService == [here |-> FALSE, cron |-> Quiet, nats |-> FALSE]

Init ==
  /\ config \in [Stacks -> {Quiet}]
  /\ service = [s \in Stacks |-> [here |-> TRUE, cron |-> Quiet, nats |-> FALSE]]
  /\ entry = [s \in Stacks |-> Quiet]
  /\ task = [s \in Stacks |-> [d \in Databases |-> [v \in Schedules |-> 0]]]
  /\ holder = Nobody
  /\ todo = [p \in Procs |-> <<>>]
  /\ stage = [p \in Procs |-> "idle"]
  /\ got = [p \in Procs |-> Quiet]
  /\ leaving = {}
  /\ undisturbed = [p \in Procs |-> FALSE]

Here == {s \in Stacks : service[s].here}

\* A list of stacks in the order the database happens to return them
Orders(S) ==
  {f \in [1..Cardinality(S) -> S] : \A i, j \in DOMAIN f : f[i] = f[j] => i = j}

Does(what, list) == [i \in DOMAIN list |-> [do |-> what, stack |-> list[i]]]

Stack(p) == Head(todo[p]).stack
Busy(p, s) == todo[p] # <<>> /\ Stack(p) = s
Booting == todo["boot"] # <<>>

First == [materialise |-> "findService", cron |-> "cronRead", nats |-> "natsRead"]

\* p turns to the first entry of a list; whoever works on its stack is
\* disturbed, and p is too when somebody does.
TurnsTo(p, list) ==
  LET busy == {q \in Procs \ {p} : list # <<>> /\ Busy(q, Head(list).stack)} IN
  /\ todo' = [todo EXCEPT ![p] = list]
  /\ stage' = [stage EXCEPT ![p] = IF list = <<>> THEN "idle" ELSE First[Head(list).do]]
  /\ got' = [got EXCEPT ![p] = Quiet]
  /\ undisturbed' = [q \in Procs |->
       IF q = p THEN list # <<>> /\ busy = {} ELSE undisturbed[q] /\ q \notin busy]

Next1(p) == TurnsTo(p, Tail(todo[p]))

Goes(p, where, value) ==
  /\ stage' = [stage EXCEPT ![p] = where]
  /\ got' = [got EXCEPT ![p] = value]
  /\ UNCHANGED <<todo, undisturbed>>

Disturb(s) ==
  undisturbed' = [p \in Procs |-> undisturbed[p] /\ ~ Busy(p, s)]

-----------------------------------------------------------------------------
(* Who starts it *)

\* create, update or delete of a BackupConfiguration: the row first
Change(p) ==
  /\ ~ Booting /\ stage[p] = "idle"
  /\ \E s \in Stacks, d \in Databases, v \in Schedules \cup {NoSchedule} :
       /\ config[s][d] # v
       /\ config' = [config EXCEPT ![s][d] = v]
       /\ Disturb(s)
  /\ stage' = [stage EXCEPT ![p] = "changed"]
  /\ UNCHANGED <<service, live, todo, got, leaving>>

\* refreshAllPgBackupTriggers: all services of that name, applied or not
RefreshAll(p) ==
  /\ stage[p] = "changed"
  /\ \E list \in Orders(Here) : TurnsTo(p, Does("materialise", list))
  /\ UNCHANGED <<config, service, live, leaving>>

\* The end of an apply that succeeded: materialise, then both registries again
Apply(s) ==
  /\ ~ Booting /\ stage["apply"] = "idle"
  /\ s \in Here \ leaving
  /\ TurnsTo("apply", Does("materialise", <<s>>) \o Does("cron", <<s>>)
                        \o Does("nats", <<s>>))
  /\ UNCHANGED <<config, service, live, leaving>>

\* Destroy holds the lock of the stack's applies: removeStack() of both
\* registries, then, some awaits later, the stack's row.
RemoveStack(s) ==
  /\ ~ Booting /\ s \in Here \ leaving /\ ~ Busy("apply", s)
  /\ entry' = [entry EXCEPT ![s] = Quiet]
  /\ task' = [task EXCEPT ![s] = [d \in Databases |->
       [v \in Schedules |->
          IF v = entry[s][d] THEN task[s][d][v] - 1 ELSE task[s][d][v]]]]
  /\ holder' = IF holder = s THEN Nobody ELSE holder
  /\ leaving' = leaving \cup {s}
  /\ Disturb(s)
  /\ UNCHANGED <<config, service, todo, stage, got>>

DestroyRow(s) ==
  /\ ~ Booting /\ s \in leaving
  /\ service' = [service EXCEPT ![s] = NoService]
  /\ leaving' = leaving \ {s}
  /\ Disturb(s)
  /\ UNCHANGED <<config, live, todo, stage, got>>

\* DELETE /stacks/:stackId: the row only
DeleteRow(s) ==
  /\ ~ Booting /\ s \in Here \ leaving /\ ~ Busy("apply", s)
  /\ service' = [service EXCEPT ![s] = NoService]
  /\ Disturb(s)
  /\ UNCHANGED <<config, live, todo, stage, got, leaving>>

\* The registries and everyone's work are in memory; the boot loads both
\* registries and materialises again before the server listens.
Restart ==
  /\ entry' = [s \in Stacks |-> Quiet]
  /\ task' = [s \in Stacks |-> [d \in Databases |-> [v \in Schedules |-> 0]]]
  /\ holder' = Nobody
  /\ leaving' = {}
  /\ \E list \in Orders(Here) :
       LET all == Does("cron", list) \o Does("nats", list)
                    \o Does("materialise", list) IN
       /\ todo' = [p \in Procs |-> IF p = "boot" THEN all ELSE <<>>]
       /\ stage' = [p \in Procs |->
            IF p = "boot" /\ all # <<>> THEN "cronRead" ELSE "idle"]
       /\ undisturbed' = [p \in Procs |-> p = "boot" /\ all # <<>>]
  /\ got' = [p \in Procs |-> Quiet]
  /\ UNCHANGED <<config, service>>

-----------------------------------------------------------------------------
(* materialiseTriggersForStack *)

FindService(p) ==
  /\ stage[p] = "findService"
  /\ IF service[Stack(p)].here THEN Goes(p, "findConfigs", Quiet) ELSE Next1(p)
  /\ UNCHANGED <<config, service, live, leaving>>

FindConfigs(p) ==
  /\ stage[p] = "findConfigs"
  /\ Goes(p, "update", config[Stack(p)])
  /\ UNCHANGED <<config, service, live, leaving>>

\* The row may be gone by now: the update throws, and the stack is skipped.
UpdateService(p) ==
  /\ stage[p] = "update"
  /\ LET s == Stack(p) IN
     \/ /\ service[s].here
        /\ service' = [service EXCEPT ![s].cron = got[p], ![s].nats = TRUE]
        /\ Goes(p, "cronRead", Quiet)
     \/ /\ ~ service[s].here
        /\ Next1(p) /\ UNCHANGED service
  /\ UNCHANGED <<config, live, leaving>>

-----------------------------------------------------------------------------
(* The two registries' refresh(stackId) *)

CronRead(p) ==
  /\ stage[p] = "cronRead"
  /\ Goes(p, "cronDiff", service[Stack(p)].cron)
  /\ UNCHANGED <<config, service, live, leaving>>

AfterCron(p) ==
  IF Head(todo[p]).do = "materialise" THEN Goes(p, "natsRead", Quiet) ELSE Next1(p)

\* Slip: an entry is unregistered only when its trigger is gone.
RemovedGone(s, want) ==
  {d \in Databases : entry[s][d] # NoSchedule /\ want[d] = NoSchedule}

\* Unregistered first: what is no longer wanted, or on another schedule
Removed(s, want) ==
  {d \in Databases : entry[s][d] # NoSchedule /\ want[d] # entry[s][d]}

\* Slip: registered whether or not it is.
AddedAnyway(s, want) == {d \in Databases : want[d] # NoSchedule}

\* Then registered: what is wanted and has no entry
Added(s, want) ==
  {d \in Databases : want[d] # NoSchedule
                     /\ (entry[s][d] = NoSchedule \/ d \in Removed(s, want))}

CronDiff(p) ==
  /\ stage[p] = "cronDiff"
  /\ LET s == Stack(p)
         want == got[p]
         stops == Removed(s, want)
         starts == Added(s, want)
     IN
     /\ entry' = [entry EXCEPT ![s] = [d \in Databases |->
          IF d \in starts THEN want[d] ELSE IF d \in stops THEN NoSchedule ELSE @[d]]]
     /\ task' = [task EXCEPT ![s] = [d \in Databases |-> [v \in Schedules |->
          @[d][v] + (IF d \in starts /\ v = want[d] THEN 1 ELSE 0)
                  - (IF d \in stops /\ v = entry[s][d] THEN 1 ELSE 0)]]]
  /\ AfterCron(p)
  /\ UNCHANGED <<config, service, holder, leaving>>

NatsRead(p) ==
  /\ stage[p] = "natsRead"
  /\ Goes(p, IF service[Stack(p)].nats THEN "subscribe" ELSE "unsubscribe", Quiet)
  /\ UNCHANGED <<config, service, live, leaving>>

\* A subject that somebody holds is left to whoever holds it.
NatsDiff(p) ==
  /\ LET s == Stack(p) IN
     \/ /\ stage[p] = "subscribe"
        /\ holder' = IF holder = Nobody THEN s ELSE holder
     \/ /\ stage[p] = "unsubscribe"
        /\ holder' = IF holder = s THEN Nobody ELSE holder
  /\ Next1(p)
  /\ UNCHANGED <<config, service, entry, task, leaving>>

-----------------------------------------------------------------------------

Step(p) ==
  \/ FindService(p) \/ FindConfigs(p) \/ UpdateService(p)
  \/ CronRead(p) \/ CronDiff(p) \/ NatsRead(p) \/ NatsDiff(p)

Next ==
  \/ \E p \in Procs : Step(p)
  \/ \E p \in Changes : Change(p) \/ RefreshAll(p)
  \/ \E s \in Stacks : Apply(s) \/ RemoveStack(s) \/ DestroyRow(s) \/ DeleteRow(s)
  \/ Restart

Spec == Init /\ [][Next]_vars

-----------------------------------------------------------------------------
(* Properties *)

Stages == {"idle", "changed", "findService", "findConfigs", "update", "cronRead",
           "cronDiff", "natsRead", "subscribe", "unsubscribe"}

TypeOK ==
  /\ config \in [Stacks -> Wanted]
  /\ service \in [Stacks -> [here : BOOLEAN, cron : Wanted, nats : BOOLEAN]]
  /\ entry \in [Stacks -> Wanted]
  /\ task \in [Stacks -> [Databases -> [Schedules -> Int]]]
  /\ holder \in Stacks \cup {Nobody}
  /\ stage \in [Procs -> Stages]
  /\ got \in [Procs -> Wanted]
  /\ leaving \subseteq Stacks
  /\ undisturbed \in [Procs -> BOOLEAN]

\* The tasks that run are exactly those the registry knows: however refreshes
\* of one stack, its destroy and a restart interleave, no trigger fires twice
\* per tick, and no task runs that nobody can stop any more.
OneTaskPerEntry ==
  \A s \in Stacks, d \in Databases, v \in Schedules :
    task[s][d][v] = IF entry[s][d] = v THEN 1 ELSE 0

\* A materialisation that nobody disturbs, whatever was left by those that
\* disturbed each other before it, ends with the registry as the configurations
\* say.
UndisturbedHeals ==
  \A p \in Procs :
    /\ stage[p] \in {"natsRead", "subscribe", "unsubscribe"}
    /\ Head(todo[p]).do = "materialise"
    /\ undisturbed[p]
    => entry[Stack(p)] = config[Stack(p)]

=============================================================================

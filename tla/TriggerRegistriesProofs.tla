----------------------- MODULE TriggerRegistriesProofs -----------------------
(***************************************************************************)
(* However refreshes, changes, destroys and restarts interleave, for any   *)
(* number of stacks, databases and overlapping changes: the tasks that run *)
(* are those the cron registry knows, and a materialisation that nobody    *)
(* disturbs leaves the registry as the configurations say.                 *)
(***************************************************************************)
EXTENDS TriggerRegistries, SequenceTheorems, FiniteSetTheorems, TLAPS

Jobs == {"materialise", "cron", "nats"}
Job == [do : Jobs, stack : Stacks]
AtRest == {"idle", "changed"}

\* Who is at work has a list, and its first entry tells what it works on.
Listed ==
  /\ todo \in [Procs -> Seq(Job)]
  /\ \A p \in Procs : stage[p] \notin AtRest => todo[p] # <<>>

\* Who is undisturbed is alone on its stack.
Alone ==
  \A p, q \in Procs :
    undisturbed[p] /\ p # q /\ todo[p] # <<>> => ~ Busy(q, Stack(p))

\* What a materialisation that is undisturbed has read or written is what the
\* configurations say.
Knows ==
  \A p \in Procs :
    undisturbed[p] /\ todo[p] # <<>> /\ Head(todo[p]).do = "materialise" =>
      /\ stage[p] \in {"update", "cronDiff"} => got[p] = config[Stack(p)]
      /\ stage[p] = "cronRead" => service[Stack(p)].cron = config[Stack(p)]
      /\ stage[p] \in {"natsRead", "subscribe", "unsubscribe"} =>
           entry[Stack(p)] = config[Stack(p)]

IInv == TypeOK /\ Listed /\ OneTaskPerEntry /\ Alone /\ Knows

-----------------------------------------------------------------------------
(* Lists *)

LEMMA Heads ==
  ASSUME NEW list \in Seq(Job), list # <<>>
  PROVE  Head(list) \in Job /\ Head(list).stack \in Stacks
         /\ Head(list).do \in Jobs /\ Tail(list) \in Seq(Job)
  <1>1. Head(list) \in Job /\ Tail(list) \in Seq(Job)
    BY HeadTailProperties
  <1> QED BY <1>1 DEF Job

LEMMA StackIn ==
  ASSUME Listed, NEW p \in Procs, todo[p] # <<>>
  PROVE  Stack(p) \in Stacks /\ Head(todo[p]).do \in Jobs
         /\ Tail(todo[p]) \in Seq(Job)
  <1>1. todo[p] \in Seq(Job)
    BY DEF Listed
  <1> QED BY <1>1, Heads DEF Stack

LEMMA DoesList ==
  ASSUME NEW what \in Jobs, NEW list \in Seq(Stacks)
  PROVE  Does(what, list) \in Seq(Job)
  <1>1. DOMAIN list = 1..Len(list) /\ Len(list) \in Nat
        /\ \A i \in 1..Len(list) : list[i] \in Stacks
    BY LenProperties, ElementOfSeq
  <1>2. \A i \in 1..Len(list) : [do |-> what, stack |-> list[i]] \in Job
    BY <1>1 DEF Job
  <1> QED BY <1>1, <1>2 DEF Does

LEMMA OrdersList ==
  ASSUME NEW S \in SUBSET Stacks, NEW list \in Orders(S)
  PROVE  list \in Seq(Stacks)
  <1>1. IsFiniteSet(S)
    BY StacksAssumption, FS_Subset
  <1>2. Cardinality(S) \in Nat
    BY <1>1, FS_CardinalityType
  <1>3. list \in [1..Cardinality(S) -> S]
    BY DEF Orders
  <1> QED BY <1>2, <1>3

-----------------------------------------------------------------------------
(* Turning to a list, and going on in one *)

\* What the steps of others must leave alone for a process that is undisturbed.
Spared(p) ==
  \A q \in Procs \ {p} : undisturbed[q] /\ todo[q] # <<>> =>
    /\ config'[Stack(q)] = config[Stack(q)]
    /\ service'[Stack(q)].cron = service[Stack(q)].cron
    /\ entry'[Stack(q)] = entry[Stack(q)]

LEMMA FirstStage ==
  ASSUME NEW do \in Jobs
  PROVE  /\ First[do] \in {"findService", "cronRead", "natsRead"}
         /\ do = "materialise" => First[do] = "findService"
  BY DEF Jobs, First

LEMMA TurnsKeeps ==
  ASSUME TypeOK, Listed, Alone, Knows, NEW p \in Procs, NEW list \in Seq(Job),
         TurnsTo(p, list), Spared(p)
  PROVE  /\ Listed' /\ Alone' /\ Knows'
         /\ stage' \in [Procs -> Stages] /\ got' \in [Procs -> Wanted]
         /\ undisturbed' \in [Procs -> BOOLEAN]
  <1> DEFINE busy == {q \in Procs \ {p} :
                        list # <<>> /\ Busy(q, Head(list).stack)}
             there == IF list = <<>> THEN "idle" ELSE First[Head(list).do]
  <1>1. /\ todo' = [todo EXCEPT ![p] = list]
        /\ stage' = [stage EXCEPT ![p] = there]
        /\ got' = [got EXCEPT ![p] = Quiet]
        /\ undisturbed' = [q \in Procs |->
             IF q = p THEN list # <<>> /\ busy = {}
                      ELSE undisturbed[q] /\ q \notin busy]
    BY DEF TurnsTo
  <1>2. /\ there \in Stages
        /\ list # <<>> /\ Head(list).do = "materialise" => there = "findService"
        /\ there # "idle" => list # <<>>
    BY Heads, FirstStage DEF Stages
  <1>3. /\ todo'[p] = list /\ stage'[p] = there
        /\ \A q \in Procs \ {p} : /\ todo'[q] = todo[q] /\ stage'[q] = stage[q]
                                  /\ got'[q] = got[q]
    BY <1>1 DEF TypeOK, Listed
  <1>4. /\ undisturbed'[p] => list # <<>> /\ busy = {}
        /\ \A q \in Procs \ {p} :
             undisturbed'[q] => undisturbed[q] /\ q \notin busy
    BY <1>1
  <1>5. Listed'
    <2>1. todo' \in [Procs -> Seq(Job)]
      BY <1>1 DEF Listed
    <2>2. \A q \in Procs : stage'[q] \notin AtRest => todo'[q] # <<>>
      BY <1>2, <1>3 DEF Listed, AtRest
    <2> QED BY <2>1, <2>2 DEF Listed
  <1>6. Alone'
    <2> SUFFICES ASSUME NEW q \in Procs, NEW r \in Procs, q # r,
                        undisturbed'[q], todo'[q] # <<>>,
                        todo'[r] # <<>>, Stack(r)' = Stack(q)'
                 PROVE  FALSE
      BY DEF Alone, Busy
    <2>1. CASE q = p
      <3>1. Stack(q)' = Head(list).stack /\ Stack(r)' = Stack(r)
            /\ todo[r] # <<>>
        BY <1>3, <2>1 DEF Stack
      <3>2. r \in busy
        BY <1>4, <2>1, <3>1 DEF Busy
      <3> QED BY <1>4, <2>1, <3>2
    <2>2. CASE r = p
      <3>1. Stack(r)' = Head(list).stack /\ Stack(q)' = Stack(q)
            /\ todo[q] # <<>> /\ list # <<>>
        BY <1>3, <2>2 DEF Stack
      <3>2. q \in busy
        BY <2>2, <3>1 DEF Busy
      <3> QED BY <1>4, <2>2, <3>2
    <2>3. CASE q # p /\ r # p
      <3>1. Stack(q)' = Stack(q) /\ Stack(r)' = Stack(r)
            /\ todo[q] # <<>> /\ todo[r] # <<>> /\ undisturbed[q]
        BY <1>3, <1>4, <2>3 DEF Stack
      <3> QED BY <3>1 DEF Alone, Busy
    <2> QED BY <2>1, <2>2, <2>3
  <1>7. Knows'
    <2> SUFFICES ASSUME NEW q \in Procs, undisturbed'[q], todo'[q] # <<>>,
                        Head(todo'[q]).do = "materialise"
                 PROVE  /\ stage'[q] \in {"update", "cronDiff"} =>
                             got'[q] = config'[Stack(q)']
                        /\ stage'[q] = "cronRead" =>
                             service'[Stack(q)'].cron = config'[Stack(q)']
                        /\ stage'[q] \in {"natsRead", "subscribe", "unsubscribe"}
                             => entry'[Stack(q)'] = config'[Stack(q)']
      BY DEF Knows
    <2>1. CASE q = p
      BY <1>2, <1>3, <2>1
    <2>2. CASE q # p
      <3>1. /\ undisturbed[q] /\ todo'[q] = todo[q] /\ stage'[q] = stage[q]
            /\ got'[q] = got[q] /\ Stack(q)' = Stack(q)
        BY <1>3, <1>4, <2>2 DEF Stack
      <3>2. /\ config'[Stack(q)] = config[Stack(q)]
            /\ service'[Stack(q)].cron = service[Stack(q)].cron
            /\ entry'[Stack(q)] = entry[Stack(q)]
        BY <2>2, <3>1 DEF Spared
      <3> QED BY <3>1, <3>2 DEF Knows
    <2> QED BY <2>1, <2>2
  <1>8. /\ stage' \in [Procs -> Stages] /\ got' \in [Procs -> Wanted]
    <2>1. Quiet \in Wanted
      BY DEF Quiet, Wanted
    <2> QED BY <1>1, <1>2, <2>1 DEF TypeOK
  <1>9. undisturbed' \in [Procs -> BOOLEAN]
    <2>1. \A q \in Procs :
            (IF q = p THEN list # <<>> /\ busy = {}
                      ELSE undisturbed[q] /\ q \notin busy) \in BOOLEAN
      BY DEF TypeOK
    <2> QED BY <1>1, <2>1
  <1> QED BY <1>5, <1>6, <1>7, <1>8, <1>9

\* What a process of its own knows when it goes on to where with value.
Learns(p, where, value) ==
  undisturbed[p] /\ Head(todo[p]).do = "materialise" =>
    /\ where \in {"update", "cronDiff"} => value = config'[Stack(p)]
    /\ where = "cronRead" => service'[Stack(p)].cron = config'[Stack(p)]
    /\ where \in {"natsRead", "subscribe", "unsubscribe"} =>
         entry'[Stack(p)] = config'[Stack(p)]

LEMMA GoesKeeps ==
  ASSUME TypeOK, Listed, Alone, Knows, NEW p \in Procs, todo[p] # <<>>,
         NEW where \in Stages, NEW value \in Wanted, Goes(p, where, value),
         Spared(p), Learns(p, where, value)
  PROVE  /\ Listed' /\ Alone' /\ Knows'
         /\ stage' \in [Procs -> Stages] /\ got' \in [Procs -> Wanted]
         /\ undisturbed' \in [Procs -> BOOLEAN]
  <1>1. /\ stage' = [stage EXCEPT ![p] = where]
        /\ got' = [got EXCEPT ![p] = value]
        /\ UNCHANGED <<todo, undisturbed>>
    BY DEF Goes
  <1>2. /\ stage'[p] = where /\ got'[p] = value
        /\ \A q \in Procs \ {p} : stage'[q] = stage[q] /\ got'[q] = got[q]
        /\ \A q \in Procs : Stack(q)' = Stack(q)
    BY <1>1 DEF TypeOK, Stack
  <1>3. Listed'
    BY <1>1, <1>2 DEF Listed
  <1>4. Alone'
    BY <1>1, <1>2 DEF Alone, Busy
  <1>5. Knows'
    <2> SUFFICES ASSUME NEW q \in Procs, undisturbed[q], todo[q] # <<>>,
                        Head(todo[q]).do = "materialise"
                 PROVE  /\ stage'[q] \in {"update", "cronDiff"} =>
                             got'[q] = config'[Stack(q)]
                        /\ stage'[q] = "cronRead" =>
                             service'[Stack(q)].cron = config'[Stack(q)]
                        /\ stage'[q] \in {"natsRead", "subscribe", "unsubscribe"}
                             => entry'[Stack(q)] = config'[Stack(q)]
      BY <1>1, <1>2 DEF Knows
    <2>1. CASE q = p
      BY <1>2, <2>1 DEF Learns
    <2>2. CASE q # p
      BY <1>2, <2>2 DEF Knows, Spared
    <2> QED BY <2>1, <2>2
  <1> QED BY <1>1, <1>3, <1>4, <1>5 DEF TypeOK

\* A step on one's own stack spares everybody else.
LEMMA OwnStack ==
  ASSUME Listed, Alone, NEW p \in Procs, todo[p] # <<>>,
         \A s \in Stacks \ {Stack(p)} :
           /\ config'[s] = config[s] /\ service'[s] = service[s]
           /\ entry'[s] = entry[s]
  PROVE  Spared(p)
  <1> SUFFICES ASSUME NEW q \in Procs \ {p}, undisturbed[q], todo[q] # <<>>
               PROVE  /\ config'[Stack(q)] = config[Stack(q)]
                      /\ service'[Stack(q)].cron = service[Stack(q)].cron
                      /\ entry'[Stack(q)] = entry[Stack(q)]
    BY DEF Spared
  <1>1. Stack(q) # Stack(p)
    BY DEF Alone, Busy
  <1>2. Stack(q) \in Stacks
    BY StackIn
  <1> QED BY <1>1, <1>2

LEMMA NothingDone ==
  ASSUME NEW p \in Procs, UNCHANGED <<config, service, entry>>
  PROVE  Spared(p)
  BY DEF Spared

-----------------------------------------------------------------------------
(* The steps of a materialisation and of a refresh *)

\* A step that leaves the database and the tasks alone
LEMMA WorkOnly ==
  ASSUME IInv, UNCHANGED <<config, service, entry, task, leaving>>,
         holder' \in Stacks \cup {Nobody},
         Listed', Alone', Knows', stage' \in [Procs -> Stages],
         got' \in [Procs -> Wanted], undisturbed' \in [Procs -> BOOLEAN]
  PROVE  IInv'
  <1>1. OneTaskPerEntry'
    BY DEF IInv, OneTaskPerEntry
  <1>2. TypeOK'
    BY DEF IInv, TypeOK
  <1> QED BY <1>1, <1>2 DEF IInv

LEMMA FindServiceKeeps ==
  ASSUME IInv, NEW p \in Procs, FindService(p)
  PROVE  IInv'
  <1> USE DEF IInv
  <1>1. stage[p] = "findService" /\ UNCHANGED <<config, service, live, leaving>>
    BY DEF FindService
  <1>2. todo[p] # <<>> /\ Spared(p) /\ Quiet \in Wanted
    BY <1>1, NothingDone DEF Listed, AtRest, live, Quiet, Wanted
  <1>3. CASE Goes(p, "findConfigs", Quiet)
    <2>1. Learns(p, "findConfigs", Quiet) /\ "findConfigs" \in Stages
      BY DEF Learns, Stages
    <2> QED BY <1>1, <1>2, <1>3, <2>1, GoesKeeps DEF TypeOK, OneTaskPerEntry, live
  <1>4. CASE Next1(p)
    <2>1. Tail(todo[p]) \in Seq(Job)
      BY <1>2, StackIn
    <2>2. TurnsTo(p, Tail(todo[p])) /\ holder' \in Stacks \cup {Nobody}
      BY <1>1, <1>4 DEF Next1, live, TypeOK
    <2>3. /\ Listed' /\ Alone' /\ Knows'
          /\ stage' \in [Procs -> Stages] /\ got' \in [Procs -> Wanted]
          /\ undisturbed' \in [Procs -> BOOLEAN]
      BY <1>2, <2>1, <2>2, TurnsKeeps
    <2> QED BY <1>1, <2>2, <2>3, WorkOnly DEF live
  <1> QED BY <1>3, <1>4 DEF FindService

LEMMA FindConfigsKeeps ==
  ASSUME IInv, NEW p \in Procs, FindConfigs(p)
  PROVE  IInv'
  <1> USE DEF IInv
  <1>1. /\ stage[p] = "findConfigs" /\ UNCHANGED <<config, service, live, leaving>>
        /\ Goes(p, "update", config[Stack(p)])
    BY DEF FindConfigs
  <1>2. todo[p] # <<>> /\ Spared(p)
    BY <1>1, NothingDone DEF Listed, AtRest, live
  <1>3. config[Stack(p)] \in Wanted
    BY <1>2, StackIn DEF TypeOK
  <1>4. Learns(p, "update", config[Stack(p)]) /\ "update" \in Stages
    BY <1>1 DEF Learns, Stages
  <1> QED BY <1>1, <1>2, <1>3, <1>4, GoesKeeps DEF TypeOK, OneTaskPerEntry, live

LEMMA UpdateServiceKeeps ==
  ASSUME IInv, NEW p \in Procs, UpdateService(p)
  PROVE  IInv'
  <1> USE DEF IInv
  <1>1. stage[p] = "update" /\ UNCHANGED <<config, live, leaving>>
    BY DEF UpdateService
  <1>2. todo[p] # <<>> /\ Quiet \in Wanted
    BY <1>1 DEF Listed, AtRest, Quiet, Wanted
  <1>3. Stack(p) \in Stacks /\ Tail(todo[p]) \in Seq(Job)
    BY <1>2, StackIn
  <1>4. CASE /\ service' = [service EXCEPT ![Stack(p)].cron = got[p],
                                          ![Stack(p)].nats = TRUE]
             /\ Goes(p, "cronRead", Quiet)
    <2>1. service' \in [Stacks -> [here : BOOLEAN, cron : Wanted, nats : BOOLEAN]]
      BY <1>4 DEF TypeOK
    <2>2. /\ service'[Stack(p)].cron = got[p]
          /\ \A s \in Stacks \ {Stack(p)} : service'[s] = service[s]
      BY <1>3, <1>4 DEF TypeOK
    <2>3. Spared(p)
      BY <1>1, <1>2, <2>2, OwnStack DEF live
    <2>4. Learns(p, "cronRead", Quiet) /\ "cronRead" \in Stages
      BY <1>1, <1>2, <2>2 DEF Learns, Knows, Stages
    <2> QED BY <1>1, <1>2, <1>4, <2>1, <2>3, <2>4, GoesKeeps
        DEF TypeOK, OneTaskPerEntry, live
  <1>5. CASE Next1(p) /\ UNCHANGED service
    <2>1. Spared(p)
      BY <1>1, <1>5, NothingDone DEF live
    <2>2. TurnsTo(p, Tail(todo[p]))
      BY <1>5 DEF Next1
    <2>3. /\ Listed' /\ Alone' /\ Knows'
          /\ stage' \in [Procs -> Stages] /\ got' \in [Procs -> Wanted]
          /\ undisturbed' \in [Procs -> BOOLEAN]
      BY <1>3, <2>1, <2>2, TurnsKeeps
    <2>4. UNCHANGED <<config, service, entry, task, holder, leaving>>
      BY <1>1, <1>5 DEF live
    <2> QED BY <2>3, <2>4 DEF TypeOK, OneTaskPerEntry
  <1> QED BY <1>4, <1>5 DEF UpdateService

LEMMA CronReadKeeps ==
  ASSUME IInv, NEW p \in Procs, CronRead(p)
  PROVE  IInv'
  <1> USE DEF IInv
  <1>1. /\ stage[p] = "cronRead" /\ UNCHANGED <<config, service, live, leaving>>
        /\ Goes(p, "cronDiff", service[Stack(p)].cron)
    BY DEF CronRead
  <1>2. todo[p] # <<>> /\ Spared(p)
    BY <1>1, NothingDone DEF Listed, AtRest, live
  <1>3. service[Stack(p)].cron \in Wanted
    BY <1>2, StackIn DEF TypeOK
  <1>4. Learns(p, "cronDiff", service[Stack(p)].cron) /\ "cronDiff" \in Stages
    BY <1>1, <1>2 DEF Learns, Knows, Stages
  <1> QED BY <1>1, <1>2, <1>3, <1>4, GoesKeeps DEF TypeOK, OneTaskPerEntry, live

LEMMA NatsReadKeeps ==
  ASSUME IInv, NEW p \in Procs, NatsRead(p)
  PROVE  IInv'
  <1> USE DEF IInv
  <1>1. /\ stage[p] = "natsRead" /\ UNCHANGED <<config, service, live, leaving>>
        /\ \E where \in {"subscribe", "unsubscribe"} : Goes(p, where, Quiet)
    BY DEF NatsRead
  <1>2. todo[p] # <<>> /\ Spared(p) /\ Quiet \in Wanted
    BY <1>1, NothingDone DEF Listed, AtRest, live, Quiet, Wanted
  <1>3. PICK where \in {"subscribe", "unsubscribe"} : Goes(p, where, Quiet)
    BY <1>1
  <1>4. Learns(p, where, Quiet) /\ where \in Stages
    BY <1>1, <1>2 DEF Learns, Knows, Stages, live
  <1> QED BY <1>1, <1>2, <1>3, <1>4, GoesKeeps DEF TypeOK, OneTaskPerEntry, live

LEMMA NatsDiffKeeps ==
  ASSUME IInv, NEW p \in Procs, NatsDiff(p)
  PROVE  IInv'
  <1> USE DEF IInv
  <1>1. /\ stage[p] \in {"subscribe", "unsubscribe"}
        /\ UNCHANGED <<config, service, entry, task, leaving>> /\ Next1(p)
        /\ holder' \in {holder, Nobody, Stack(p)}
    BY DEF NatsDiff
  <1>2. todo[p] # <<>> /\ Spared(p)
    BY <1>1, NothingDone DEF Listed, AtRest
  <1>3. Stack(p) \in Stacks /\ Tail(todo[p]) \in Seq(Job)
    BY <1>2, StackIn
  <1>4. TurnsTo(p, Tail(todo[p])) /\ holder' \in Stacks \cup {Nobody}
    BY <1>1, <1>3 DEF Next1, TypeOK
  <1>5. /\ Listed' /\ Alone' /\ Knows'
        /\ stage' \in [Procs -> Stages] /\ got' \in [Procs -> Wanted]
        /\ undisturbed' \in [Procs -> BOOLEAN]
    BY <1>2, <1>3, <1>4, TurnsKeeps
  <1> QED BY <1>1, <1>4, <1>5, WorkOnly

\* The diff of one stack: afterwards its entries are those wanted, and its
\* tasks those of its entries.
LEMMA DiffRight ==
  ASSUME TypeOK, OneTaskPerEntry, NEW s \in Stacks, NEW want \in Wanted,
         entry' = [entry EXCEPT ![s] = [d \in Databases |->
           IF d \in Added(s, want) THEN want[d]
           ELSE IF d \in Removed(s, want) THEN NoSchedule ELSE @[d]]],
         task' = [task EXCEPT ![s] = [d \in Databases |-> [v \in Schedules |->
           @[d][v] + (IF d \in Added(s, want) /\ v = want[d] THEN 1 ELSE 0)
                   - (IF d \in Removed(s, want) /\ v = entry[s][d]
                        THEN 1 ELSE 0)]]]
  PROVE  /\ entry' \in [Stacks -> Wanted] /\ entry'[s] = want
         /\ \A q \in Stacks \ {s} : entry'[q] = entry[q]
         /\ task' \in [Stacks -> [Databases -> [Schedules -> Int]]]
         /\ OneTaskPerEntry'
  <1> USE DEF NoSchedule
  <1>1. /\ want \in [Databases -> Schedules \cup {0}]
        /\ entry[s] \in [Databases -> Schedules \cup {0}]
        /\ 0 \notin Schedules
    BY SchedulesAssumption DEF TypeOK, Wanted
  <1>2. entry'[s] = [d \in Databases |->
           IF d \in Added(s, want) THEN want[d]
           ELSE IF d \in Removed(s, want) THEN 0 ELSE entry[s][d]]
    BY DEF TypeOK
  <1>3. \A d \in Databases : entry'[s][d] = want[d]
    BY <1>1, <1>2 DEF Added, Removed
  <1>4. entry'[s] = want
    BY <1>1, <1>2, <1>3
  <1>5. \A q \in Stacks \ {s} : entry'[q] = entry[q] /\ task'[q] = task[q]
    BY DEF TypeOK
  <1>6. entry' \in [Stacks -> Wanted]
    <2>1. \A q \in Stacks : entry'[q] \in Wanted
      BY <1>4, <1>5 DEF TypeOK
    <2>2. entry' = [q \in Stacks |-> entry'[q]]
      BY DEF TypeOK
    <2> QED BY <2>1, <2>2
  <1>7. \A d \in Databases, v \in Schedules :
          task'[s][d][v] = task[s][d][v]
              + (IF d \in Added(s, want) /\ v = want[d] THEN 1 ELSE 0)
              - (IF d \in Removed(s, want) /\ v = entry[s][d] THEN 1 ELSE 0)
    BY DEF TypeOK
  <1>8. \A d \in Databases, v \in Schedules :
          task[s][d][v] = IF entry[s][d] = v THEN 1 ELSE 0
    BY DEF OneTaskPerEntry
  <1>9. \A d \in Databases, v \in Schedules :
          task'[s][d][v] = IF entry'[s][d] = v THEN 1 ELSE 0
    <2> TAKE d \in Databases, v \in Schedules
    <2>1. entry'[s][d] = want[d] /\ v # 0
      BY <1>1, <1>3
    <2>2. d \in Removed(s, want) <=> entry[s][d] # 0 /\ want[d] # entry[s][d]
      BY DEF Removed
    <2>3. d \in Added(s, want) <=>
            want[d] # 0 /\ (entry[s][d] = 0 \/ want[d] # entry[s][d])
      BY <2>2 DEF Added
    <2>4. CASE want[d] = entry[s][d]
      <3>1. d \notin Removed(s, want) /\ d \notin Added(s, want)
        BY <2>2, <2>3, <2>4
      <3>2. task[s][d][v] \in Int
        BY DEF TypeOK
      <3>3. task'[s][d][v] = task[s][d][v]
        BY <1>7, <3>1, <3>2
      <3> QED BY <1>8, <2>1, <2>4, <3>3
    <2>5. CASE want[d] # entry[s][d]
      <3>1. task'[s][d][v] = (IF entry[s][d] = v THEN 1 ELSE 0)
                               + (IF v = want[d] THEN 1 ELSE 0)
                               - (IF v = entry[s][d] THEN 1 ELSE 0)
        BY <1>7, <1>8, <2>1, <2>2, <2>3, <2>5
      <3> QED BY <2>1, <2>5, <3>1
    <2> QED BY <2>4, <2>5
  <1>10. task' \in [Stacks -> [Databases -> [Schedules -> Int]]]
    <2>1. [d \in Databases |-> [v \in Schedules |->
            task[s][d][v]
              + (IF d \in Added(s, want) /\ v = want[d] THEN 1 ELSE 0)
              - (IF d \in Removed(s, want) /\ v = entry[s][d] THEN 1 ELSE 0)]]
          \in [Databases -> [Schedules -> Int]]
      BY DEF TypeOK
    <2> QED BY <2>1 DEF TypeOK
  <1>11. OneTaskPerEntry'
    <2> SUFFICES ASSUME NEW q \in Stacks, NEW d \in Databases, NEW v \in Schedules
                 PROVE  task'[q][d][v] = IF entry'[q][d] = v THEN 1 ELSE 0
      BY DEF OneTaskPerEntry
    <2>1. CASE q = s
      BY <1>9, <2>1
    <2>2. CASE q # s
      BY <1>5, <2>2 DEF OneTaskPerEntry
    <2> QED BY <2>1, <2>2
  <1> QED BY <1>4, <1>5, <1>6, <1>10, <1>11

LEMMA CronDiffKeeps ==
  ASSUME IInv, NEW p \in Procs, CronDiff(p)
  PROVE  IInv'
  <1> USE DEF IInv
  <1>1. stage[p] = "cronDiff" /\ UNCHANGED <<config, service, holder, leaving>>
        /\ AfterCron(p)
    BY DEF CronDiff
  <1>2. todo[p] # <<>> /\ Quiet \in Wanted
    BY <1>1 DEF Listed, AtRest, Quiet, Wanted
  <1>3. Stack(p) \in Stacks /\ Tail(todo[p]) \in Seq(Job) /\ got[p] \in Wanted
    BY <1>2, StackIn DEF TypeOK
  <1>4. /\ entry' \in [Stacks -> Wanted] /\ entry'[Stack(p)] = got[p]
        /\ \A q \in Stacks \ {Stack(p)} : entry'[q] = entry[q]
        /\ task' \in [Stacks -> [Databases -> [Schedules -> Int]]]
        /\ OneTaskPerEntry'
    <2> HIDE DEF IInv
    <2> QED BY <1>3, DiffRight DEF CronDiff, IInv
  <1>5. Spared(p)
    BY <1>1, <1>2, <1>4, OwnStack
  <1>6. CASE Head(todo[p]).do = "materialise"
    <2>1. Goes(p, "natsRead", Quiet)
      BY <1>1, <1>6 DEF AfterCron
    <2>2. Learns(p, "natsRead", Quiet) /\ "natsRead" \in Stages
      BY <1>1, <1>2, <1>4 DEF Learns, Knows, Stages
    <2> QED BY <1>1, <1>2, <1>4, <1>5, <2>1, <2>2, GoesKeeps DEF TypeOK
  <1>7. CASE Head(todo[p]).do # "materialise"
    <2>1. Next1(p)
      BY <1>1, <1>7 DEF AfterCron
    <2> QED BY <1>1, <1>3, <1>4, <1>5, <2>1, TurnsKeeps DEF Next1, TypeOK
  <1> QED BY <1>6, <1>7

-----------------------------------------------------------------------------
(* Who starts it, and who gets in between *)

\* A change of stack s by somebody else, who tells everyone at work on it.
LEMMA DisturbKeeps ==
  ASSUME TypeOK, Listed, Alone, Knows, NEW s \in Stacks, Disturb(s),
         UNCHANGED <<todo, got>>,
         \A p \in Procs : stage'[p] = stage[p] \/ stage'[p] \in AtRest,
         \A q \in Stacks \ {s} :
           /\ config'[q] = config[q] /\ service'[q] = service[q]
           /\ entry'[q] = entry[q]
  PROVE  /\ Listed' /\ Alone' /\ Knows'
         /\ undisturbed' \in [Procs -> BOOLEAN]
  <1>1. undisturbed' = [p \in Procs |-> undisturbed[p] /\ ~ Busy(p, s)]
    BY DEF Disturb
  <1>2. \A p \in Procs : undisturbed'[p] => undisturbed[p] /\ ~ Busy(p, s)
    BY <1>1
  <1>3. \A p \in Procs : Stack(p)' = Stack(p)
    BY DEF Stack
  <1>4. Listed'
    BY DEF Listed
  <1>5. Alone'
    BY <1>2, <1>3 DEF Alone, Busy
  <1>6. Knows'
    <2> SUFFICES ASSUME NEW q \in Procs, undisturbed'[q], todo[q] # <<>>,
                        Head(todo[q]).do = "materialise"
                 PROVE  /\ stage'[q] \in {"update", "cronDiff"} =>
                             got[q] = config'[Stack(q)]
                        /\ stage'[q] = "cronRead" =>
                             service'[Stack(q)].cron = config'[Stack(q)]
                        /\ stage'[q] \in {"natsRead", "subscribe", "unsubscribe"}
                             => entry'[Stack(q)] = config'[Stack(q)]
      BY <1>3 DEF Knows
    <2>1. undisturbed[q] /\ Stack(q) # s /\ Stack(q) \in Stacks
      BY <1>2, StackIn DEF Busy
    <2>2. /\ config'[Stack(q)] = config[Stack(q)]
          /\ service'[Stack(q)] = service[Stack(q)]
          /\ entry'[Stack(q)] = entry[Stack(q)]
      BY <2>1
    <2>3. CASE stage'[q] = stage[q]
      BY <2>1, <2>2, <2>3 DEF Knows
    <2>4. CASE stage'[q] \in AtRest
      BY <2>4 DEF AtRest
    <2> QED BY <2>3, <2>4
  <1>7. undisturbed' \in [Procs -> BOOLEAN]
    <2>1. \A p \in Procs : (undisturbed[p] /\ ~ Busy(p, s)) \in BOOLEAN
      OBVIOUS
    <2> QED BY <1>1, <2>1
  <1> QED BY <1>4, <1>5, <1>6, <1>7

LEMMA ChangeKeeps ==
  ASSUME IInv, NEW p \in Changes, Change(p)
  PROVE  IInv'
  <1> USE DEF IInv
  <1>1. PICK s \in Stacks, d \in Databases, v \in Schedules \cup {NoSchedule} :
          config' = [config EXCEPT ![s][d] = v] /\ Disturb(s)
    BY DEF Change
  <1>2. /\ stage' = [stage EXCEPT ![p] = "changed"]
        /\ UNCHANGED <<service, live, todo, got, leaving>>
    BY DEF Change
  <1>3. config' \in [Stacks -> Wanted]
    BY <1>1 DEF TypeOK, Wanted
  <1>4. \A q \in Stacks \ {s} : config'[q] = config[q]
    BY <1>1 DEF TypeOK
  <1>5. stage' \in [Procs -> Stages]
    BY <1>2 DEF TypeOK, Stages, Procs
  <1>6. \A q \in Procs : stage'[q] = stage[q] \/ stage'[q] \in AtRest
    BY <1>2 DEF TypeOK, AtRest
  <1>7. Listed' /\ Alone' /\ Knows' /\ undisturbed' \in [Procs -> BOOLEAN]
    BY <1>1, <1>2, <1>4, <1>6, DisturbKeeps DEF live
  <1> QED BY <1>2, <1>3, <1>5, <1>7 DEF TypeOK, OneTaskPerEntry, live

LEMMA RefreshAllKeeps ==
  ASSUME IInv, NEW p \in Changes, RefreshAll(p)
  PROVE  IInv'
  <1> USE DEF IInv
  <1>1. PICK list \in Orders(Here) : TurnsTo(p, Does("materialise", list))
    BY DEF RefreshAll
  <1>2. Does("materialise", list) \in Seq(Job)
    BY OrdersList, DoesList DEF Here, Jobs
  <1>3. UNCHANGED <<config, service, live, leaving>> /\ p \in Procs
    BY DEF RefreshAll, Procs
  <1> QED BY <1>1, <1>2, <1>3, NothingDone, TurnsKeeps
      DEF TypeOK, OneTaskPerEntry, live

LEMMA ApplyKeeps ==
  ASSUME IInv, NEW s \in Stacks, Apply(s)
  PROVE  IInv'
  <1> USE DEF IInv
  <1> DEFINE list == Does("materialise", <<s>>) \o Does("cron", <<s>>)
                       \o Does("nats", <<s>>)
  <1>1. /\ TurnsTo("apply", list) /\ "apply" \in Procs
        /\ UNCHANGED <<config, service, live, leaving>>
    BY DEF Apply, Procs
  <1>2. <<s>> \in Seq(Stacks)
    OBVIOUS
  <1>3. /\ Does("materialise", <<s>>) \in Seq(Job)
        /\ Does("cron", <<s>>) \in Seq(Job) /\ Does("nats", <<s>>) \in Seq(Job)
    BY <1>2, DoesList DEF Jobs
  <1>4. list \in Seq(Job)
    BY <1>3, ConcatProperties
  <1> HIDE DEF list
  <1>5. UNCHANGED <<config, service, entry, task, holder, leaving>>
    BY <1>1 DEF live
  <1>6. Spared("apply")
    BY <1>1, <1>5, NothingDone
  <1>7. /\ Listed' /\ Alone' /\ Knows'
        /\ stage' \in [Procs -> Stages] /\ got' \in [Procs -> Wanted]
        /\ undisturbed' \in [Procs -> BOOLEAN]
    BY <1>1, <1>4, <1>6, TurnsKeeps
  <1> QED BY <1>5, <1>7 DEF TypeOK, OneTaskPerEntry

LEMMA RemoveStackKeeps ==
  ASSUME IInv, NEW s \in Stacks, RemoveStack(s)
  PROVE  IInv'
  <1> USE DEF IInv
  <1>1. /\ entry' = [entry EXCEPT ![s] = Quiet]
        /\ task' = [task EXCEPT ![s] = [d \in Databases |->
             [v \in Schedules |->
                IF v = entry[s][d] THEN task[s][d][v] - 1 ELSE task[s][d][v]]]]
        /\ holder' \in {holder, Nobody} /\ leaving' = leaving \cup {s}
        /\ Disturb(s) /\ UNCHANGED <<config, service, todo, stage, got>>
    BY DEF RemoveStack
  <1>2. /\ entry' \in [Stacks -> Wanted]
        /\ \A q \in Stacks \ {s} : entry'[q] = entry[q] /\ task'[q] = task[q]
    BY <1>1 DEF TypeOK, Quiet, Wanted
  <1>3. task' \in [Stacks -> [Databases -> [Schedules -> Int]]]
    <2>1. [d \in Databases |-> [v \in Schedules |->
             IF v = entry[s][d] THEN task[s][d][v] - 1 ELSE task[s][d][v]]]
          \in [Databases -> [Schedules -> Int]]
      BY DEF TypeOK
    <2> QED BY <1>1, <2>1 DEF TypeOK
  <1>4. OneTaskPerEntry'
    <2> SUFFICES ASSUME NEW q \in Stacks, NEW d \in Databases, NEW v \in Schedules
                 PROVE  task'[q][d][v] = IF entry'[q][d] = v THEN 1 ELSE 0
      BY DEF OneTaskPerEntry
    <2>1. CASE q = s
      <3>1. entry'[s][d] = 0 /\ v # 0
        BY <1>1, SchedulesAssumption DEF TypeOK, Quiet, NoSchedule
      <3>2. task[s][d][v] = IF entry[s][d] = v THEN 1 ELSE 0
        BY DEF OneTaskPerEntry
      <3>3. task'[s][d][v] = IF v = entry[s][d] THEN task[s][d][v] - 1
                                                ELSE task[s][d][v]
        BY <1>1 DEF TypeOK
      <3> QED BY <2>1, <3>1, <3>2, <3>3
    <2>2. CASE q # s
      BY <1>2, <2>2 DEF OneTaskPerEntry
    <2> QED BY <2>1, <2>2
  <1>5. Listed' /\ Alone' /\ Knows' /\ undisturbed' \in [Procs -> BOOLEAN]
    BY <1>1, <1>2, DisturbKeeps
  <1> QED BY <1>1, <1>2, <1>3, <1>4, <1>5 DEF TypeOK

\* The row of a stack goes, by destroy or by DELETE.
LEMMA RowGoesKeeps ==
  ASSUME IInv, NEW s \in Stacks, DestroyRow(s) \/ DeleteRow(s)
  PROVE  IInv'
  <1> USE DEF IInv
  <1>1. /\ service' = [service EXCEPT ![s] = NoService]
        /\ leaving' \in {leaving, leaving \ {s}}
        /\ Disturb(s) /\ UNCHANGED <<config, live, todo, stage, got>>
    BY DEF DestroyRow, DeleteRow
  <1>2. /\ service' \in [Stacks -> [here : BOOLEAN, cron : Wanted, nats : BOOLEAN]]
        /\ \A q \in Stacks \ {s} : service'[q] = service[q]
    <2>1. NoService \in [here : BOOLEAN, cron : Wanted, nats : BOOLEAN]
      BY DEF NoService, Quiet, Wanted
    <2> QED BY <1>1, <2>1 DEF TypeOK
  <1>3. Listed' /\ Alone' /\ Knows' /\ undisturbed' \in [Procs -> BOOLEAN]
    BY <1>1, <1>2, DisturbKeeps DEF live
  <1> QED BY <1>1, <1>2, <1>3 DEF TypeOK, OneTaskPerEntry, live

\* Registries that hold nothing are right, and so is work that has just begun.
LEMMA RestartKeeps ==
  ASSUME IInv, Restart
  PROVE  IInv'
  <1> USE DEF IInv
  <1>1. PICK list \in Orders(Here) :
          LET all == Does("cron", list) \o Does("nats", list)
                       \o Does("materialise", list) IN
          /\ todo' = [p \in Procs |-> IF p = "boot" THEN all ELSE <<>>]
          /\ stage' = [p \in Procs |->
               IF p = "boot" /\ all # <<>> THEN "cronRead" ELSE "idle"]
          /\ undisturbed' = [p \in Procs |-> p = "boot" /\ all # <<>>]
    BY DEF Restart
  <1> DEFINE all == Does("cron", list) \o Does("nats", list)
                      \o Does("materialise", list)
  <1>2. /\ entry' = [s \in Stacks |-> Quiet]
        /\ task' = [s \in Stacks |-> [d \in Databases |-> [v \in Schedules |-> 0]]]
        /\ holder' = Nobody /\ leaving' = {} /\ UNCHANGED <<config, service>>
        /\ got' = [p \in Procs |-> Quiet]
    BY DEF Restart
  <1>3. list \in Seq(Stacks)
    BY OrdersList DEF Here
  <1>4. /\ Does("cron", list) \in Seq(Job) /\ Does("nats", list) \in Seq(Job)
        /\ Does("materialise", list) \in Seq(Job)
    BY <1>3, DoesList DEF Jobs
  <1>5. all \in Seq(Job)
    BY <1>4, ConcatProperties
  <1>6. all # <<>> => Head(all).do # "materialise"
    <2> SUFFICES ASSUME all # <<>>
                 PROVE  Head(all).do = "cron"
      OBVIOUS
    <2>1. DOMAIN list = 1..Len(list) /\ Len(list) \in Nat
      BY <1>3, LenProperties
    <2>2. list # <<>>
      <3>1. ASSUME list = <<>>
            PROVE  FALSE
        <4>1. Len(list) = 0
          BY <3>1, EmptySeq
        <4>2. \A what : Len(Does(what, list)) = Len(list)
          BY <2>1 DEF Does
        <4>3. Len(all) = 0
          BY <1>4, <4>1, <4>2, ConcatProperties
        <4> QED BY <1>5, <4>3, EmptySeq
      <3> QED BY <3>1
    <2>3. Len(list) >= 1
      BY <1>3, <2>1, <2>2, EmptySeq
    <2>4. Len(Does("cron", list)) = Len(list)
          /\ Does("cron", list)[1] = [do |-> "cron", stack |-> list[1]]
      BY <2>1, <2>3 DEF Does
    <2>5. Does("cron", list) # <<>>
      BY <2>3, <2>4
    <2>6. Head(all) = Does("cron", list)[1]
      BY <1>4, <2>3, <2>4, <2>5, ConcatProperties
    <2> QED BY <2>4, <2>6
  <1> HIDE DEF all
  <1>7. /\ todo' = [p \in Procs |-> IF p = "boot" THEN all ELSE <<>>]
        /\ stage' = [p \in Procs |->
             IF p = "boot" /\ all # <<>> THEN "cronRead" ELSE "idle"]
        /\ undisturbed' = [p \in Procs |-> p = "boot" /\ all # <<>>]
    BY <1>1 DEF all
  <1>8. Listed' /\ Alone' /\ Knows'
    <2>1. todo' \in [Procs -> Seq(Job)]
      BY <1>5, <1>7
    <2>2. Listed'
      BY <1>7, <2>1 DEF Listed, AtRest
    <2>3. \A p \in Procs : p # "boot" => todo'[p] = <<>> /\ ~ undisturbed'[p]
      BY <1>7
    <2>4. Alone'
      BY <2>3 DEF Alone, Busy
    <2>5. Knows'
      BY <1>6, <1>7, <2>3 DEF Knows
    <2> QED BY <2>2, <2>4, <2>5
  <1>9. OneTaskPerEntry'
    BY <1>2, SchedulesAssumption DEF OneTaskPerEntry, Quiet, NoSchedule
  <1>10. TypeOK'
    <2>1. Quiet \in Wanted
      BY DEF Quiet, Wanted
    <2>2. stage' \in [Procs -> Stages]
      BY <1>7 DEF Stages
    <2>3. undisturbed' \in [Procs -> BOOLEAN]
      <3>1. \A p \in Procs : (p = "boot" /\ all # <<>>) \in BOOLEAN
        OBVIOUS
      <3> QED BY <1>7, <3>1
    <2> QED BY <1>2, <2>1, <2>2, <2>3 DEF TypeOK
  <1> QED BY <1>8, <1>9, <1>10

-----------------------------------------------------------------------------
(* The theorems *)

LEMMA InitInv == Init => IInv
  <1> SUFFICES ASSUME Init
               PROVE  IInv
    OBVIOUS
  <1>1. Quiet \in Wanted
    BY DEF Quiet, Wanted
  <1>2. TypeOK
    BY <1>1 DEF Init, TypeOK, Stages
  <1>3. Listed
    BY DEF Init, Listed, AtRest
  <1>4. OneTaskPerEntry
    BY SchedulesAssumption DEF Init, OneTaskPerEntry, Quiet, NoSchedule
  <1>5. Alone /\ Knows
    BY DEF Init, Alone, Knows
  <1> QED BY <1>2, <1>3, <1>4, <1>5 DEF IInv

LEMMA NextInv == IInv /\ [Next]_vars => IInv'
  <1> SUFFICES ASSUME IInv, [Next]_vars
               PROVE  IInv'
    OBVIOUS
  <1>1. ASSUME NEW p \in Procs, Step(p)
        PROVE  IInv'
    BY <1>1, FindServiceKeeps, FindConfigsKeeps, UpdateServiceKeeps,
       CronReadKeeps, CronDiffKeeps, NatsReadKeeps, NatsDiffKeeps DEF Step
  <1>2. ASSUME NEW p \in Changes, Change(p) \/ RefreshAll(p)
        PROVE  IInv'
    BY <1>2, ChangeKeeps, RefreshAllKeeps
  <1>3. ASSUME NEW s \in Stacks,
               Apply(s) \/ RemoveStack(s) \/ DestroyRow(s) \/ DeleteRow(s)
        PROVE  IInv'
    BY <1>3, ApplyKeeps, RemoveStackKeeps, RowGoesKeeps
  <1>4. CASE Restart
    BY <1>4, RestartKeeps
  <1>5. CASE UNCHANGED vars
    BY <1>5 DEF vars, work, live, IInv, TypeOK, Listed, OneTaskPerEntry, Alone,
                Knows, Busy, Stack
  <1> QED BY <1>1, <1>2, <1>3, <1>4, <1>5 DEF Next

LEMMA Inductive == Spec => []IInv
  BY InitInv, NextInv, PTL DEF Spec

\* Every variable keeps its type.
THEOREM TypeCorrect == Spec => []TypeOK
  <1>1. IInv => TypeOK
    BY DEF IInv
  <1> QED BY <1>1, Inductive, PTL

\* The node-cron tasks that run are those the registry has an entry for, one
\* each (refresh, register, unregister, removeStack of job-pool-cron-registry).
THEOREM OneTask == Spec => []OneTaskPerEntry
  <1>1. IInv => OneTaskPerEntry
    BY DEF IInv
  <1> QED BY <1>1, Inductive, PTL

\* A materialisation nobody disturbs leaves the registry as the configurations
\* say, whatever it found there (materialiseTriggersForStack, then refresh).
THEOREM Heals == Spec => []UndisturbedHeals
  <1>1. IInv => UndisturbedHeals
    BY DEF IInv, UndisturbedHeals, Knows, Listed, AtRest
  <1> QED BY <1>1, Inductive, PTL

=============================================================================

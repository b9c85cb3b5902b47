------------------------ MODULE EgressPushersProofs ------------------------
(***************************************************************************)
(* The gateway's rules never go back and are the current ones once all is  *)
(* quiet, and its map is the containers' own, for any number of slots,     *)
(* edits, container events and faults.                                     *)
(***************************************************************************)
EXTENDS EgressPushers, SequenceTheorems, TLAPS

Request1 == [snap : Nat, by : Slots, awaited : BOOLEAN]
Post1 == [map : AnyMap, by : Slots, awaited : BOOLEAN]

-----------------------------------------------------------------------------
(* The rule pusher's invariant *)

Active(s) == push[s].pc # "off"
Sent(s) == push[s].pc \in {"send", "wait", "stamp"}

\* One push at a time, and inFlight tells of it.
OnePush ==
  /\ inFlight = (\E s \in Slots : Active(s))
  /\ \A s, q \in Slots : Active(s) /\ Active(q) => s = q

\* What is on its way lies between what the gateway has and what the push has
\* read, in order.
InOrder ==
  /\ rules <= policies
  /\ \A i \in 1..Len(wire) : rules <= wire[i].snap /\ wire[i].snap <= policies
  /\ \A i, j \in 1..Len(wire) : i <= j => wire[i].snap <= wire[j].snap
  /\ \A s \in Slots : Sent(s) =>
       /\ rules <= push[s].snap /\ push[s].snap <= policies
       /\ \A i \in 1..Len(wire) : wire[i].snap <= push[s].snap

\* A request that is awaited is the one its push has sent last.
Answered ==
  /\ \A i \in 1..Len(wire) : wire[i].awaited =>
       /\ push[wire[i].by].pc = "wait"
       /\ push[wire[i].by].snap = wire[i].snap
  /\ \A i, j \in 1..Len(wire) : wire[i].awaited /\ wire[j].awaited => i = j

\* What QuietMeansCurrent becomes while something is under way.
Current ==
  ~dropped =>
    /\ asked = 0 /\ ~inFlight => rules = policies
    /\ asked = 0 /\ ~pendingFollowUp =>
         \A s \in Slots : Sent(s) => push[s].snap = policies
    /\ \A s \in Slots : push[s].pc = "stamp" => rules = push[s].snap

RuleInv == OnePush /\ InOrder /\ Answered /\ Current

-----------------------------------------------------------------------------
(* The map pusher's invariant *)

MapActive(s) == mapPush[s].pc # "off"
MapBuilt(s) == mapPush[s].pc \in {"send", "wait", "acked"}

\* While nothing is blurred: one push at a time, what is on its way is its
\* request, and the gateway has the map last stored or the one it acknowledged.
Clear ==
  ~blurred =>
    /\ \A s, q \in Slots : MapActive(s) /\ MapActive(q) => s = q
    /\ Len(post) <= 1
    /\ \A i \in 1..Len(post) :
         /\ post[i].awaited
         /\ mapPush[post[i].by].pc = "wait"
         /\ mapPush[post[i].by].map = post[i].map
    /\ \A s \in Slots : mapPush[s].pc = "acked" => map = mapPush[s].map
    /\ \/ lastPushed = NoMap \/ map = lastPushed
       \/ \E s \in Slots : mapPush[s].pc = "acked"
    /\ told = 0 /\ ~timer /\ ~mapDropped =>
         /\ \A s \in Slots : MapBuilt(s) => mapPush[s].map = boxes
         /\ (\A s \in Slots : ~MapActive(s)) => lastPushed = boxes

IInv == TypeOK /\ RuleInv /\ Clear

-----------------------------------------------------------------------------
(* Frames *)

\* A step that leaves one pusher alone leaves its invariant alone.
LEMMA RuleSame ==
  ASSUME RuleInv, UNCHANGED ruleVars
  PROVE  RuleInv'
  BY DEF RuleInv, OnePush, InOrder, Answered, Current, Active, Sent, ruleVars

LEMMA MapSame ==
  ASSUME Clear, UNCHANGED mapVars
  PROVE  Clear'
  BY DEF Clear, MapActive, MapBuilt, mapVars

\* Giving up on requests changes nothing but who waits for them.
LEMMA GiveUpKeeps ==
  ASSUME NEW line, NEW late, line \in Seq(Request1) \/ line \in Seq(Post1)
  PROVE  LET new == GiveUpOn(line, late) IN
         /\ Len(new) = Len(line)
         /\ line \in Seq(Request1) => new \in Seq(Request1)
         /\ line \in Seq(Post1) => new \in Seq(Post1)
         /\ \A i \in 1..Len(line) :
              new[i] = [line[i] EXCEPT !.awaited = @ /\ i \notin late]
  <1> DEFINE new == GiveUpOn(line, late)
  <1>1. DOMAIN line = 1..Len(line) /\ Len(line) \in Nat
    BY LenProperties
  <1>2. new = [i \in 1..Len(line) |->
                 [line[i] EXCEPT !.awaited = @ /\ i \notin late]]
    BY <1>1 DEF GiveUpOn
  <1>3. ASSUME line \in Seq(Request1)
        PROVE  \A i \in 1..Len(line) :
                 [line[i] EXCEPT !.awaited = @ /\ i \notin late] \in Request1
    <2> TAKE i \in 1..Len(line)
    <2>1. line[i] \in Request1
      BY <1>3, ElementOfSeq
    <2>2. (line[i].awaited /\ i \notin late) \in BOOLEAN
      OBVIOUS
    <2> QED BY <2>1, <2>2 DEF Request1
  <1>4. ASSUME line \in Seq(Post1)
        PROVE  \A i \in 1..Len(line) :
                 [line[i] EXCEPT !.awaited = @ /\ i \notin late] \in Post1
    <2> TAKE i \in 1..Len(line)
    <2>1. line[i] \in Post1
      BY <1>4, ElementOfSeq
    <2>2. (line[i].awaited /\ i \notin late) \in BOOLEAN
      OBVIOUS
    <2> QED BY <2>1, <2>2 DEF Post1
  <1>5. line \in Seq(Request1) => new \in Seq(Request1)
    BY <1>1, <1>2, <1>3
  <1>6. line \in Seq(Post1) => new \in Seq(Post1)
    BY <1>1, <1>2, <1>4
  <1>7. Len(new) = Len(line)
    BY <1>1, <1>2
  <1> QED BY <1>2, <1>5, <1>6, <1>7

-----------------------------------------------------------------------------
(* The rule pusher's steps *)

\* The requests on their way are the same ones; some may be awaited no longer.
Thinned ==
  /\ Len(wire') = Len(wire)
  /\ \A i \in 1..Len(wire) :
       /\ wire'[i].snap = wire[i].snap
       /\ wire'[i].by = wire[i].by
       /\ wire'[i].awaited => wire[i].awaited

LEMMA WireTypes ==
  ASSUME TypeOK
  PROVE  /\ wire \in Seq(Request1)
         /\ Len(wire) \in Nat
         /\ \A i \in 1..Len(wire) :
              /\ wire[i] \in Request1
              /\ wire[i].snap \in Nat /\ wire[i].by \in Slots
         /\ \A s \in Slots : push[s].snap \in Nat
  <1>1. wire \in Seq(Request1) /\ \A s \in Slots : push[s].snap \in Nat
    BY DEF TypeOK, Request1
  <1>2. Len(wire) \in Nat /\ \A i \in 1..Len(wire) : wire[i] \in Request1
    BY <1>1, LenProperties, ElementOfSeq
  <1> QED BY <1>1, <1>2 DEF Request1

\* A push ends: with rules it has stamped, or telling that it gave up.
LEMMA EndKeeps ==
  ASSUME TypeOK, RuleInv, NEW s \in Slots, Active(s), End(s),
         \A i \in 1..Len(wire') : ~wire'[i].awaited,
         Thinned, UNCHANGED <<policies, asked, rules>>,
         dropped' \/ (dropped' = dropped /\ push[s].pc = "stamp")
  PROVE  RuleInv'
  <1>1. \A q \in Slots \ {s} : ~Active(q) /\ push'[q] = push[q]
    BY DEF RuleInv, OnePush, End, TypeOK
  <1>2. push'[s] = (IF pendingFollowUp THEN Start("env") ELSE Off)
        /\ inFlight' = pendingFollowUp /\ ~pendingFollowUp'
    BY DEF End, TypeOK
  <1>3. \A q \in Slots : ~Sent(q)'
    BY <1>1, <1>2 DEF Sent, Active, Start, Off
  <1>4. OnePush'
    <2>1. \A q \in Slots : Active(q)' <=> (q = s /\ pendingFollowUp)
      BY <1>1, <1>2 DEF Active, Start, Off
    <2>2. pendingFollowUp \in BOOLEAN
      BY DEF TypeOK
    <2>3. CASE pendingFollowUp
      BY <1>2, <2>1, <2>3 DEF OnePush, TypeOK
    <2>4. CASE ~pendingFollowUp
      BY <1>2, <2>1, <2>2, <2>4 DEF OnePush
    <2> QED BY <2>3, <2>4
  <1>5. InOrder'
    BY <1>3, WireTypes DEF RuleInv, InOrder, Thinned
  <1>6. Answered'
    BY DEF Answered
  <1>7. Current'
    <2> SUFFICES ASSUME ~dropped'
                 PROVE  /\ asked' = 0 /\ ~inFlight' => rules' = policies'
                        /\ \A q \in Slots : ~Sent(q)'
      BY DEF Current, Sent
    <2>1. asked = 0 /\ ~pendingFollowUp => rules = policies
      BY DEF RuleInv, Current, Sent
    <2> QED BY <1>2, <1>3, <2>1
  <1> QED BY <1>4, <1>5, <1>6, <1>7 DEF RuleInv

\* A push that fails starts over or ends; nobody waits for its request.
LEMMA FailsKeeps ==
  ASSUME TypeOK, RuleInv, NEW s \in Slots, Active(s), Fails(s),
         \A i \in 1..Len(wire') : ~wire'[i].awaited,
         Thinned, UNCHANGED <<policies, asked, rules>>
  PROVE  RuleInv'
  <1>1. CASE push[s].try = 1
    <2>1. /\ push' = [push EXCEPT ![s] = [Start("build") EXCEPT !.try = 2]]
          /\ UNCHANGED <<inFlight, pendingFollowUp, dropped>>
      BY <1>1 DEF Fails
    <2>2. /\ \A q \in Slots \ {s} : ~Active(q) /\ push'[q] = push[q]
          /\ push'[s].pc = "build" /\ push'[s].snap = 0
      BY <2>1 DEF RuleInv, OnePush, TypeOK, Start
    <2>3. \A q \in Slots : ~Sent(q)' /\ (Active(q)' <=> Active(q))
      BY <2>2 DEF Sent, Active
    <2>4. OnePush'
      BY <2>1, <2>3 DEF RuleInv, OnePush
    <2>5. InOrder'
      BY <2>3, WireTypes DEF RuleInv, InOrder, Thinned
    <2>6. Answered'
      BY DEF Answered
    <2>7. Current'
      BY <2>1, <2>3 DEF RuleInv, Current, Sent
    <2> QED BY <2>4, <2>5, <2>6, <2>7 DEF RuleInv
  <1>2. CASE push[s].try # 1
    BY <1>2, EndKeeps DEF Fails
  <1> QED BY <1>1, <1>2

\* Nobody else waits for an answer while a push is not waiting.
LEMMA OnlyWaitersAwait ==
  ASSUME TypeOK, RuleInv, NEW s \in Slots, Active(s), push[s].pc # "wait"
  PROVE  \A i \in 1..Len(wire) : ~wire[i].awaited
  BY WireTypes DEF RuleInv, OnePush, Answered, Active

\* An edit starts nothing yet: a call for it is under way.
LEMMA EditKeeps ==
  ASSUME TypeOK, RuleInv, EditPolicies
  PROVE  RuleInv'
  <1>1. policies' = policies + 1 /\ asked' = asked + 1 /\ asked' # 0
        /\ policies \in Nat /\ rules \in Nat
    BY DEF EditPolicies, TypeOK
  <1>2. OnePush'
    BY DEF EditPolicies, RuleInv, OnePush, Active
  <1>3. InOrder'
    BY <1>1, WireTypes DEF EditPolicies, RuleInv, InOrder, Sent
  <1>4. Answered'
    BY DEF EditPolicies, RuleInv, Answered
  <1>5. Current'
    BY <1>1 DEF EditPolicies, RuleInv, Current, Sent
  <1> QED BY <1>2, <1>3, <1>4, <1>5 DEF RuleInv

LEMMA AskKeeps ==
  ASSUME TypeOK, RuleInv, Ask
  PROVE  RuleInv'
  <1>1. UNCHANGED <<policies, wire, rules, dropped>> /\ Request
    BY DEF Ask
  <1>2. CASE inFlight
    <2>1. pendingFollowUp' = TRUE /\ UNCHANGED <<inFlight, push>>
      BY <1>1, <1>2 DEF Request
    <2> QED
      BY <1>1, <1>2, <2>1
      DEF RuleInv, OnePush, InOrder, Answered, Current, Active, Sent
  <1>3. CASE ~inFlight
    <2>1. inFlight' = TRUE /\ Begins /\ UNCHANGED pendingFollowUp
      BY <1>1, <1>3 DEF Request
    <2>2. PICK s \in Slots : push' = [push EXCEPT ![s] = Start("env")]
      BY <2>1 DEF Begins
    <2>3. \A q \in Slots : ~Active(q)
      BY <1>3 DEF RuleInv, OnePush
    <2>4. \A q \in Slots : /\ Active(q)' <=> q = s
                           /\ ~Sent(q)'
                           /\ push'[q].pc # "wait"
      BY <2>2, <2>3 DEF Active, Sent, Start, TypeOK
    <2>5. \A i \in 1..Len(wire) : ~wire[i].awaited
      BY <2>3, WireTypes DEF RuleInv, Answered, Active
    <2>6. OnePush'
      BY <2>1, <2>4 DEF OnePush
    <2>7. InOrder'
      BY <1>1, <2>4 DEF RuleInv, InOrder
    <2>8. Answered'
      BY <1>1, <2>5 DEF Answered
    <2>9. Current'
      BY <1>1, <2>1, <2>4 DEF Current, Sent
    <2> QED BY <2>6, <2>7, <2>8, <2>9 DEF RuleInv
  <1>4. inFlight \in BOOLEAN
    BY DEF TypeOK
  <1> QED BY <1>2, <1>3, <1>4

LEMMA AskFailsKeeps ==
  ASSUME TypeOK, RuleInv, AskFails
  PROVE  RuleInv'
  BY DEF AskFails, RuleInv, OnePush, InOrder, Answered, Current, Active, Sent

LEMMA FindEnvKeeps ==
  ASSUME TypeOK, RuleInv, NEW s \in Slots, FindEnv(s)
  PROVE  RuleInv'
  <1>1. Active(s) /\ push[s].pc # "wait"
    BY DEF FindEnv, Active
  <1>2. \A i \in 1..Len(wire) : ~wire[i].awaited
    BY <1>1, OnlyWaitersAwait
  <1>3. CASE dropped' = TRUE /\ End(s)
    BY <1>1, <1>2, <1>3, EndKeeps DEF FindEnv, Thinned
  <1>4. CASE /\ push' = [push EXCEPT ![s] = Start("build")]
             /\ UNCHANGED <<inFlight, pendingFollowUp, dropped>>
    <2>1. \A q \in Slots : /\ Active(q)' <=> Active(q)
                           /\ Sent(q)' => Sent(q) /\ push'[q] = push[q]
      BY <1>1, <1>4 DEF Active, Sent, Start, TypeOK
    <2>2. UNCHANGED <<policies, asked, wire, rules>>
      BY DEF FindEnv
    <2>3. OnePush'
      BY <1>4, <2>1 DEF RuleInv, OnePush
    <2>4. InOrder'
      BY <2>1, <2>2 DEF RuleInv, InOrder
    <2>5. Answered'
      BY <1>2, <2>2 DEF Answered
    <2>6. Current'
      BY <1>4, <2>1, <2>2 DEF RuleInv, Current, Sent
    <2> QED BY <2>3, <2>4, <2>5, <2>6 DEF RuleInv
  <1> QED BY <1>3, <1>4 DEF FindEnv

LEMMA BuildKeeps ==
  ASSUME TypeOK, RuleInv, NEW s \in Slots, Build(s)
  PROVE  RuleInv'
  <1>1. Active(s) /\ push[s].pc # "wait"
    BY DEF Build, Active
  <1>2. \A i \in 1..Len(wire) : ~wire[i].awaited
    BY <1>1, OnlyWaitersAwait
  <1>3. UNCHANGED <<policies, asked, wire, rules>>
    BY DEF Build
  <1>4. CASE Fails(s)
    BY <1>1, <1>2, <1>3, <1>4, FailsKeeps DEF Thinned
  <1>5. CASE /\ push' = [push EXCEPT ![s].pc = "send", ![s].snap = policies]
             /\ UNCHANGED <<inFlight, pendingFollowUp>>
    <2>1. /\ push'[s].pc = "send" /\ push'[s].snap = policies
          /\ \A q \in Slots \ {s} : ~Active(q) /\ push'[q] = push[q]
      BY <1>1, <1>5 DEF RuleInv, OnePush, TypeOK
    <2>2. \A q \in Slots : /\ Active(q)' <=> Active(q)
                           /\ Sent(q)' => q = s
                           /\ push'[q].pc # "stamp"
      BY <1>1, <2>1 DEF Active, Sent
    <2>3. OnePush'
      BY <1>5, <2>2 DEF RuleInv, OnePush
    <2>4. InOrder'
      <3>1. rules <= policies /\ \A i \in 1..Len(wire) : wire[i].snap <= policies
        BY DEF RuleInv, InOrder
      <3>2. policies <= policies
        BY DEF TypeOK
      <3>3. \A q \in Slots : Sent(q)' => push'[q].snap = policies
        BY <2>1, <2>2
      <3>4. \A q \in Slots : Sent(q)' =>
              /\ rules <= push'[q].snap /\ push'[q].snap <= policies
              /\ \A i \in 1..Len(wire) : wire[i].snap <= push'[q].snap
        BY <3>1, <3>2, <3>3
      <3> QED BY <1>3, <3>4 DEF RuleInv, InOrder
    <2>5. Answered'
      BY <1>2, <1>3 DEF Answered
    <2>6. inFlight
      BY <1>1 DEF RuleInv, OnePush
    <2>7. Current'
      BY <1>3, <1>5, <2>1, <2>2, <2>6 DEF Current, Sent
    <2> QED BY <2>3, <2>4, <2>5, <2>7 DEF RuleInv
  <1> QED BY <1>4, <1>5 DEF Build

LEMMA SendKeeps ==
  ASSUME TypeOK, RuleInv, NEW s \in Slots, Send(s)
  PROVE  RuleInv'
  <1>1. Active(s) /\ Sent(s) /\ push[s].pc = "send"
    BY DEF Send, Active, Sent
  <1>2. \A i \in 1..Len(wire) : ~wire[i].awaited
    BY <1>1, OnlyWaitersAwait
  <1>3. UNCHANGED <<policies, asked, rules>>
    BY DEF Send
  <1>4. CASE Fails(s) /\ UNCHANGED wire
    BY <1>1, <1>2, <1>3, <1>4, FailsKeeps DEF Thinned
  <1>5. CASE /\ wire' = Append(wire, [snap |-> push[s].snap, by |-> s,
                                      awaited |-> TRUE])
             /\ push' = [push EXCEPT ![s].pc = "wait"]
             /\ UNCHANGED <<inFlight, pendingFollowUp, dropped>>
    <2> DEFINE r == [snap |-> push[s].snap, by |-> s, awaited |-> TRUE]
    <2>1. r \in Request1
      BY WireTypes DEF Request1
    <2>2. /\ Len(wire') = Len(wire) + 1
          /\ wire'[Len(wire) + 1] = r
          /\ \A i \in 1..Len(wire) : wire'[i] = wire[i]
      BY <1>5, <2>1, WireTypes, AppendProperties
    <2>3. /\ push'[s].pc = "wait" /\ push'[s].snap = push[s].snap
          /\ \A q \in Slots \ {s} : ~Active(q) /\ push'[q] = push[q]
      BY <1>1, <1>5 DEF RuleInv, OnePush, TypeOK
    <2>4. \A q \in Slots : /\ Active(q)' <=> Active(q)
                           /\ Sent(q)' => q = s
                           /\ push'[q].pc # "stamp"
      BY <1>1, <2>3 DEF Active, Sent
    <2>5. OnePush'
      BY <1>5, <2>4 DEF RuleInv, OnePush
    <2>6. /\ rules <= push[s].snap /\ push[s].snap <= policies
          /\ \A i \in 1..Len(wire) : wire[i].snap <= push[s].snap
      BY <1>1 DEF RuleInv, InOrder
    <2>7. /\ rules <= policies
          /\ \A i \in 1..Len(wire') :
               /\ rules <= wire'[i].snap /\ wire'[i].snap <= policies
               /\ wire'[i].snap <= push[s].snap
      BY <2>2, <2>6, WireTypes DEF RuleInv, InOrder
    <2>8. \A i, j \in 1..Len(wire') : i <= j => wire'[i].snap <= wire'[j].snap
      BY <2>2, <2>6, WireTypes DEF RuleInv, InOrder
    <2>9. InOrder'
      BY <1>3, <2>3, <2>4, <2>6, <2>7, <2>8 DEF InOrder
    <2>10. \A i \in 1..Len(wire') : wire'[i].awaited => i = Len(wire) + 1
      BY <1>2, <2>2, WireTypes
    <2>11. Answered'
      BY <2>2, <2>3, <2>10 DEF Answered
    <2>12. Current'
      BY <1>1, <1>3, <1>5, <2>3, <2>4 DEF RuleInv, Current, Sent
    <2> QED BY <2>5, <2>9, <2>11, <2>12 DEF RuleInv
  <1> QED BY <1>4, <1>5 DEF Send

\* The first request of the line is gone, applied or lost.
LEMMA TailFacts ==
  ASSUME TypeOK, wire # <<>>, wire' = Tail(wire)
  PROVE  /\ Head(wire) = wire[1] /\ Len(wire) >= 1
         /\ Len(wire') = Len(wire) - 1 /\ wire' \in Seq(Request1)
         /\ \A i \in 1..Len(wire') : wire'[i] = wire[i + 1]
  BY WireTypes, HeadTailProperties

LEMMA ApplyRulesKeeps ==
  ASSUME TypeOK, RuleInv, ApplyRules
  PROVE  RuleInv' /\ rules' >= rules
  <1>1. /\ rules' = wire[1].snap /\ Len(wire) >= 1 /\ Len(wire') = Len(wire) - 1
        /\ \A i \in 1..Len(wire') : wire'[i] = wire[i + 1]
        /\ UNCHANGED <<policies, asked, inFlight, pendingFollowUp, dropped>>
    BY TailFacts DEF ApplyRules
  <1>2. /\ wire[1].snap \in Nat /\ rules \in Nat /\ policies \in Nat
        /\ wire[1].by \in Slots /\ wire[1] \in Request1
    BY <1>1, WireTypes DEF TypeOK
  <1>3. /\ rules <= wire[1].snap /\ wire[1].snap <= policies
        /\ \A j \in 1..Len(wire) : wire[1].snap <= wire[j].snap
        /\ \A s \in Slots : Sent(s) => wire[1].snap <= push[s].snap
    BY <1>1, WireTypes DEF RuleInv, InOrder
  <1>4. \/ /\ wire[1].awaited
           /\ push' = [push EXCEPT ![wire[1].by].pc = "stamp"]
        \/ UNCHANGED push
    BY TailFacts DEF ApplyRules
  <1>5. ASSUME wire[1].awaited
        PROVE  /\ push[wire[1].by].pc = "wait"
               /\ push[wire[1].by].snap = wire[1].snap
    BY <1>1, <1>5, WireTypes DEF RuleInv, Answered
  <1>6. \A q \in Slots :
          /\ push'[q].snap = push[q].snap
          /\ Active(q)' <=> Active(q)
          /\ Sent(q)' <=> Sent(q)
    <2>1. CASE UNCHANGED push
      BY <2>1 DEF Active, Sent
    <2>2. CASE /\ wire[1].awaited
               /\ push' = [push EXCEPT ![wire[1].by].pc = "stamp"]
      <3>1. push[wire[1].by].pc = "wait"
        BY <1>5, <2>2
      <3> QED BY <1>2, <2>2, <3>1 DEF Active, Sent, TypeOK
    <2> QED BY <1>4, <2>1, <2>2
  <1>7. OnePush'
    BY <1>1, <1>6 DEF RuleInv, OnePush
  <1>8. InOrder'
    <2>1. \A i \in 1..Len(wire') :
            /\ i + 1 \in 1..Len(wire)
            /\ wire'[i] = wire[i + 1]
      BY <1>1, WireTypes
    <2>2. \A i \in 1..Len(wire') : /\ rules' <= wire'[i].snap
                                   /\ wire'[i].snap <= policies'
      BY <1>1, <1>3, <2>1 DEF RuleInv, InOrder
    <2>3. \A i, j \in 1..Len(wire') :
            i <= j => wire'[i].snap <= wire'[j].snap
      BY <2>1, WireTypes DEF RuleInv, InOrder
    <2>4. \A s \in Slots : Sent(s)' =>
            /\ rules' <= push'[s].snap /\ push'[s].snap <= policies'
            /\ \A i \in 1..Len(wire') : wire'[i].snap <= push'[s].snap
      BY <1>1, <1>3, <1>6, <2>1 DEF RuleInv, InOrder
    <2>5. rules' <= policies'
      BY <1>1, <1>3
    <2> QED BY <2>2, <2>3, <2>4, <2>5 DEF InOrder
  <1>9. Answered'
    <2>1. \A i \in 1..Len(wire') :
            /\ i + 1 \in 1..Len(wire) /\ i + 1 # 1
            /\ wire'[i] = wire[i + 1]
      BY <1>1, WireTypes
    <2>2. CASE wire[1].awaited
      <3>1. \A i \in 1..Len(wire') : ~wire'[i].awaited
        BY <1>1, <2>1, <2>2, WireTypes DEF RuleInv, Answered
      <3> QED BY <3>1 DEF Answered
    <2>3. CASE ~wire[1].awaited
      <3>1. UNCHANGED push
        BY <1>4, <2>3
      <3>2. \A i \in 1..Len(wire') : wire'[i].awaited =>
              /\ push'[wire'[i].by].pc = "wait"
              /\ push'[wire'[i].by].snap = wire'[i].snap
        BY <2>1, <3>1 DEF RuleInv, Answered
      <3>3. \A i, j \in 1..Len(wire') :
              wire'[i].awaited /\ wire'[j].awaited => i = j
        BY <2>1, WireTypes DEF RuleInv, Answered
      <3> QED BY <3>2, <3>3 DEF Answered
    <2> QED BY <2>2, <2>3
  <1>10. Current'
    <2> SUFFICES ASSUME ~dropped
                 PROVE  /\ asked = 0 /\ ~inFlight => rules' = policies
                        /\ asked = 0 /\ ~pendingFollowUp =>
                             \A s \in Slots : Sent(s) => push[s].snap = policies
                        /\ \A s \in Slots : push'[s].pc = "stamp" =>
                                             rules' = push[s].snap
      BY <1>1, <1>6 DEF Current
    <2>1. asked = 0 /\ ~inFlight => rules' = policies
      BY <1>1, <1>2, <1>3 DEF RuleInv, Current
    <2>2. ASSUME NEW s \in Slots, push'[s].pc = "stamp"
          PROVE  rules' = push[s].snap
      <3>1. CASE wire[1].awaited
        <4>1. s = wire[1].by
          BY <1>2, <1>5, <1>6, <2>2, <3>1 DEF RuleInv, OnePush, Active
        <4> QED BY <1>1, <1>5, <3>1, <4>1
      <3>2. CASE ~wire[1].awaited
        <4>1. push[s].pc = "stamp" /\ rules = push[s].snap
          BY <1>4, <2>2, <3>2 DEF RuleInv, Current
        <4>2. wire[1].snap <= push[s].snap
          BY <1>3, <4>1 DEF Sent
        <4> QED BY <1>1, <1>2, <1>3, <4>1, <4>2
      <3> QED BY <3>1, <3>2
    <2> QED BY <2>1, <2>2 DEF RuleInv, Current
  <1> QED BY <1>1, <1>2, <1>3, <1>7, <1>8, <1>9, <1>10 DEF RuleInv

LEMMA LoseRulesKeeps ==
  ASSUME TypeOK, RuleInv, LoseRules
  PROVE  RuleInv'
  <1>1. UNCHANGED <<policies, asked, inFlight, pendingFollowUp, push, rules,
                    dropped>>
    BY DEF LoseRules
  <1>2. \A i \in 1..Len(wire') : i + 1 \in 1..Len(wire)
                                /\ wire'[i] = wire[i + 1]
    BY TailFacts, WireTypes DEF LoseRules
  <1>3. OnePush' /\ Current'
    BY <1>1 DEF RuleInv, OnePush, Current, Active, Sent
  <1>4. InOrder'
    <2>1. \A i \in 1..Len(wire') : rules <= wire'[i].snap
                                 /\ wire'[i].snap <= policies
      BY <1>2 DEF RuleInv, InOrder
    <2>2. \A i, j \in 1..Len(wire') :
            i <= j => wire'[i].snap <= wire'[j].snap
      <3> SUFFICES ASSUME NEW i \in 1..Len(wire'), NEW j \in 1..Len(wire'), i <= j
                   PROVE  wire'[i].snap <= wire'[j].snap
        OBVIOUS
      <3>1. i + 1 <= j + 1
        OBVIOUS
      <3>2. wire[i + 1].snap <= wire[j + 1].snap
        BY <1>2, <3>1 DEF RuleInv, InOrder
      <3> QED BY <1>2, <3>2
    <2>3. \A s \in Slots : Sent(s)' =>
            /\ rules <= push[s].snap /\ push[s].snap <= policies
            /\ \A i \in 1..Len(wire') : wire'[i].snap <= push[s].snap
      BY <1>1, <1>2 DEF RuleInv, InOrder, Sent
    <2> QED BY <1>1, <2>1, <2>2, <2>3 DEF RuleInv, InOrder
  <1>5. Answered'
    <2>1. \A i \in 1..Len(wire') : wire'[i].awaited =>
            /\ push[wire'[i].by].pc = "wait"
            /\ push[wire'[i].by].snap = wire'[i].snap
      BY <1>2 DEF RuleInv, Answered
    <2>2. \A i, j \in 1..Len(wire') :
            wire'[i].awaited /\ wire'[j].awaited => i = j
      BY <1>2, WireTypes DEF RuleInv, Answered
    <2> QED BY <1>1, <2>1, <2>2 DEF Answered
  <1> QED BY <1>3, <1>4, <1>5 DEF RuleInv

LEMMA TimeoutKeeps ==
  ASSUME TypeOK, RuleInv, NEW s \in Slots, Timeout(s)
  PROVE  RuleInv'
  <1>1. Active(s) /\ Fails(s) /\ UNCHANGED <<policies, asked, rules>>
        /\ wire' = GiveUpOn(wire, Awaited(wire, s))
    BY DEF Timeout, Active
  <1>2. /\ Len(wire') = Len(wire)
        /\ \A i \in 1..Len(wire) :
             wire'[i] = [wire[i] EXCEPT
                           !.awaited = @ /\ i \notin Awaited(wire, s)]
    BY <1>1, GiveUpKeeps, WireTypes
  <1>3. ASSUME NEW i \in 1..Len(wire)
        PROVE  /\ wire'[i].snap = wire[i].snap /\ wire'[i].by = wire[i].by
               /\ ~wire'[i].awaited
    <2>1. wire[i] \in Request1 /\ wire[i].by \in Slots
      BY WireTypes
    <2>2. wire[i].awaited => i \in Awaited(wire, s)
      <3>1. wire[i].awaited => wire[i].by = s
        BY <1>1, <2>1 DEF RuleInv, Answered, OnePush, Active
      <3>2. i \in DOMAIN wire
        BY WireTypes, LenProperties
      <3> QED BY <3>1, <3>2 DEF Awaited
    <2>3. ~(wire[i].awaited /\ i \notin Awaited(wire, s))
      BY <2>2
    <2> QED BY <1>2, <2>1, <2>3 DEF Request1
  <1>4. Thinned /\ \A i \in 1..Len(wire') : ~wire'[i].awaited
    BY <1>2, <1>3 DEF Thinned
  <1> QED BY <1>1, <1>4, FailsKeeps

LEMMA StampKeeps ==
  ASSUME TypeOK, RuleInv, NEW s \in Slots, Stamp(s)
  PROVE  RuleInv'
  <1>1. Active(s) /\ push[s].pc = "stamp"
        /\ UNCHANGED <<policies, asked, wire, rules>>
    BY DEF Stamp, Active
  <1>2. \A i \in 1..Len(wire) : ~wire[i].awaited
    BY <1>1, OnlyWaitersAwait
  <1>3. Thinned /\ \A i \in 1..Len(wire') : ~wire'[i].awaited
    BY <1>1, <1>2 DEF Thinned
  <1>4. CASE Fails(s)
    BY <1>1, <1>3, <1>4, FailsKeeps
  <1>5. CASE End(s) /\ UNCHANGED dropped
    BY <1>1, <1>3, <1>5, EndKeeps
  <1> QED BY <1>4, <1>5 DEF Stamp

\* The gateway starts anew: its rules are those of no edit.
LEMMA GatewayRestartKeeps ==
  ASSUME TypeOK, RuleInv, GatewayRestart
  PROVE  RuleInv'
  <1>1. /\ rules' = 0 /\ wire' = <<>> /\ Len(wire') = 0 /\ dropped' = TRUE
        /\ UNCHANGED <<policies, asked, inFlight, pendingFollowUp, push>>
    BY DEF GatewayRestart
  <1>2. OnePush' /\ Answered' /\ Current'
    BY <1>1 DEF RuleInv, OnePush, Answered, Current, Active
  <1>3. \A s \in Slots : push[s].snap \in Nat
    BY WireTypes
  <1>4. InOrder'
    BY <1>1, <1>3 DEF RuleInv, InOrder, Sent, TypeOK
  <1> QED BY <1>2, <1>4 DEF RuleInv

LEMMA ServerRestartKeeps ==
  ASSUME TypeOK, RuleInv, ServerRestart
  PROVE  RuleInv'
  <1>1. /\ inFlight' = TRUE /\ dropped' = TRUE
        /\ UNCHANGED <<policies, rules>>
        /\ wire' = GiveUpOn(wire, DOMAIN wire)
    BY DEF ServerRestart
  <1>2. PICK s \in Slots : push' = FirstPush(s)
    BY DEF ServerRestart
  <1>3. \A q \in Slots : (Active(q)' <=> q = s) /\ ~Sent(q)'
    BY <1>2 DEF FirstPush, Active, Sent, Off, Start
  <1>4. /\ Len(wire') = Len(wire)
        /\ \A i \in 1..Len(wire) :
             wire'[i] = [wire[i] EXCEPT !.awaited = @ /\ i \notin DOMAIN wire]
    BY <1>1, GiveUpKeeps, WireTypes
  <1>5. ASSUME NEW i \in 1..Len(wire)
        PROVE  wire'[i].snap = wire[i].snap /\ ~wire'[i].awaited
    <2>1. wire[i] \in Request1 /\ i \in DOMAIN wire
      BY WireTypes, LenProperties
    <2>2. ~(wire[i].awaited /\ i \notin DOMAIN wire)
      BY <2>1
    <2> QED BY <1>4, <2>1, <2>2 DEF Request1
  <1>6. OnePush'
    BY <1>1, <1>3 DEF OnePush
  <1>7. InOrder'
    BY <1>1, <1>3, <1>4, <1>5 DEF RuleInv, InOrder
  <1>8. Answered' /\ Current'
    BY <1>1, <1>4, <1>5 DEF Answered, Current
  <1> QED BY <1>6, <1>7, <1>8 DEF RuleInv

-----------------------------------------------------------------------------
(* The map pusher's steps *)

LEMMA PostTypes ==
  ASSUME TypeOK
  PROVE  /\ post \in Seq(Post1)
         /\ Len(post) \in Nat
         /\ \A i \in 1..Len(post) : /\ post[i] \in Post1
                                    /\ post[i].by \in Slots
         /\ \A s \in Slots : mapPush[s].map \in AnyMap
         /\ blurred \in BOOLEAN /\ timer \in BOOLEAN /\ told \in Nat
         /\ boxes \in Maps /\ lastPushed \in AnyMap
  <1>1. /\ post \in Seq(Post1) /\ blurred \in BOOLEAN /\ timer \in BOOLEAN
        /\ told \in Nat /\ boxes \in Maps /\ lastPushed \in AnyMap
        /\ \A s \in Slots : mapPush[s].map \in AnyMap
    BY DEF TypeOK, Post1
  <1>2. Len(post) \in Nat /\ \A i \in 1..Len(post) : post[i] \in Post1
    BY <1>1, LenProperties, ElementOfSeq
  <1> QED BY <1>1, <1>2 DEF Post1

\* Nothing is on its way while the push that runs does not wait.
LEMMA NothingPosted ==
  ASSUME TypeOK, Clear, ~blurred,
         \A q \in Slots : mapPush[q].pc # "wait"
  PROVE  Len(post) = 0
  <1>1. Len(post) \in Nat /\ Len(post) <= 1
    BY PostTypes DEF Clear
  <1>2. \A n \in Nat : n <= 1 /\ n # 1 => n = 0
    OBVIOUS
  <1>3. ASSUME Len(post) = 1
        PROVE  FALSE
    <2>1. 1 \in 1..Len(post)
      BY <1>3
    <2>2. mapPush[post[1].by].pc = "wait"
      BY <2>1 DEF Clear
    <2>3. post[1].by \in Slots
      BY <2>1, PostTypes
    <2> QED BY <2>2, <2>3
  <1> QED BY <1>1, <1>2, <1>3, Zenon

\* The push that runs is the only one.
LEMMA OnlyRunner ==
  ASSUME Clear, ~blurred, NEW s \in Slots, MapActive(s)
  PROVE  \A q \in Slots : MapActive(q) <=> q = s
  BY DEF Clear

\* A map push that fails starts over, or ends and says so.
LEMMA MapFailsKeeps ==
  ASSUME TypeOK, Clear, NEW s \in Slots, MapActive(s), MapFails(s),
         mapPush[s].pc # "acked",
         ~blurred' => ~blurred /\ Len(post') = 0,
         UNCHANGED <<boxes, told, timer, lastPushed, map>>
  PROVE  Clear'
  <1>1. /\ \A q \in Slots \ {s} : mapPush'[q] = mapPush[q]
        /\ ~MapBuilt(s)'
        /\ MapActive(s)' \/ mapDropped'
    <2>1. CASE mapPush[s].try = 1
      <3>1. mapPush' = [mapPush EXCEPT ![s] = [MapStart EXCEPT !.try = 2]]
        BY <2>1 DEF MapFails
      <3>2. /\ \A q \in Slots \ {s} : mapPush'[q] = mapPush[q]
            /\ mapPush'[s].pc = "build"
        BY <3>1 DEF MapStart, TypeOK
      <3> QED BY <3>2 DEF MapBuilt, MapActive
    <2>2. CASE mapPush[s].try # 1
      <3>1. mapPush' = [mapPush EXCEPT ![s] = MapOff] /\ mapDropped' = TRUE
        BY <2>2 DEF MapFails
      <3>2. /\ \A q \in Slots \ {s} : mapPush'[q] = mapPush[q]
            /\ mapPush'[s].pc = "off"
        BY <3>1 DEF MapOff, TypeOK
      <3> QED BY <3>1, <3>2 DEF MapBuilt
    <2> QED BY <2>1, <2>2
  <1>3. Clear'
    <2> SUFFICES ASSUME ~blurred'
                 PROVE  /\ \A q, r \in Slots :
                             MapActive(q)' /\ MapActive(r)' => q = r
                        /\ \A q \in Slots : ~MapBuilt(q)'
                        /\ lastPushed = NoMap \/ map = lastPushed
                        /\ mapDropped' \/ \E q \in Slots : MapActive(q)'
      <3>1. ~blurred' => Len(post') = 0
        OBVIOUS
      <3> QED BY <3>1 DEF Clear, MapBuilt
    <2>1. \A q \in Slots : MapActive(q) <=> q = s
      BY OnlyRunner
    <2>2. \A q \in Slots : MapActive(q)' => q = s
      BY <1>1, <2>1 DEF MapActive
    <2>3. \A q \in Slots : ~MapBuilt(q)'
      BY <1>1, <2>2 DEF MapActive, MapBuilt
    <2>4. \A q \in Slots : mapPush[q].pc # "acked"
      BY <2>1 DEF MapActive
    <2>5. lastPushed = NoMap \/ map = lastPushed
      BY <2>4 DEF Clear
    <2> QED BY <1>1, <2>2, <2>3, <2>5
  <1> QED BY <1>3

LEMMA ContainerEventKeeps ==
  ASSUME TypeOK, Clear, ContainerEvent
  PROVE  Clear'
  <1>1. told' # 0
    BY PostTypes DEF ContainerEvent
  <1>2. UNCHANGED <<timer, mapPush, lastPushed, post, map, mapDropped, blurred>>
    BY DEF ContainerEvent
  <1> QED
    BY <1>1, <1>2 DEF Clear, MapBuilt, MapActive

LEMMA ScheduleKeeps ==
  ASSUME TypeOK, Clear, Schedule
  PROVE  Clear'
  <1>1. timer' = TRUE \/ mapDropped' = TRUE
    BY DEF Schedule
  <1>2. UNCHANGED <<boxes, mapPush, lastPushed, post, map, blurred>>
    BY DEF Schedule
  <1> QED
    BY <1>1, <1>2 DEF Clear, MapBuilt, MapActive

LEMMA FireKeeps ==
  ASSUME TypeOK, Clear, NEW s \in Slots, Fire(s)
  PROVE  Clear'
  <1>1. /\ UNCHANGED <<boxes, told, lastPushed, post, map, mapDropped>>
        /\ mapPush' = [mapPush EXCEPT ![s] = MapStart]
        /\ blurred' = (blurred \/ \E q \in Slots : mapPush[q] # MapOff)
    BY DEF Fire
  <1>2. /\ \A q \in Slots \ {s} : mapPush'[q] = mapPush[q]
        /\ mapPush'[s] = MapStart
    BY <1>1 DEF TypeOK
  <1>4. ASSUME ~blurred'
        PROVE  /\ ~blurred
               /\ \A q \in Slots : ~MapActive(q) /\ mapPush[q].pc # "wait"
                                 /\ mapPush[q].pc # "acked"
               /\ Len(post) = 0
    <2>1. ~blurred /\ \A q \in Slots : mapPush[q] = MapOff
      BY <1>1, <1>4
    <2> QED BY <2>1, NothingPosted DEF MapActive, MapOff
  <1>5. ASSUME ~blurred'
        PROVE  \A q \in Slots : (MapActive(q)' <=> q = s) /\ ~MapBuilt(q)'
    BY <1>2, <1>4, <1>5 DEF MapActive, MapBuilt, MapStart
  <1>6. ASSUME ~blurred'
        PROVE  lastPushed = NoMap \/ map = lastPushed
    BY <1>4, <1>6 DEF Clear
  <1>7. Clear'
    BY <1>1, <1>4, <1>5, <1>6 DEF Clear, MapBuilt
  <1> QED BY <1>7

LEMMA MapBuildKeeps ==
  ASSUME TypeOK, Clear, NEW s \in Slots, MapBuild(s)
  PROVE  Clear'
  <1>1. /\ UNCHANGED <<boxes, told, timer, lastPushed, post, map, blurred>>
        /\ mapPush[s].pc = "build" /\ MapActive(s)
    BY DEF MapBuild, MapActive
  <1>2. ASSUME ~blurred
        PROVE  /\ \A q \in Slots : /\ MapActive(q) <=> q = s
                                   /\ mapPush[q].pc # "wait"
                                  /\ mapPush[q].pc # "acked"
               /\ Len(post) = 0
    <2>1. \A q \in Slots : MapActive(q) <=> q = s
      BY <1>1, <1>2, OnlyRunner
    <2>2. \A q \in Slots : mapPush[q].pc # "wait" /\ mapPush[q].pc # "acked"
      BY <1>1, <2>1 DEF MapActive
    <2> QED BY <1>2, <2>1, <2>2, NothingPosted
  <1>3. CASE MapFails(s)
    BY <1>1, <1>2, <1>3, MapFailsKeeps
  <1>4. CASE mapPush' = [mapPush EXCEPT ![s].pc = "send", ![s].map = boxes]
    <2>1. /\ \A q \in Slots \ {s} : mapPush'[q] = mapPush[q]
          /\ mapPush'[s].pc = "send" /\ mapPush'[s].map = boxes
      BY <1>4 DEF TypeOK
    <2>3. ASSUME ~blurred
          PROVE  /\ \A q \in Slots : MapActive(q)' <=> q = s
                 /\ \A q \in Slots : mapPush'[q].pc # "acked"
                 /\ \A q \in Slots : MapBuilt(q)' => mapPush'[q].map = boxes
      BY <1>2, <2>1, <2>3 DEF MapActive, MapBuilt
    <2>4. ASSUME ~blurred
          PROVE  lastPushed = NoMap \/ map = lastPushed
      BY <1>2, <2>4 DEF Clear
    <2>5. Clear'
      BY <1>1, <1>2, <2>3, <2>4 DEF Clear
    <2> QED BY <2>5
  <1> QED BY <1>3, <1>4 DEF MapBuild

LEMMA MapSendKeeps ==
  ASSUME TypeOK, Clear, NEW s \in Slots, MapSend(s)
  PROVE  Clear'
  <1>1. /\ UNCHANGED <<boxes, told, timer, lastPushed, map, blurred>>
        /\ mapPush[s].pc = "send" /\ MapActive(s) /\ MapBuilt(s)
    BY DEF MapSend, MapActive, MapBuilt
  <1>2. ASSUME ~blurred
        PROVE  /\ \A q \in Slots : /\ MapActive(q) <=> q = s
                                   /\ mapPush[q].pc # "wait"
                                  /\ mapPush[q].pc # "acked"
               /\ Len(post) = 0
               /\ lastPushed = NoMap \/ map = lastPushed
    <2>1. \A q \in Slots : MapActive(q) <=> q = s
      BY <1>1, <1>2, OnlyRunner
    <2>2. \A q \in Slots : mapPush[q].pc # "wait" /\ mapPush[q].pc # "acked"
      BY <1>1, <2>1 DEF MapActive
    <2>3. lastPushed = NoMap \/ map = lastPushed
      BY <1>2, <2>2 DEF Clear
    <2> QED BY <1>2, <2>1, <2>2, <2>3, NothingPosted
  <1>3. CASE MapFails(s) /\ UNCHANGED post
    BY <1>1, <1>2, <1>3, MapFailsKeeps
  <1>4. CASE /\ mapPush[s].map = lastPushed
             /\ mapPush' = [mapPush EXCEPT ![s] = MapOff]
             /\ UNCHANGED <<post, mapDropped>>
    <2>1. /\ \A q \in Slots \ {s} : mapPush'[q] = mapPush[q]
          /\ mapPush'[s].pc = "off"
      BY <1>4 DEF TypeOK, MapOff
    <2>3. ASSUME ~blurred
          PROVE  \A q \in Slots : ~MapActive(q)' /\ ~MapBuilt(q)'
      BY <1>2, <2>1, <2>3 DEF MapActive, MapBuilt
    <2>4. ASSUME ~blurred, told = 0, ~timer, ~mapDropped
          PROVE  lastPushed = boxes
      BY <1>1, <1>4, <2>4 DEF Clear
    <2>5. Clear'
      BY <1>1, <1>2, <1>4, <2>3, <2>4 DEF Clear, MapBuilt
    <2> QED BY <2>5
  <1>5. CASE /\ post' = Append(post, [map |-> mapPush[s].map, by |-> s,
                                      awaited |-> TRUE])
             /\ mapPush' = [mapPush EXCEPT ![s].pc = "wait"]
             /\ UNCHANGED mapDropped
    <2> DEFINE r == [map |-> mapPush[s].map, by |-> s, awaited |-> TRUE]
    <2>1. /\ \A q \in Slots \ {s} : mapPush'[q] = mapPush[q]
          /\ mapPush'[s].pc = "wait" /\ mapPush'[s].map = mapPush[s].map
      BY <1>5 DEF TypeOK
    <2>3. r \in Post1
      BY PostTypes DEF Post1
    <2>4. ASSUME ~blurred
          PROVE  Len(post') = 1 /\ post'[1] = r
      BY <1>2, <1>5, <2>3, <2>4, PostTypes, AppendProperties
    <2>5. ASSUME ~blurred
          PROVE  /\ \A q \in Slots : MapActive(q)' <=> q = s
                 /\ \A q \in Slots : mapPush'[q].pc # "acked"
                 /\ \A q \in Slots : MapBuilt(q)' => q = s
      BY <1>2, <2>1, <2>5 DEF MapActive, MapBuilt
    <2>6. ASSUME ~blurred
          PROVE  \A i \in 1..Len(post') :
                   /\ post'[i].awaited /\ post'[i].by = s
                   /\ post'[i].map = mapPush[s].map
      <3>1. Len(post') = 1 /\ post'[1] = r
        BY <2>4, <2>6
      <3>2. \A i \in 1..Len(post') : post'[i] = r
        BY <3>1
      <3> QED BY <3>2
    <2>7. ASSUME ~blurred, told = 0, ~timer, ~mapDropped
          PROVE  mapPush[s].map = boxes
      BY <1>1, <2>7 DEF Clear
    <2>8. Clear'
      <3> SUFFICES ASSUME ~blurred'
                   PROVE  /\ \A q, t \in Slots :
                               MapActive(q)' /\ MapActive(t)' => q = t
                          /\ Len(post') <= 1
                          /\ \A i \in 1..Len(post') :
                               /\ post'[i].awaited
                               /\ mapPush'[post'[i].by].pc = "wait"
                               /\ mapPush'[post'[i].by].map = post'[i].map
                          /\ \A q \in Slots : mapPush'[q].pc # "acked"
                          /\ lastPushed' = NoMap \/ map' = lastPushed'
                          /\ told' = 0 /\ ~timer' /\ ~mapDropped' =>
                               /\ \A q \in Slots :
                                    MapBuilt(q)' => mapPush'[q].map = boxes'
                               /\ \E q \in Slots : MapActive(q)'
        BY DEF Clear
      <3>1. ~blurred
        BY <1>1
      <3>2. Len(post') <= 1
        <4>1. Len(post') = 1
          BY <2>4, <3>1
        <4> QED BY <4>1
      <3>3. \A i \in 1..Len(post') :
              /\ post'[i].awaited
              /\ mapPush'[post'[i].by].pc = "wait"
              /\ mapPush'[post'[i].by].map = post'[i].map
        BY <2>1, <2>6, <3>1
      <3>4. told' = 0 /\ ~timer' /\ ~mapDropped' =>
              \A q \in Slots : MapBuilt(q)' => mapPush'[q].map = boxes'
        BY <1>1, <1>5, <2>1, <2>5, <2>7, <3>1
      <3> QED BY <1>1, <1>2, <2>5, <3>1, <3>2, <3>3, <3>4
    <2> QED BY <2>8
  <1> QED BY <1>3, <1>4, <1>5 DEF MapSend

\* Unless it is blurred, the only map on its way is the running push's.
LEMMA PostTail ==
  ASSUME TypeOK, Clear, ~blurred, post # <<>>, post' = Tail(post)
  PROVE  /\ Head(post) = post[1] /\ Len(post') = 0
         /\ post[1].awaited /\ post[1].by \in Slots
         /\ mapPush[post[1].by].pc = "wait"
         /\ mapPush[post[1].by].map = post[1].map
  <1>1. /\ Head(post) = post[1] /\ Len(post) >= 1
        /\ Len(post') = Len(post) - 1
    BY PostTypes, HeadTailProperties
  <1>2. Len(post) = 1 /\ 1 \in 1..Len(post)
    BY <1>1, PostTypes DEF Clear
  <1> QED BY <1>1, <1>2, PostTypes DEF Clear

LEMMA ApplyMapKeeps ==
  ASSUME TypeOK, Clear, ApplyMap
  PROVE  Clear'
  <1>1. /\ UNCHANGED <<boxes, told, timer, lastPushed, mapDropped>>
        /\ post # <<>> /\ post' = Tail(post) /\ map' = Head(post).map
    BY DEF ApplyMap
  <1>2. /\ Head(post) = post[1] /\ 1 \in 1..Len(post) /\ post[1].by \in Slots
    BY <1>1, PostTypes, HeadTailProperties
  <1>3. \A q \in Slots : /\ mapPush'[q].map = mapPush[q].map
                         /\ MapBuilt(q)' =>
                              MapBuilt(q) \/ q = post[1].by
    <2>1. \/ mapPush' = [mapPush EXCEPT ![post[1].by].pc = "acked"]
          \/ UNCHANGED mapPush
      BY <1>2 DEF ApplyMap
    <2>2. CASE UNCHANGED mapPush
      BY <2>2 DEF MapBuilt
    <2>3. CASE mapPush' = [mapPush EXCEPT ![post[1].by].pc = "acked"]
      <3>1. ASSUME NEW q \in Slots
            PROVE  /\ mapPush'[q].map = mapPush[q].map
                   /\ mapPush'[q] = mapPush[q] \/ q = post[1].by
        BY <1>2, <2>3 DEF TypeOK
      <3> QED BY <3>1 DEF MapBuilt
    <2> QED BY <2>1, <2>2, <2>3
  <1>4. ~blurred' => ~blurred
    BY DEF ApplyMap
  <1>5. ASSUME ~blurred'
        PROVE  /\ mapPush' = [mapPush EXCEPT ![post[1].by].pc = "acked"]
               /\ mapPush[post[1].by].pc = "wait"
               /\ Len(post') = 0
               /\ map' = mapPush[post[1].by].map
    BY <1>1, <1>2, <1>4, <1>5, PostTail DEF ApplyMap
  <1>7. Clear'
    <2> SUFFICES ASSUME ~blurred'
                 PROVE  Clear'
      BY DEF Clear
    <2> DEFINE s == post[1].by
    <2>1. \A q \in Slots : MapActive(q) <=> q = s
      BY <1>2, <1>4, <1>5, OnlyRunner DEF MapActive
    <2>2. \A q \in Slots : /\ MapActive(q)' <=> q = s
                           /\ MapBuilt(q)' <=> q = s
                           /\ mapPush'[q].pc = "acked" <=> q = s
      BY <1>2, <1>5, <2>1 DEF MapActive, MapBuilt, TypeOK
    <2>3. MapBuilt(s)
      BY <1>5 DEF MapBuilt
    <2>4. told = 0 /\ ~timer /\ ~mapDropped => mapPush[s].map = boxes
      BY <1>2, <1>4, <2>3 DEF Clear
    <2>5. \A q \in Slots : mapPush'[q].pc = "acked" => map' = mapPush'[q].map
      BY <1>3, <1>5, <2>2
    <2>6. \E q \in Slots : mapPush'[q].pc = "acked"
      BY <1>2, <2>2
    <2>7. \E q \in Slots : MapActive(q)'
      BY <1>2, <2>2
    <2>8. told = 0 /\ ~timer /\ ~mapDropped =>
            \A q \in Slots : MapBuilt(q)' => mapPush'[q].map = boxes
      BY <1>3, <2>2, <2>4
    <2>9. ~blurred' /\ Len(post') = 0 /\ UNCHANGED <<boxes, told, timer,
                                                     lastPushed, mapDropped>>
      BY <1>1, <1>5
    <2>10. \A q, t \in Slots : MapActive(q)' /\ MapActive(t)' => q = t
      BY <2>2
    <2> HIDE DEF s
    <2> QED BY <2>5, <2>6, <2>7, <2>8, <2>9, <2>10 DEF Clear
  <1> QED BY <1>7

LEMMA LoseMapKeeps ==
  ASSUME TypeOK, Clear, LoseMap
  PROVE  Clear'
  <1>1. UNCHANGED <<boxes, told, timer, mapPush, lastPushed, map, mapDropped,
                    blurred>>
        /\ post # <<>> /\ post' = Tail(post)
    BY DEF LoseMap
  <1>2. ~blurred => Len(post') = 0
    BY <1>1, PostTail
  <1> QED BY <1>1, <1>2 DEF Clear, MapActive, MapBuilt

LEMMA MapTimeoutKeeps ==
  ASSUME TypeOK, Clear, NEW s \in Slots, MapTimeout(s)
  PROVE  Clear'
  <1>1. /\ UNCHANGED <<boxes, told, timer, lastPushed, map>>
        /\ mapPush[s].pc = "wait" /\ MapActive(s) /\ MapFails(s)
        /\ post' = GiveUpOn(post, Awaited(post, s))
    BY DEF MapTimeout, MapActive
  <1>2. ASSUME ~blurred'
        PROVE  ~blurred /\ Len(post') = 0
    <2>1. ~blurred /\ Awaited(post, s) = {}
      BY <1>2 DEF MapTimeout
    <2>2. Len(post) \in Nat /\ Len(post) <= 1
      BY <2>1, PostTypes DEF Clear
    <2>3. \A n \in Nat : n <= 1 /\ n # 1 => n = 0
      OBVIOUS
    <2>4. ASSUME Len(post) = 1
          PROVE  FALSE
      <3>1. 1 \in 1..Len(post)
        BY <2>4
      <3>2. post[1].awaited /\ mapPush[post[1].by].pc = "wait"
        BY <2>1, <3>1 DEF Clear
      <3>3. post[1].by = s
        BY <1>1, <2>1, <3>1, <3>2, PostTypes DEF Clear, MapActive
      <3>4. 1 \in DOMAIN post
        BY <3>1, PostTypes, LenProperties
      <3> QED BY <2>1, <3>2, <3>3, <3>4 DEF Awaited
    <2>5. Len(post) = 0
      BY <2>2, <2>3, <2>4, Zenon
    <2>6. Len(post') = Len(post)
      BY <1>1, PostTypes, GiveUpKeeps
    <2> QED BY <2>1, <2>5, <2>6
  <1> QED BY <1>1, <1>2, MapFailsKeeps

LEMMA MapStoreKeeps ==
  ASSUME TypeOK, Clear, NEW s \in Slots, MapStore(s)
  PROVE  Clear'
  <1>1. /\ UNCHANGED <<boxes, told, timer, post, map, mapDropped, blurred>>
        /\ mapPush[s].pc = "acked" /\ MapActive(s) /\ MapBuilt(s)
        /\ lastPushed' = mapPush[s].map
        /\ mapPush' = [mapPush EXCEPT ![s] = MapOff]
    BY DEF MapStore, MapActive, MapBuilt
  <1>2. /\ \A q \in Slots \ {s} : mapPush'[q] = mapPush[q]
        /\ mapPush'[s].pc = "off"
    BY <1>1 DEF TypeOK, MapOff
  <1>3. ASSUME ~blurred
        PROVE  /\ \A q \in Slots : ~MapActive(q)' /\ ~MapBuilt(q)'
               /\ map = mapPush[s].map
               /\ Len(post) = 0
               /\ told = 0 /\ ~timer /\ ~mapDropped => mapPush[s].map = boxes
    <2>1. \A q \in Slots : MapActive(q) <=> q = s
      BY <1>1, <1>3, OnlyRunner
    <2>2. \A q \in Slots : mapPush[q].pc # "wait"
      BY <1>1, <2>1 DEF MapActive
    <2>3. Len(post) = 0
      BY <1>3, <2>2, NothingPosted
    <2>4. map = mapPush[s].map
      BY <1>1, <1>3 DEF Clear
    <2>5. told = 0 /\ ~timer /\ ~mapDropped => mapPush[s].map = boxes
      BY <1>1, <1>3 DEF Clear
    <2>6. \A q \in Slots : ~MapActive(q)' /\ ~MapBuilt(q)'
      BY <1>2, <2>1 DEF MapActive, MapBuilt
    <2> QED BY <2>3, <2>4, <2>5, <2>6
  <1>4. Clear'
    BY <1>1, <1>3 DEF Clear, MapBuilt
  <1> QED BY <1>4

LEMMA MapServerRestartKeeps ==
  ASSUME TypeOK, Clear, ServerRestart
  PROVE  Clear'
  <1>1. /\ mapDropped' = TRUE /\ lastPushed' = NoMap
        /\ blurred' = (post # <<>>)
        /\ post' = GiveUpOn(post, DOMAIN post)
    BY DEF ServerRestart
  <1>2. PICK s \in Slots : mapPush' = FirstMapPush(s)
    BY DEF ServerRestart
  <1>3. \A q \in Slots : (MapActive(q)' <=> q = s) /\ ~MapBuilt(q)'
    BY <1>2 DEF FirstMapPush, MapActive, MapBuilt, MapOff, MapStart
  <1>4. ASSUME ~blurred'
        PROVE  Len(post') = 0
    <2>1. post = <<>>
      BY <1>1, <1>4
    <2>2. Len(post') = Len(post)
      BY <1>1, PostTypes, GiveUpKeeps
    <2> QED BY <2>1, <2>2
  <1> QED BY <1>1, <1>3, <1>4 DEF Clear, MapBuilt

-----------------------------------------------------------------------------
(* Types *)

Places == {"off", "env", "build", "send", "wait", "stamp"}
MapPlaces == {"off", "build", "send", "wait", "acked"}
Push1 == [pc : Places, try : {1, 2}, snap : Nat]
MapPush1 == [pc : MapPlaces, try : {1, 2}, map : AnyMap]

LEMMA Starts ==
  /\ Off \in Push1 /\ \A pc \in Places : Start(pc) \in Push1
  /\ [Start("build") EXCEPT !.try = 2] \in Push1
  /\ MapOff \in MapPush1 /\ MapStart \in MapPush1
  /\ [MapStart EXCEPT !.try = 2] \in MapPush1
  /\ \A s : FirstPush(s) \in [Slots -> Push1]
  /\ \A s : FirstMapPush(s) \in [Slots -> MapPush1]
  BY DEF Off, Start, MapOff, MapStart, Push1, MapPush1, Places, MapPlaces,
         FirstPush, FirstMapPush, AnyMap

\* The types of the rule pusher, of the map pusher and of the process.
RuleTypeOK ==
  /\ policies \in Nat /\ asked \in Nat /\ rules \in Nat
  /\ inFlight \in BOOLEAN /\ pendingFollowUp \in BOOLEAN
  /\ dropped \in BOOLEAN
  /\ push \in [Slots -> Push1] /\ wire \in Seq(Request1)

MapTypeOK ==
  /\ boxes \in Maps /\ told \in Nat /\ timer \in BOOLEAN
  /\ mapPush \in [Slots -> MapPush1]
  /\ lastPushed \in AnyMap /\ map \in AnyMap /\ post \in Seq(Post1)
  /\ mapDropped \in BOOLEAN /\ blurred \in BOOLEAN

ProcessTypeOK ==
  booted \in BOOLEAN /\ up \in BOOLEAN /\ changes \in Nat /\ faults \in Nat

LEMMA TypeParts == TypeOK <=> RuleTypeOK /\ MapTypeOK /\ ProcessTypeOK
  BY DEF TypeOK, RuleTypeOK, MapTypeOK, ProcessTypeOK, Push1, MapPush1, Places,
         MapPlaces, Request1, Post1

LEMMA TypePartsNext ==
  ASSUME RuleTypeOK', MapTypeOK', ProcessTypeOK'
  PROVE  TypeOK'
  BY DEF TypeOK, RuleTypeOK, MapTypeOK, ProcessTypeOK, Push1, MapPush1, Places,
         MapPlaces, Request1, Post1

LEMMA RuleTypeSame ==
  ASSUME RuleTypeOK, UNCHANGED ruleVars
  PROVE  RuleTypeOK'
  BY DEF RuleTypeOK, ruleVars

LEMMA MapTypeSame ==
  ASSUME MapTypeOK, UNCHANGED mapVars
  PROVE  MapTypeOK'
  BY DEF MapTypeOK, mapVars

\* What ends a push, or starts it over, keeps the types.
LEMMA EndTypes ==
  ASSUME RuleTypeOK, NEW s \in Slots, End(s) \/ Fails(s)
  PROVE  /\ push' \in [Slots -> Push1]
         /\ inFlight' \in BOOLEAN /\ pendingFollowUp' \in BOOLEAN
         /\ End(s) \/ dropped' = dropped \/ dropped' = TRUE
         /\ booted' = booted \/ booted' = TRUE
  <1>1. ASSUME End(s)
        PROVE  /\ push' \in [Slots -> Push1]
               /\ inFlight' \in BOOLEAN /\ pendingFollowUp' \in BOOLEAN
               /\ booted' = TRUE
    <2>1. (IF pendingFollowUp THEN Start("env") ELSE Off) \in Push1
      BY Starts DEF Places
    <2> QED BY <1>1, <2>1 DEF End, RuleTypeOK
  <1>2. CASE Fails(s) /\ push[s].try = 1
    BY <1>2, Starts DEF Fails, RuleTypeOK
  <1>3. CASE Fails(s) /\ push[s].try # 1
    BY <1>1, <1>3 DEF Fails
  <1> QED BY <1>1, <1>2, <1>3

\* A push that moves on is a push, and so is one that has read the policies.
LEMMA PushMoves ==
  ASSUME NEW f \in [Slots -> Push1], NEW s, NEW pc \in Places
  PROVE  /\ [f EXCEPT ![s].pc = pc] \in [Slots -> Push1]
         /\ \A n \in Nat : [f EXCEPT ![s].pc = pc, ![s].snap = n]
                              \in [Slots -> Push1]
  <1>1. ASSUME NEW x \in Push1, NEW n \in Nat
        PROVE  [x EXCEPT !.pc = pc] \in Push1 /\ [x EXCEPT !.snap = n] \in Push1
    BY DEF Push1
  <1>2. ASSUME NEW g \in [Slots -> Push1], NEW n \in Nat
        PROVE  /\ [g EXCEPT ![s].pc = pc] \in [Slots -> Push1]
               /\ [g EXCEPT ![s].snap = n] \in [Slots -> Push1]
    BY <1>1, <1>2
  <1> QED BY <1>2

\* A step of the rule pusher keeps its types.
LEMMA RuleTypes ==
  ASSUME TypeOK, PushesRules
  PROVE  RuleTypeOK' /\ booted' \in BOOLEAN
  <1> USE TypeParts
  <1> USE DEF RuleTypeOK, ProcessTypeOK
  <1>1. CASE EditPolicies
    BY <1>1 DEF EditPolicies
  <1>2. CASE Ask
    <2>1. inFlight' \in BOOLEAN /\ pendingFollowUp' \in BOOLEAN
          /\ push' \in [Slots -> Push1]
      BY <1>2, Starts DEF Ask, Request, Begins, Places
    <2> QED BY <1>2, <2>1 DEF Ask, processVars
  <1>3. CASE AskFails
    BY <1>3 DEF AskFails
  <1>4. CASE ApplyRules
    <2>1. wire' \in Seq(Request1) /\ rules' \in Nat
      BY <1>4, TailFacts, WireTypes DEF ApplyRules
    <2>2. push' \in [Slots -> Push1]
      <3>1. \/ UNCHANGED push
            \/ push' = [push EXCEPT ![Head(wire).by].pc = "stamp"]
        BY <1>4 DEF ApplyRules
      <3>2. "stamp" \in Places /\ push \in [Slots -> Push1]
        BY DEF Places
      <3> QED BY <3>1, <3>2, PushMoves
    <2> QED BY <1>4, <2>1, <2>2 DEF ApplyRules
  <1>5. CASE LoseRules
    <2>1. wire' \in Seq(Request1)
      BY <1>5, TailFacts DEF LoseRules
    <2> QED BY <1>5, <2>1 DEF LoseRules
  <1>6. ASSUME NEW s \in Slots, FindEnv(s) \/ Build(s) \/ Send(s)
                                \/ Timeout(s) \/ Stamp(s)
        PROVE  RuleTypeOK' /\ booted' \in BOOLEAN
    <2>1. CASE FindEnv(s)
      <3>1. CASE End(s) /\ dropped' = TRUE
        BY <2>1, <3>1, EndTypes DEF FindEnv
      <3>2. CASE /\ push' = [push EXCEPT ![s] = Start("build")]
                 /\ UNCHANGED <<inFlight, pendingFollowUp, dropped, booted>>
        BY <2>1, <3>2, Starts DEF FindEnv, Places
      <3> QED BY <2>1, <3>1, <3>2 DEF FindEnv
    <2>2. CASE Build(s)
      <3>1. CASE Fails(s)
        <4>1. dropped' = dropped \/ dropped' = TRUE
          BY <3>1 DEF Fails
        <4> QED BY <2>2, <3>1, <4>1, EndTypes DEF Build
      <3>2. CASE /\ push' = [push EXCEPT ![s].pc = "send", ![s].snap = policies]
                 /\ dropped' = FALSE
                 /\ UNCHANGED <<inFlight, pendingFollowUp, booted>>
        <4>1. push' \in [Slots -> Push1]
          <5>1. /\ push \in [Slots -> Push1] /\ policies \in Nat
                /\ push' = [push EXCEPT ![s].pc = "send", ![s].snap = policies]
                /\ "send" \in Places
            BY <3>2 DEF Places
          <5> QED BY <5>1, PushMoves
        <4> QED BY <2>2, <3>2, <4>1 DEF Build
      <3> QED BY <2>2, <3>1, <3>2 DEF Build
    <2>3. CASE Send(s)
      <3>1. CASE Fails(s) /\ UNCHANGED wire
        <4>1. dropped' = dropped \/ dropped' = TRUE
          BY <3>1 DEF Fails
        <4> QED BY <2>3, <3>1, <4>1, EndTypes DEF Send
      <3>2. CASE /\ wire' = Append(wire, [snap |-> push[s].snap, by |-> s,
                                          awaited |-> TRUE])
                 /\ push' = [push EXCEPT ![s].pc = "wait"]
                 /\ UNCHANGED <<inFlight, pendingFollowUp, dropped, booted>>
        <4>1. push' \in [Slots -> Push1]
          <5>1. "wait" \in Places /\ push \in [Slots -> Push1]
            BY DEF Places
          <5> QED BY <3>2, <5>1, PushMoves
        <4>2. [snap |-> push[s].snap, by |-> s, awaited |-> TRUE] \in Request1
          BY WireTypes DEF Request1
        <4>3. wire' \in Seq(Request1)
          BY <3>2, <4>2, AppendProperties
        <4> QED BY <2>3, <3>2, <4>1, <4>3 DEF Send
      <3> QED BY <2>3, <3>1, <3>2 DEF Send
    <2>4. CASE Timeout(s)
      <3>1. dropped' = dropped \/ dropped' = TRUE
        BY <2>4 DEF Timeout, Fails
      <3>2. wire' \in Seq(Request1)
        BY <2>4, GiveUpKeeps DEF Timeout
      <3> QED BY <2>4, <3>1, <3>2, EndTypes DEF Timeout
    <2>5. CASE Stamp(s)
      <3>1. dropped' = dropped \/ dropped' = TRUE
        BY <2>5 DEF Stamp, Fails
      <3> QED BY <2>5, <3>1, EndTypes DEF Stamp
    <2> QED BY <1>6, <2>1, <2>2, <2>3, <2>4, <2>5
  <1> QED BY <1>1, <1>2, <1>3, <1>4, <1>5, <1>6 DEF PushesRules

\* A step of the map pusher keeps its types.
LEMMA MapTypes ==
  ASSUME TypeOK, PushesMap
  PROVE  MapTypeOK'
  <1> USE TypeParts
  <1> USE DEF MapTypeOK, AnyMap
  <1>1. CASE ContainerEvent
    BY <1>1 DEF ContainerEvent
  <1>2. CASE Schedule
    <2>1. told' \in Nat
      BY <1>2 DEF Schedule
    <2>2. timer' \in BOOLEAN /\ mapDropped' \in BOOLEAN
      BY <1>2 DEF Schedule
    <2> QED BY <1>2, <2>1, <2>2 DEF Schedule
  <1>3. CASE ApplyMap
    <2>1. /\ map' \in AnyMap /\ post' \in Seq(Post1)
      <3>1. post # <<>> /\ post' = Tail(post) /\ map' = Head(post).map
        BY <1>3 DEF ApplyMap
      <3>2. post' \in Seq(Post1) /\ Head(post) \in Post1
        BY <3>1, PostTypes, HeadTailProperties
      <3> QED BY <3>1, <3>2 DEF Post1
    <2>2. mapPush' \in [Slots -> MapPush1]
      <3>1. \/ UNCHANGED mapPush
            \/ mapPush' = [mapPush EXCEPT ![Head(post).by].pc = "acked"]
        BY <1>3 DEF ApplyMap
      <3> QED BY <3>1 DEF MapPush1, MapPlaces
    <2>3. blurred' = blurred \/ blurred' = TRUE
      BY <1>3 DEF ApplyMap
    <2> QED BY <1>3, <2>1, <2>2, <2>3 DEF ApplyMap
  <1>4. CASE LoseMap
    <2>1. post' \in Seq(Post1)
      BY <1>4, HeadTailProperties DEF LoseMap
    <2> QED BY <1>4, <2>1 DEF LoseMap
  <1>5. ASSUME NEW s \in Slots, MapFails(s)
        PROVE  /\ mapPush' \in [Slots -> MapPush1]
               /\ mapDropped' \in BOOLEAN
    <2>1. CASE mapPush[s].try = 1
      BY <1>5, <2>1, Starts DEF MapFails
    <2>2. CASE mapPush[s].try # 1
      BY <1>5, <2>2, Starts DEF MapFails
    <2> QED BY <2>1, <2>2
  <1>6. ASSUME NEW s \in Slots, Fire(s) \/ MapBuild(s) \/ MapSend(s)
                                \/ MapTimeout(s) \/ MapStore(s)
        PROVE  MapTypeOK'
    <2>1. CASE Fire(s)
      <3>1. blurred' \in BOOLEAN
        <4>1. (blurred \/ \E q \in Slots : mapPush[q] # MapOff) \in BOOLEAN
          OBVIOUS
        <4> QED BY <2>1, <4>1 DEF Fire
      <3>2. mapPush' \in [Slots -> MapPush1]
        BY <2>1, Starts DEF Fire
      <3> QED BY <2>1, <3>1, <3>2 DEF Fire
    <2>2. CASE MapBuild(s)
      <3>1. CASE MapFails(s)
        BY <1>5, <2>2, <3>1 DEF MapBuild
      <3>2. CASE /\ mapPush' = [mapPush EXCEPT ![s].pc = "send",
                                               ![s].map = boxes]
                 /\ mapDropped' = FALSE
        <4>1. mapPush' \in [Slots -> MapPush1]
          BY <3>2 DEF MapPush1, MapPlaces
        <4> QED BY <2>2, <3>2, <4>1 DEF MapBuild
      <3> QED BY <2>2, <3>1, <3>2 DEF MapBuild
    <2>3. CASE MapSend(s)
      <3>1. CASE MapFails(s) /\ UNCHANGED post
        BY <1>5, <2>3, <3>1 DEF MapSend
      <3>2. CASE /\ mapPush' = [mapPush EXCEPT ![s] = MapOff]
                 /\ UNCHANGED <<post, mapDropped>>
        BY <2>3, <3>2, Starts DEF MapSend
      <3>3. CASE /\ post' = Append(post, [map |-> mapPush[s].map, by |-> s,
                                          awaited |-> TRUE])
                 /\ mapPush' = [mapPush EXCEPT ![s].pc = "wait"]
                 /\ UNCHANGED mapDropped
        <4>1. mapPush' \in [Slots -> MapPush1]
          BY <3>3 DEF MapPush1, MapPlaces
        <4>2. [map |-> mapPush[s].map, by |-> s, awaited |-> TRUE] \in Post1
          BY PostTypes DEF Post1
        <4>3. post' \in Seq(Post1)
          BY <3>3, <4>2, AppendProperties
        <4> QED BY <2>3, <3>3, <4>1, <4>3 DEF MapSend
      <3> QED BY <2>3, <3>1, <3>2, <3>3 DEF MapSend
    <2>4. CASE MapTimeout(s)
      <3>1. post' \in Seq(Post1)
        BY <2>4, GiveUpKeeps DEF MapTimeout
      <3>2. MapFails(s) /\ (blurred' = blurred \/ blurred' = TRUE)
        BY <2>4 DEF MapTimeout
      <3> QED BY <1>5, <2>4, <3>1, <3>2 DEF MapTimeout
    <2>5. CASE MapStore(s)
      BY <2>5, Starts, PostTypes DEF MapStore
    <2> QED BY <1>6, <2>1, <2>2, <2>3, <2>4, <2>5
  <1> QED BY <1>1, <1>2, <1>3, <1>4, <1>6 DEF PushesMap

-----------------------------------------------------------------------------
(* The steps and the theorems *)

LEMMA InitInv == Init => IInv
  <1> SUFFICES ASSUME Init
               PROVE  IInv
    OBVIOUS
  <1>1. PICK s \in Slots : push = FirstPush(s) /\ mapPush = FirstMapPush(s)
    BY DEF Init
  <1>2. /\ wire = <<>> /\ post = <<>> /\ Len(wire) = 0 /\ Len(post) = 0
        /\ wire \in Seq(Request1) /\ post \in Seq(Post1)
    BY DEF Init
  <1>3. TypeOK
    <2>1. RuleTypeOK
      BY <1>1, <1>2, Starts DEF Init, RuleTypeOK
    <2>2. MapTypeOK
      BY <1>1, <1>2, Starts DEF Init, MapTypeOK, AnyMap
    <2>3. ProcessTypeOK
      BY DEF Init, ProcessTypeOK
    <2> QED BY <2>1, <2>2, <2>3, TypeParts
  <1>4. \A q \in Slots : /\ (Active(q) <=> q = s) /\ ~Sent(q)
                         /\ (MapActive(q) <=> q = s) /\ ~MapBuilt(q)
    BY <1>1 DEF FirstPush, FirstMapPush, Active, Sent, MapActive, MapBuilt, Off,
                Start, MapOff, MapStart
  <1>5. OnePush
    BY <1>4 DEF Init, OnePush
  <1>6. InOrder /\ Answered
    BY <1>2, <1>4 DEF Init, InOrder, Answered
  <1>7. Current
    BY <1>4 DEF Init, Current, Sent
  <1>8. Clear
    BY <1>2, <1>4 DEF Init, Clear, MapBuilt
  <1> QED BY <1>3, <1>5, <1>6, <1>7, <1>8 DEF IInv, RuleInv

\* A step of the rule pusher: the map pusher's state stays.
LEMMA RuleStep ==
  ASSUME IInv, PushesRules
  PROVE  IInv' /\ rules' >= rules
  <1> USE DEF IInv
  <1>1. RuleInv'
    BY EditKeeps, AskKeeps, AskFailsKeeps, ApplyRulesKeeps, LoseRulesKeeps,
       FindEnvKeeps, BuildKeeps, SendKeeps, TimeoutKeeps, StampKeeps
    DEF PushesRules
  <1>2. UNCHANGED mapVars /\ UNCHANGED up /\ (changes' = changes
          \/ changes' = changes + 1) /\ (faults' = faults \/ faults' = faults + 1)
    BY DEF PushesRules, EditPolicies, Ask, AskFails, ApplyRules, LoseRules,
           FindEnv, Build, Send, Timeout, Stamp, Change, Fault, processVars
  <1>3. ProcessTypeOK'
    BY <1>2, RuleTypes, TypeParts DEF ProcessTypeOK
  <1>4. TypeOK'
    BY <1>2, <1>3, RuleTypes, MapTypeSame, TypeParts, TypePartsNext
  <1>5. rules' >= rules
    <2>1. CASE ApplyRules
      BY <2>1, ApplyRulesKeeps
    <2>2. CASE ~ApplyRules
      <3>1. UNCHANGED rules
        BY <2>2 DEF PushesRules, EditPolicies, Ask, AskFails, LoseRules,
           FindEnv, Build, Send, Timeout, Stamp
      <3> QED BY <3>1 DEF TypeOK
    <2> QED BY <2>1, <2>2
  <1> QED BY <1>1, <1>2, <1>4, <1>5, MapSame

LEMMA MapStep ==
  ASSUME IInv, PushesMap
  PROVE  IInv' /\ UNCHANGED rules
  <1> USE DEF IInv
  <1>1. Clear'
    BY ContainerEventKeeps, ScheduleKeeps, ApplyMapKeeps, LoseMapKeeps,
       FireKeeps, MapBuildKeeps, MapSendKeeps, MapTimeoutKeeps, MapStoreKeeps
    DEF PushesMap
  <1>2. UNCHANGED ruleVars /\ UNCHANGED <<up, booted>> /\ (changes' = changes
          \/ changes' = changes + 1) /\ (faults' = faults \/ faults' = faults + 1)
    BY DEF PushesMap, ContainerEvent, Schedule, ApplyMap, LoseMap, Fire,
           MapBuild, MapSend, MapTimeout, MapStore, Change, Fault, processVars
  <1>3. ProcessTypeOK'
    BY <1>2, TypeParts DEF ProcessTypeOK
  <1>4. TypeOK'
    BY <1>2, <1>3, MapTypes, RuleTypeSame, TypeParts, TypePartsNext
  <1> QED BY <1>1, <1>2, <1>4, RuleSame DEF ruleVars

LEMMA OtherStep ==
  ASSUME IInv, Connect \/ Disconnect \/ GatewayRestart \/ ServerRestart
  PROVE  IInv' /\ (rules' >= rules \/ GatewayRestart)
  <1> USE DEF IInv
  <1>1. CASE Connect \/ Disconnect
    <2>1. UNCHANGED ruleVars /\ UNCHANGED mapVars
      BY <1>1 DEF Connect, Disconnect
    <2>2. ProcessTypeOK'
      <3>1. ProcessTypeOK
        BY TypeParts
      <3>2. CASE Connect
        BY <3>1, <3>2 DEF Connect, ProcessTypeOK
      <3>3. CASE Disconnect
        <4>1. faults' \in Nat
          BY <3>1, <3>3 DEF Disconnect, Fault, ProcessTypeOK
        <4>2. up' = FALSE /\ UNCHANGED <<booted, changes>>
          BY <3>3 DEF Disconnect
        <4> QED BY <3>1, <4>1, <4>2 DEF ProcessTypeOK
      <3> QED BY <1>1, <3>2, <3>3
    <2>3. TypeOK' /\ RuleInv' /\ Clear'
      BY <2>1, <2>2, RuleSame, MapSame, RuleTypeSame, MapTypeSame, TypeParts, TypePartsNext
    <2> QED BY <2>1, <2>3 DEF ruleVars, TypeOK
  <1>2. CASE GatewayRestart
    <2>1. /\ RuleTypeOK' /\ ProcessTypeOK'
      BY <1>2, TypeParts DEF GatewayRestart, RuleTypeOK, ProcessTypeOK, Fault
    <2>2. MapTypeOK'
      BY <1>2, TypeParts DEF GatewayRestart, MapTypeOK, AnyMap
    <2>3. Clear'
      BY <1>2 DEF GatewayRestart, Clear
    <2> QED BY <1>2, <2>1, <2>2, <2>3, GatewayRestartKeeps, TypePartsNext
  <1>3. CASE ServerRestart
    <2>1. wire' \in Seq(Request1) /\ post' \in Seq(Post1)
      BY <1>3, GiveUpKeeps, WireTypes, PostTypes DEF ServerRestart
    <2>2. push' \in [Slots -> Push1] /\ mapPush' \in [Slots -> MapPush1]
      BY <1>3, Starts DEF ServerRestart
    <2>3. blurred' \in BOOLEAN
      BY <1>3 DEF ServerRestart
    <2>4. RuleTypeOK' /\ MapTypeOK' /\ ProcessTypeOK'
      <3>1. RuleTypeOK /\ MapTypeOK /\ ProcessTypeOK
        BY TypeParts
      <3>2. RuleTypeOK'
        BY <1>3, <2>1, <2>2, <3>1 DEF ServerRestart, RuleTypeOK
      <3>3. MapTypeOK'
        BY <1>3, <2>1, <2>2, <2>3, <3>1 DEF ServerRestart, MapTypeOK, AnyMap
      <3>4. ProcessTypeOK'
        <4>1. faults' \in Nat
          BY <1>3, <3>1 DEF ServerRestart, Fault, ProcessTypeOK
        <4>2. up' = FALSE /\ booted' = FALSE /\ UNCHANGED changes
          BY <1>3 DEF ServerRestart
        <4> QED BY <3>1, <4>1, <4>2 DEF ProcessTypeOK
      <3> QED BY <3>2, <3>3, <3>4
    <2>5. rules' >= rules
      BY <1>3 DEF ServerRestart, TypeOK
    <2> QED BY <1>3, <2>4, <2>5, ServerRestartKeeps, MapServerRestartKeeps,
               TypePartsNext
  <1> QED BY <1>1, <1>2, <1>3

LEMMA NextInv == IInv /\ [Next]_vars => IInv' /\ [rules' >= rules \/ GatewayRestart]_vars
  <1>1. ASSUME IInv, UNCHANGED vars
        PROVE  IInv'
    <2>1. UNCHANGED ruleVars /\ UNCHANGED mapVars /\ UNCHANGED processVars
      BY <1>1 DEF vars
    <2>2. ProcessTypeOK'
      BY <1>1, <2>1, TypeParts DEF IInv, ProcessTypeOK, processVars
    <2> QED BY <1>1, <2>1, <2>2, RuleSame, MapSame, RuleTypeSame, MapTypeSame,
               TypeParts, TypePartsNext DEF IInv
  <1>2. ASSUME IInv, Next
        PROVE  IInv' /\ (rules' >= rules \/ GatewayRestart)
    <2>1. CASE PushesRules
      BY <1>2, <2>1, RuleStep
    <2>2. CASE PushesMap
      BY <1>2, <2>2, MapStep DEF IInv, TypeOK
    <2>3. CASE Connect \/ Disconnect \/ GatewayRestart \/ ServerRestart
      BY <1>2, <2>3, OtherStep
    <2> QED BY <1>2, <2>1, <2>2, <2>3 DEF Next
  <1> QED BY <1>1, <1>2

LEMMA Inductive == Spec => []IInv
  BY InitInv, NextInv, PTL DEF Spec

\* Every variable keeps its type.
THEOREM TypeCorrect == Spec => []TypeOK
  <1>1. IInv => TypeOK
    BY DEF IInv
  <1> QED BY <1>1, Inductive, PTL

\* Once nothing is under way and no push was given up, the gateway enforces the
\* policies as they are (pushForEnvironment's inFlight and pendingFollowUp).
THEOREM RulesCurrent == Spec => []QuietMeansCurrent
  <1>1. IInv => QuietMeansCurrent
    <2> SUFFICES ASSUME IInv, asked = 0, \A s \in Slots : push[s] = Off, ~dropped
                 PROVE  rules = policies
      BY DEF QuietMeansCurrent
    <2>1. \A s \in Slots : ~Active(s)
      BY DEF Active, Off, Start
    <2>2. ~inFlight
      BY <2>1 DEF IInv, RuleInv, OnePush
    <2> QED BY <2>2 DEF IInv, RuleInv, Current
  <1> QED BY <1>1, Inductive, PTL

\* The gateway never goes back to older rules while it lives, whatever the
\* requests on their way meet.
THEOREM NeverBack == Spec => NeverOlder
  <1>1. IInv /\ [Next]_vars => [rules' >= rules \/ GatewayRestart]_vars
    BY NextInv
  <1> QED BY <1>1, Inductive, PTL DEF Spec, NeverOlder

\* The fingerprint stands for what the gateway has: once nothing is under way,
\* given up or blurred, its map is the containers' own.
THEOREM MapIsCurrent == Spec => []MapCurrent
  <1>1. IInv => MapCurrent
    <2> SUFFICES ASSUME IInv, told = 0, ~timer,
                        \A s \in Slots : mapPush[s] = MapOff,
                        ~mapDropped, ~blurred
                 PROVE  map = boxes
      BY DEF MapCurrent
    <2>1. \A s \in Slots : ~MapActive(s) /\ mapPush[s].pc # "acked"
      BY DEF MapActive, MapOff
    <2>2. lastPushed = boxes /\ (lastPushed = NoMap \/ map = lastPushed)
      BY <2>1 DEF IInv, Clear
    <2> QED BY <2>2, MapsAssumption DEF IInv, TypeOK
  <1> QED BY <1>1, Inductive, PTL

=============================================================================

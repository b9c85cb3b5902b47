----------------------- MODULE NetworkMembershipsProofs -----------------------
(***************************************************************************)
(* No membership is ever written twice, no guess replaces a network's true *)
(* identity, the pruning spares every service that exists, and a destroyed *)
(* stack leaves nothing a later one could claim: for any number of stacks, *)
(* services, rows and overlapping backfills.                               *)
(***************************************************************************)
EXTENDS NetworkMemberships, TLAPS

Does == {"identity", Right, Wrong, "member", "look", "stacks", "exists"}

Entries ==
  {e \in [do : Does, name : Names, stackId : 0..MaxStacks, who : 0..MaxServices] :
     (e.name = Shared => e.stackId = 0) /\ (e.do = "look" => e.name = Shared)}

Elems(list) == {list[i] : i \in 1..Len(list)}

\* An entry that is about no stack and no service.
Neutral(e) == e.stackId = 0 /\ e.who = Self

\* Where a writer is inside the mutex
MemberPlaces == {"findMember", "update", "insert"}
NamePlaces == {"findIdentity", "findName", "create"}
Held == MemberPlaces \cup NamePlaces

Members == (1..MaxRows) \X (0..MaxServices)

-----------------------------------------------------------------------------
(* The inductive invariant *)

Types ==
  /\ TypeOK
  /\ todo \in [Writers -> Seq(Entries)]
  /\ line \in [Keys -> Seq(Writers)]
  /\ seen \subseteq Members

\* A stack has a service, and only an existing stack is being destroyed. A
\* writer has something to do exactly while it is at it, and stands where its
\* present entry sends it.
Fits ==
  /\ at["apply"] \in Ending => stack # 0
  /\ stack = 0 <=> svc = 0
  /\ \A w \in Writers :
       /\ at[w] \in {"idle"} \cup Ending <=> todo[w] = <<>>
       /\ at[w] \in Ending => w = "apply"
       /\ at[w] \in MemberPlaces => Now(w).do = "member"
       /\ at[w] \in NamePlaces => Now(w).do # "member"
       /\ at[w] = "correct" => Now(w).do = "look"
       /\ at[w] \in {"queued"} \cup Held /\ Now(w).do = "member" => Row(w) # 0
       /\ \A i \in 1..Len(todo[w]) :
            todo[w][i].do = "exists" => i < Len(todo[w])

\* A writer waits in the line of its key alone, and inside it is the first.
OneSpot ==
  \A j, k \in Keys : \A a \in 1..Len(line[j]), b \in 1..Len(line[k]) :
    line[j][a] = line[k][b] => j = k /\ a = b

InTurn ==
  \A w \in Writers :
    /\ at[w] = "queued" =>
         \E i \in 1..Len(line[KeyOf(w)]) : line[KeyOf(w)][i] = w
    /\ at[w] \in Held =>
         line[KeyOf(w)] # <<>> /\ Head(line[KeyOf(w)]) = w

\* What was not found is still not there when it is created, and a row to be
\* corrected still is.
Clear ==
  \A w \in Writers :
    /\ at[w] = "create" => net[Now(w).name].id = 0
    /\ at[w] = "insert" => members[Membership(w)] = 0
    /\ at[w] = "correct" => net[Now(w).name].id # 0

\* The shared network is nobody's own.
Rows ==
  /\ \A n \in Names : net[n].id = 0 => net[n] = NoRow
  /\ net[Shared].stackId = 0

\* Nothing is of a service yet to come, and the pruning has not taken the
\* present one for gone.
PastLists ==
  \A w \in Writers : \A e \in Elems(todo[w]) : e.who <= svcs /\ e.stackId <= stacks
PastMembers == \A m \in Members : members[m] > 0 => m[2] <= svcs
PastSeen ==
  \A m \in seen : /\ m[2] # Self /\ m[2] <= svcs
                  /\ pruneAt = "delete" /\ m[2] = svc => alive = svc

\* Who has not read a stack writes about none.
Unread ==
  \A w \in Writers :
    \/ w = "self" \/ ReadStacks \in Elems(todo[w])
    \/ BackfillAlone /\ at["apply"] \in Ending
    => \A e \in Elems(todo[w]) : Neutral(e)

\* What is written is about the stack there is, or one nobody cleaned up.
LivingLists ==
  BackfillAlone => \A w \in Writers : \A e \in Elems(todo[w]) :
    e.stackId \in {0, stack} \cup deleted /\ e.who \in {Self, svc} \cup replaced
LivingRows ==
  BackfillAlone => \A n \in Names :
    \/ net[n].stackId \in {0} \cup deleted
    \/ net[n].stackId = stack /\ at["apply"] \notin {"dropMembers", "dropStack"}
LivingMembers ==
  BackfillAlone => \A m \in Members : members[m] > 0 =>
    \/ m[2] \in {Self} \cup replaced
    \/ m[2] = svc /\ at["apply"] # "dropStack"

Lock == OneSpot /\ InTurn
Stored == Clear /\ Rows /\ OneRowEach
Lists == PastLists /\ LivingLists /\ Unread
Written == PastMembers /\ PastSeen /\ LivingRows /\ LivingMembers
IInv == Types /\ Fits /\ Lock /\ Stored /\ Lists /\ Written

-----------------------------------------------------------------------------
(* Lists of entries *)

LEMMA TailFacts ==
  ASSUME NEW S, NEW list \in Seq(S), list # <<>>
  PROVE  /\ Tail(list) \in Seq(S) /\ Len(list) \in Nat /\ Len(list) > 0
         /\ Head(list) = list[1] /\ Head(list) \in S
         /\ Len(Tail(list)) = Len(list) - 1
         /\ Head(list) \in Elems(list) /\ Elems(Tail(list)) \subseteq Elems(list)
         /\ \A i \in 1..Len(Tail(list)) : Tail(list)[i] = list[i + 1]
  <1>1. /\ Tail(list) \in Seq(S) /\ Len(list) \in Nat /\ Len(list) > 0
        /\ Head(list) = list[1] /\ list[1] \in S
        /\ Len(Tail(list)) = Len(list) - 1
        /\ \A i \in 1..Len(Tail(list)) : Tail(list)[i] = list[i + 1]
    OBVIOUS
  <1>2. Head(list) \in Elems(list)
    BY <1>1 DEF Elems
  <1>3. Elems(Tail(list)) \subseteq Elems(list)
    <2> SUFFICES ASSUME NEW i \in 1..Len(Tail(list))
                 PROVE  Tail(list)[i] \in Elems(list)
      BY DEF Elems
    <2>1. i + 1 \in 1..Len(list)
      BY <1>1
    <2> QED BY <1>1, <2>1 DEF Elems
  <1> QED BY <1>1, <1>2, <1>3

LEMMA ElemsFacts ==
  ASSUME NEW S, NEW list \in Seq(S)
  PROVE  Elems(list) \subseteq S /\ (list = <<>> => Elems(list) = {})
  BY DEF Elems

LEMMA PutFirst ==
  ASSUME NEW S, NEW list \in Seq(S), NEW e \in S
  PROVE  /\ <<e>> \o list \in Seq(S) /\ <<e>> \o list # <<>>
         /\ Len(<<e>> \o list) = Len(list) + 1 /\ Len(list) \in Nat
         /\ \A i \in 1..Len(<<e>> \o list) :
              (<<e>> \o list)[i] = IF i = 1 THEN e ELSE list[i - 1]
         /\ Elems(<<e>> \o list) \subseteq {e} \cup Elems(list)
  <1>1. /\ <<e>> \o list \in Seq(S) /\ <<e>> \o list # <<>>
        /\ Len(<<e>> \o list) = Len(list) + 1 /\ Len(list) \in Nat
        /\ \A i \in 1..Len(<<e>> \o list) :
             (<<e>> \o list)[i] = IF i = 1 THEN e ELSE list[i - 1]
    OBVIOUS
  <1>2. ASSUME NEW i \in 1..Len(<<e>> \o list)
        PROVE  (<<e>> \o list)[i] \in {e} \cup Elems(list)
    <2>1. CASE i = 1
      BY <1>1, <2>1
    <2>2. CASE i # 1
      <3>1. i - 1 \in 1..Len(list)
        BY <1>1, <2>2
      <3> QED BY <1>1, <2>2, <3>1 DEF Elems
    <2> QED BY <2>1, <2>2
  <1> QED BY <1>1, <1>2 DEF Elems

\* Only an entry that is followed by another says exists.
Followed(list) == \A i \in 1..Len(list) : list[i].do = "exists" => i < Len(list)

LEMMA EntryFacts ==
  /\ \A n \in Names, s \in 0..MaxStacks :
       (n = Shared => s = 0) => /\ ByIdentity(n, s) \in Entries
                                /\ ByIdentity(n, s).stackId = s
                                /\ ByIdentity(n, s).who = 0
                                /\ ByIdentity(n, s).do = "identity"
  /\ \A n \in Names, v \in 0..MaxServices :
       /\ Member(n, v) \in Entries /\ Member(n, v).stackId = 0
       /\ Member(n, v).who = v /\ Member(n, v).do = "member"
  /\ \A n \in Names, g \in {Right, Wrong} :
       /\ ByName(n, g) \in Entries /\ Neutral(ByName(n, g))
       /\ ByName(n, g).do = g
  /\ \A n \in Names :
       /\ Exists(n) \in Entries /\ Neutral(Exists(n)) /\ Exists(n).do = "exists"
  /\ Look(Shared) \in Entries /\ Neutral(Look(Shared)) /\ Look(Shared).do = "look"
  /\ ReadStacks \in Entries /\ Neutral(ReadStacks) /\ ReadStacks.do = "stacks"
  BY BoundsAssumption
  DEF ByIdentity, Member, ByName, Look, Exists, ReadStacks, Entries, Neutral,
      Does, Names, Self, Own, Shared, Right, Wrong

\* The lists a writer begins with
LEMMA ListFacts ==
  /\ JoinSelf \in Seq(Entries) /\ JoinSelf # <<>> /\ Followed(JoinSelf)
  /\ \A e \in Elems(JoinSelf) : Neutral(e) /\ e # ReadStacks
  /\ Backfill \in Seq(Entries) /\ Backfill # <<>> /\ Followed(Backfill)
  /\ \A e \in Elems(Backfill) : Neutral(e)
  /\ \A s \in 0..MaxStacks, v \in 0..MaxServices :
       /\ Compile(s, v) \in Seq(Entries) /\ Compile(s, v) # <<>>
       /\ Followed(Compile(s, v))
       /\ BackfillStack(s, v) \in Seq(Entries) /\ BackfillStack(s, v) # <<>>
       /\ Followed(BackfillStack(s, v))
       /\ \A e \in Elems(Compile(s, v)) \cup Elems(BackfillStack(s, v)) :
            e.stackId \in {0, s} /\ e.who \in {Self, v} /\ e # ReadStacks
  <1> HIDE DEF ByIdentity, Member, ByName, Look, Exists, ReadStacks, Entries
  <1>1. Own \in Names /\ Shared \in Names /\ Own # Shared /\ Self = 0
    BY DEF Names, Own, Shared, Self
  <1>2. Self \in 0..MaxServices
    BY BoundsAssumption DEF Self
  <1>3. /\ JoinSelf \in Seq(Entries) /\ JoinSelf # <<>> /\ Followed(JoinSelf)
        /\ \A e \in Elems(JoinSelf) : Neutral(e) /\ e # ReadStacks
    BY <1>1, <1>2, EntryFacts DEF JoinSelf, Followed, Elems, Neutral, Right
  <1>4. /\ Backfill \in Seq(Entries) /\ Backfill # <<>> /\ Followed(Backfill)
        /\ \A e \in Elems(Backfill) : Neutral(e)
    BY <1>1, <1>2, EntryFacts DEF Backfill, Followed, Elems, Neutral
  <1>5. ASSUME NEW s \in 0..MaxStacks, NEW v \in 0..MaxServices
        PROVE  /\ Compile(s, v) \in Seq(Entries) /\ Compile(s, v) # <<>>
               /\ Followed(Compile(s, v)) /\ Len(Compile(s, v)) = 4
               /\ \A e \in Elems(Compile(s, v)) :
                    e.stackId \in {0, s} /\ e.who \in {Self, v} /\ e # ReadStacks
    BY <1>1, <1>2, EntryFacts DEF Compile, Followed, Elems, Neutral, Wrong
  <1>6. ASSUME NEW s \in 0..MaxStacks, NEW v \in 0..MaxServices
        PROVE  /\ BackfillStack(s, v) \in Seq(Entries) /\ BackfillStack(s, v) # <<>>
               /\ Followed(BackfillStack(s, v))
               /\ \A e \in Elems(BackfillStack(s, v)) :
                    e.stackId \in {0, s} /\ e.who \in {Self, v} /\ e # ReadStacks
    <2>1. /\ Exists(Own) \in Entries /\ Neutral(Exists(Own))
          /\ Exists(Own) # ReadStacks
      BY <1>1, EntryFacts
    <2> HIDE DEF Compile
    <2>2. /\ BackfillStack(s, v) \in Seq(Entries) /\ BackfillStack(s, v) # <<>>
          /\ Len(BackfillStack(s, v)) = 5
          /\ \A i \in 1..5 : BackfillStack(s, v)[i] =
               IF i = 1 THEN Exists(Own) ELSE Compile(s, v)[i - 1]
          /\ Elems(BackfillStack(s, v)) \subseteq {Exists(Own)} \cup Elems(Compile(s, v))
      BY <1>5, <2>1, PutFirst DEF BackfillStack
    <2>3. Followed(BackfillStack(s, v))
      <3> SUFFICES ASSUME NEW i \in 1..5, BackfillStack(s, v)[i].do = "exists"
                   PROVE  i < 5
        BY <2>2 DEF Followed
      <3>1. CASE i = 5
        <4>1. 4 \in 1..4 /\ Compile(s, v)[4].do = "exists"
          BY <2>2, <3>1
        <4> QED BY <1>5, <4>1 DEF Followed
      <3> QED BY <3>1
    <2> QED BY <1>5, <2>1, <2>2, <2>3 DEF Neutral
  <1> QED BY <1>3, <1>4, <1>5, <1>6

-----------------------------------------------------------------------------
(* A writer moves on *)

OthersWait(w) ==
  \A v \in Writers \ {w} :
    at'[v] = at[v] /\ todo'[v] = todo[v] /\ ids'[v] = ids[v]

LEMMA TypeFacts ==
  ASSUME Types
  PROVE  /\ at \in [Writers -> Places] /\ todo \in [Writers -> Seq(Entries)]
         /\ ids \in [Writers -> [Names -> 0..rows]]
         /\ rows \in Nat /\ rows <= MaxRows /\ MaxRows \in Nat
         /\ stacks \in Nat /\ stacks <= MaxStacks /\ MaxStacks \in Nat
         /\ svcs \in Nat /\ svcs <= MaxServices /\ MaxServices \in Nat
         /\ stack \in 0..MaxStacks /\ svc \in 0..MaxServices
         /\ members \in [Members -> Nat] /\ DOMAIN members = Members
         /\ net \in [Names -> [id : 0..rows, stackId : 0..stacks, right : BOOLEAN]]
  BY BoundsAssumption DEF Types, TypeOK, Members

LEMMA GoesFacts ==
  ASSUME Types, NEW w \in Writers, NEW place \in Places, Goes(w, place)
  PROVE  /\ at' \in [Writers -> Places] /\ at'[w] = place
         /\ UNCHANGED <<todo, ids>> /\ OthersWait(w)
  BY TypeFacts DEF Goes, OthersWait

\* The entry a writer is at
LEMMA NowFacts ==
  ASSUME Types, NEW w \in Writers, todo[w] # <<>>
  PROVE  /\ Now(w) \in Entries /\ Now(w) \in Elems(todo[w])
         /\ Now(w).name \in Names /\ Now(w).who \in 0..MaxServices
         /\ Now(w).stackId \in 0..MaxStacks /\ Now(w).do \in Does
         /\ Now(w).name = Shared => Now(w).stackId = 0
         /\ Row(w) \in 0..rows
  <1>1. todo[w] \in Seq(Entries)
    BY TypeFacts
  <1>2. Now(w) \in Entries /\ Now(w) \in Elems(todo[w])
    BY <1>1, TailFacts DEF Now
  <1>3. /\ Now(w).name \in Names /\ Now(w).who \in 0..MaxServices
        /\ Now(w).stackId \in 0..MaxStacks /\ Now(w).do \in Does
        /\ Now(w).name = Shared => Now(w).stackId = 0
    BY <1>2 DEF Entries
  <1> QED BY <1>2, <1>3, TypeFacts DEF Row

LEMMA AdvanceFacts ==
  ASSUME Types, NEW w \in Writers, todo[w] # <<>>, NEW list \in Seq(Entries),
         rows' \in Nat, rows <= rows', NEW id \in 0..rows', Advance(w, id, list)
  PROVE  /\ at' \in [Writers -> Places] /\ todo' \in [Writers -> Seq(Entries)]
         /\ ids' \in [Writers -> [Names -> 0..rows']]
         /\ OthersWait(w) /\ todo'[w] = list
         /\ at'[w] = IF list = <<>> THEN "idle" ELSE "next"
  <1>1. \A i \in 0..rows : i \in 0..rows'
    BY TypeFacts
  <1>2. ids \in [Writers -> [Names -> 0..rows']]
    BY <1>1, TypeFacts
  <1>3. CASE list = <<>>
    <2>1. /\ at' = [at EXCEPT ![w] = "idle"] /\ todo' = [todo EXCEPT ![w] = <<>>]
          /\ ids' = [ids EXCEPT ![w] = NoIds]
      BY <1>3 DEF Advance, Finishes
    <2>2. NoIds \in [Names -> 0..rows'] /\ "idle" \in Places
      BY DEF NoIds, Places
    <2> QED BY <1>2, <1>3, <2>1, <2>2, TypeFacts DEF OthersWait
  <1>4. CASE list # <<>>
    <2>1. /\ at' = [at EXCEPT ![w] = "next"] /\ todo' = [todo EXCEPT ![w] = list]
          /\ ids' = [ids EXCEPT ![w][Now(w).name] = IF id = 0 THEN @ ELSE id]
      BY <1>4 DEF Advance
    <2>2. at' \in [Writers -> Places] /\ todo' \in [Writers -> Seq(Entries)]
      BY <2>1, TypeFacts DEF Places
    <2>3. ids' \in [Writers -> [Names -> 0..rows']]
      <3>1. CASE id = 0
        BY <1>2, <2>1, <3>1, NowFacts
      <3>2. CASE id # 0
        BY <1>2, <2>1, <3>2, NowFacts
      <3> QED BY <3>1, <3>2
    <2> QED BY <1>4, <2>1, <2>2, <2>3, TypeFacts DEF OthersWait
  <1> QED BY <1>3, <1>4

LEMMA FinishesFacts ==
  ASSUME Types, NEW w \in Writers, rows' = rows, Finishes(w)
  PROVE  /\ at' \in [Writers -> Places] /\ todo' \in [Writers -> Seq(Entries)]
         /\ ids' \in [Writers -> [Names -> 0..rows']]
         /\ OthersWait(w) /\ todo'[w] = <<>> /\ at'[w] = "idle"
  <1>1. NoIds \in [Names -> 0..rows'] /\ "idle" \in Places
    BY TypeFacts DEF NoIds, Places
  <1> QED BY <1>1, TypeFacts DEF Finishes, OthersWait

-----------------------------------------------------------------------------
(* The mutexes *)

LEMMA KeyFacts ==
  ASSUME Types, NEW w \in Writers, todo[w] # <<>>,
         Now(w).do = "member" => Row(w) # 0
  PROVE  KeyOf(w) \in Keys
  <1>1. /\ Now(w).name \in Names /\ Now(w).who \in 0..MaxServices
        /\ Row(w) \in 0..rows
    BY NowFacts
  <1>2. Now(w).do = "member" => Row(w) \in 1..MaxRows
    BY <1>1, TypeFacts
  <1> QED BY <1>1, <1>2 DEF KeyOf, Keys

LEMMA JoinFacts ==
  ASSUME line \in [Keys -> Seq(Writers)], OneSpot,
         NEW k \in Keys, NEW w \in Writers, Mutex!Join(k, w)
  PROVE  /\ line' \in [Keys -> Seq(Writers)] /\ OneSpot'
         /\ \A j \in Keys : line[j] # <<>> =>
              line'[j] # <<>> /\ Head(line'[j]) = Head(line[j])
         /\ \A j \in Keys : \A i \in 1..Len(line[j]) :
              i \in 1..Len(line'[j]) /\ line'[j][i] = line[j][i]
         /\ \E i \in 1..Len(line'[k]) : line'[k][i] = w
  <1>1. /\ line' = [line EXCEPT ![k] = Append(line[k], w)]
        /\ \A j \in Keys : \A i \in DOMAIN line[j] : line[j][i] # w
    BY DEF Mutex!Join, Mutex!InLine
  <1>2. /\ \A j \in Keys \ {k} : line'[j] = line[j]
        /\ line'[k] = Append(line[k], w)
        /\ line' \in [Keys -> Seq(Writers)]
    BY <1>1
  <1>3. \A j \in Keys : line[j] \in Seq(Writers) /\ Len(line[j]) \in Nat
    OBVIOUS
  <1>4. /\ Len(line'[k]) = Len(line[k]) + 1 /\ line'[k][Len(line[k]) + 1] = w
        /\ \A i \in 1..Len(line[k]) : line'[k][i] = line[k][i]
    BY <1>2, <1>3
  <1>5. ASSUME NEW j \in Keys, NEW i \in 1..Len(line'[j])
        PROVE  \/ i \in 1..Len(line[j]) /\ line'[j][i] = line[j][i]
               \/ j = k /\ i = Len(line[k]) + 1 /\ line'[j][i] = w
    <2>1. CASE j # k
      BY <1>2, <2>1
    <2>2. CASE j = k
      <3>1. i \in 1..Len(line[k]) \/ i = Len(line[k]) + 1
        BY <1>3, <1>4, <2>2
      <3> QED BY <1>4, <2>2, <3>1
    <2> QED BY <2>1, <2>2
  <1>6. \A j \in Keys : \A i \in 1..Len(line[j]) : line[j][i] # w
    BY <1>1, <1>3
  <1>7. OneSpot'
    <2> SUFFICES ASSUME NEW j \in Keys, NEW l \in Keys,
                        NEW a \in 1..Len(line'[j]), NEW b \in 1..Len(line'[l]),
                        line'[j][a] = line'[l][b]
                 PROVE  j = l /\ a = b
      BY DEF OneSpot
    <2>1. CASE a \in 1..Len(line[j]) /\ line'[j][a] = line[j][a]
      <3>1. CASE b \in 1..Len(line[l]) /\ line'[l][b] = line[l][b]
        <4>1. line[j][a] = line[l][b]
          BY <2>1, <3>1
        <4> QED BY <2>1, <3>1, <4>1 DEF OneSpot
      <3>2. CASE line'[l][b] = w
        BY <1>6, <2>1, <3>2
      <3> QED BY <1>5, <3>1, <3>2
    <2>2. CASE j = k /\ a = Len(line[k]) + 1 /\ line'[j][a] = w
      BY <1>5, <1>6, <2>2
    <2> QED BY <1>5, <2>1, <2>2
  <1>8. \A j \in Keys : \A i \in 1..Len(line[j]) :
          i \in 1..Len(line'[j]) /\ line'[j][i] = line[j][i]
    <2> TAKE j \in Keys
    <2> TAKE i \in 1..Len(line[j])
    <2>1. CASE j = k
      BY <1>3, <1>4, <2>1
    <2>2. CASE j # k
      BY <1>2, <2>2
    <2> QED BY <2>1, <2>2
  <1>9. \A j \in Keys : line[j] # <<>> =>
          line'[j] # <<>> /\ Head(line'[j]) = Head(line[j])
    <2> TAKE j \in Keys
    <2> HAVE line[j] # <<>>
    <2>1. CASE j = k
      <3>1. line[k] \in Seq(Writers) /\ line[k] # <<>>
        BY <1>3, <2>1
      <3> QED BY <1>2, <2>1, <3>1
    <2>2. CASE j # k
      BY <1>2, <2>2
    <2> QED BY <2>1, <2>2
  <1>10. \E i \in 1..Len(line'[k]) : line'[k][i] = w
    BY <1>3, <1>4
  <1> QED BY <1>2, <1>7, <1>8, <1>9, <1>10

LEMMA LeaveFacts ==
  ASSUME line \in [Keys -> Seq(Writers)], OneSpot,
         NEW k \in Keys, NEW w \in Writers, Mutex!Leave(k, w)
  PROVE  /\ line' \in [Keys -> Seq(Writers)] /\ OneSpot'
         /\ line[k] # <<>> /\ Head(line[k]) = w /\ line[k][1] = w
         /\ \A j \in Keys \ {k} : line'[j] = line[j]
         /\ \A i \in 1..Len(line[k]) : i # 1 =>
              i - 1 \in 1..Len(line'[k]) /\ line'[k][i - 1] = line[k][i]
  <1>1. /\ line[k] # <<>> /\ Head(line[k]) = w
        /\ line' = [line EXCEPT ![k] = Tail(line[k])]
    BY DEF Mutex!Leave
  <1>2. /\ line[k] \in Seq(Writers) /\ Len(line[k]) \in Nat
        /\ Tail(line[k]) \in Seq(Writers) /\ Len(Tail(line[k])) = Len(line[k]) - 1
        /\ Head(line[k]) = line[k][1]
        /\ \A i \in 1..Len(Tail(line[k])) : Tail(line[k])[i] = line[k][i + 1]
    BY <1>1, TailFacts
  <1>3. /\ \A j \in Keys \ {k} : line'[j] = line[j]
        /\ line'[k] = Tail(line[k])
        /\ line' \in [Keys -> Seq(Writers)]
    BY <1>1, <1>2
  <1>4. OneSpot'
    <2> SUFFICES ASSUME NEW j \in Keys, NEW l \in Keys,
                        NEW a \in 1..Len(line'[j]), NEW b \in 1..Len(line'[l]),
                        line'[j][a] = line'[l][b]
                 PROVE  j = l /\ a = b
      BY DEF OneSpot
    <2>1. ASSUME NEW i \in Keys, NEW c \in 1..Len(line'[i])
          PROVE  \E d \in 1..Len(line[i]) :
                   /\ line'[i][c] = line[i][d]
                   /\ d = IF i = k THEN c + 1 ELSE c
      <3>1. CASE i = k
        <4>1. c + 1 \in 1..Len(line[k])
          BY <1>2, <1>3, <3>1
        <4> QED BY <1>2, <1>3, <3>1, <4>1
      <3>2. CASE i # k
        BY <1>3, <3>2
      <3> QED BY <3>1, <3>2
    <2>2. PICK d \in 1..Len(line[j]) :
            line'[j][a] = line[j][d] /\ d = IF j = k THEN a + 1 ELSE a
      BY <2>1
    <2>3. PICK e \in 1..Len(line[l]) :
            line'[l][b] = line[l][e] /\ e = IF l = k THEN b + 1 ELSE b
      BY <2>1
    <2>4. j = l /\ d = e
      <3>1. line[j][d] = line[l][e]
        BY <2>2, <2>3
      <3> QED BY <3>1 DEF OneSpot
    <2>5. a \in Nat /\ b \in Nat
      OBVIOUS
    <2> QED BY <2>2, <2>3, <2>4, <2>5
  <1>5. \A i \in 1..Len(line[k]) : i # 1 =>
          i - 1 \in 1..Len(line'[k]) /\ line'[k][i - 1] = line[k][i]
    <2> TAKE i \in 1..Len(line[k])
    <2> HAVE i # 1
    <2>1. i - 1 \in 1..Len(Tail(line[k])) /\ (i - 1) + 1 = i
      BY <1>2
    <2> QED BY <1>2, <1>3, <2>1
  <1> QED BY <1>1, <1>2, <1>3, <1>4, <1>5

LEMMA SameEntry ==
  ASSUME NEW w \in Writers, todo'[w] = todo[w], ids'[w] = ids[w]
  PROVE  /\ Now(w)' = Now(w) /\ Row(w)' = Row(w) /\ KeyOf(w)' = KeyOf(w)
         /\ Membership(w)' = Membership(w)
  BY DEF Now, Row, KeyOf, Membership

\* Who waits or is inside does so under a key.
LEMMA KeyOfWaiting ==
  ASSUME Types, Fits, NEW w \in Writers, at[w] \in {"queued"} \cup Held
  PROVE  KeyOf(w) \in Keys /\ todo[w] # <<>>
  <1>1. at[w] \notin {"idle"} \cup Ending
    BY DEF Held, MemberPlaces, NamePlaces, Ending
  <1>2. todo[w] # <<>> /\ (Now(w).do = "member" => Row(w) # 0)
    BY <1>1 DEF Fits
  <1> QED BY <1>2, KeyFacts

\* What a step of a writer may do to the mutexes
LEMMA LockKeeps ==
  ASSUME Types, Fits, Lock, NEW w \in Writers, OthersWait(w),
         \/ /\ UNCHANGED line /\ at'[w] # "queued"
            /\ at'[w] \in Held =>
                 at[w] \in Held /\ todo'[w] = todo[w] /\ ids'[w] = ids[w]
         \/ /\ KeyOf(w) \in Keys /\ Mutex!Join(KeyOf(w), w)
            /\ at'[w] = "queued" /\ todo'[w] = todo[w] /\ ids'[w] = ids[w]
         \/ /\ Holds(w) /\ at[w] = "queued" /\ at'[w] \in Held
            /\ todo'[w] = todo[w] /\ ids'[w] = ids[w]
         \/ /\ Frees(w) /\ at'[w] \notin {"queued"} \cup Held
  PROVE  Lock' /\ line' \in [Keys -> Seq(Writers)]
  <1> USE DEF Lock
  <1> DEFINE Kept(v) ==
        /\ at[v] = "queued" =>
             \E i \in 1..Len(line'[KeyOf(v)]) : line'[KeyOf(v)][i] = v
        /\ at[v] \in Held =>
             line'[KeyOf(v)] # <<>> /\ Head(line'[KeyOf(v)]) = v
  <1>1. line \in [Keys -> Seq(Writers)] /\ "queued" \notin Held
    BY DEF Types, Held, MemberPlaces, NamePlaces
  <1>2. ASSUME NEW v \in Writers \ {w}, Kept(v)
        PROVE  /\ at'[v] = "queued" =>
                    \E i \in 1..Len(line'[KeyOf(v)']) : line'[KeyOf(v)'][i] = v
               /\ at'[v] \in Held =>
                    line'[KeyOf(v)'] # <<>> /\ Head(line'[KeyOf(v)']) = v
    <2>1. at'[v] = at[v] /\ KeyOf(v)' = KeyOf(v)
      BY SameEntry DEF OthersWait
    <2> QED BY <1>2, <2>1
  <1>3. CASE /\ UNCHANGED line /\ at'[w] # "queued"
             /\ at'[w] \in Held =>
                  at[w] \in Held /\ todo'[w] = todo[w] /\ ids'[w] = ids[w]
    <2>1. \A v \in Writers : Kept(v)
      BY <1>3 DEF InTurn
    <2>2. at'[w] \in Held =>
            line'[KeyOf(w)'] # <<>> /\ Head(line'[KeyOf(w)']) = w
      BY <1>3, <2>1, SameEntry
    <2>3. InTurn'
      BY <1>2, <1>3, <2>1, <2>2 DEF InTurn
    <2> QED BY <1>1, <1>3, <2>3 DEF OneSpot
  <1>4. CASE /\ KeyOf(w) \in Keys /\ Mutex!Join(KeyOf(w), w)
             /\ at'[w] = "queued" /\ todo'[w] = todo[w] /\ ids'[w] = ids[w]
    <2>1. /\ line' \in [Keys -> Seq(Writers)] /\ OneSpot'
          /\ \A j \in Keys : line[j] # <<>> =>
               line'[j] # <<>> /\ Head(line'[j]) = Head(line[j])
          /\ \A j \in Keys : \A i \in 1..Len(line[j]) :
               i \in 1..Len(line'[j]) /\ line'[j][i] = line[j][i]
          /\ \E i \in 1..Len(line'[KeyOf(w)]) : line'[KeyOf(w)][i] = w
      BY <1>1, <1>4, JoinFacts
    <2>2. ASSUME NEW v \in Writers \ {w}
          PROVE  Kept(v)
      <3>1. ASSUME at[v] = "queued"
            PROVE  \E i \in 1..Len(line'[KeyOf(v)]) : line'[KeyOf(v)][i] = v
        <4>1. PICK i \in 1..Len(line[KeyOf(v)]) : line[KeyOf(v)][i] = v
          BY <3>1 DEF InTurn
        <4>2. KeyOf(v) \in Keys
          BY <3>1, KeyOfWaiting
        <4> QED BY <2>1, <4>1, <4>2
      <3>2. ASSUME at[v] \in Held
            PROVE  line'[KeyOf(v)] # <<>> /\ Head(line'[KeyOf(v)]) = v
        BY <2>1, <3>2, KeyOfWaiting DEF InTurn
      <3> QED BY <3>1, <3>2
    <2>3. InTurn'
      <3>1. /\ at'[w] = "queued" /\ at'[w] \notin Held
            /\ \E i \in 1..Len(line'[KeyOf(w)']) : line'[KeyOf(w)'][i] = w
        BY <1>1, <1>4, <2>1, SameEntry
      <3>2. ASSUME NEW v \in Writers \ {w}
            PROVE  /\ at'[v] = "queued" =>
                        \E i \in 1..Len(line'[KeyOf(v)']) : line'[KeyOf(v)'][i] = v
                   /\ at'[v] \in Held =>
                        line'[KeyOf(v)'] # <<>> /\ Head(line'[KeyOf(v)']) = v
        BY <1>2, <2>2
      <3> HIDE DEF Kept
      <3> QED BY <3>1, <3>2 DEF InTurn
    <2> QED BY <2>1, <2>3
  <1>5. CASE /\ Holds(w) /\ at[w] = "queued" /\ at'[w] \in Held
             /\ todo'[w] = todo[w] /\ ids'[w] = ids[w]
    <2>1. PICK k \in Keys : Mutex!Enter(k, w)
      BY <1>5 DEF Holds
    <2>2. line[k] # <<>> /\ Head(line[k]) = w /\ UNCHANGED line
      BY <2>1 DEF Mutex!Enter
    <2>3. KeyOf(w) \in Keys
      BY <1>5, KeyOfWaiting
    <2>4. PICK i \in 1..Len(line[KeyOf(w)]) : line[KeyOf(w)][i] = w
      BY <1>5 DEF InTurn
    <2>5. line[k][1] = w /\ 1 \in 1..Len(line[k])
      BY <1>1, <2>2, TailFacts
    <2>6. k = KeyOf(w)
      BY <2>3, <2>4, <2>5 DEF OneSpot
    <2>7. \A v \in Writers : Kept(v)
      BY <2>2 DEF InTurn
    <2>8. line'[KeyOf(w)'] # <<>> /\ Head(line'[KeyOf(w)']) = w
      BY <1>5, <2>2, <2>6, SameEntry
    <2>9. InTurn'
      BY <1>1, <1>2, <1>5, <2>7, <2>8 DEF InTurn
    <2> QED BY <1>1, <2>2, <2>9 DEF OneSpot
  <1>6. CASE Frees(w) /\ at'[w] \notin {"queued"} \cup Held
    <2>1. PICK k \in Keys : Mutex!Leave(k, w)
      BY <1>6 DEF Frees
    <2>2. /\ line' \in [Keys -> Seq(Writers)] /\ OneSpot'
          /\ line[k] # <<>> /\ Head(line[k]) = w /\ line[k][1] = w
          /\ \A j \in Keys \ {k} : line'[j] = line[j]
          /\ \A i \in 1..Len(line[k]) : i # 1 =>
               i - 1 \in 1..Len(line'[k]) /\ line'[k][i - 1] = line[k][i]
      BY <1>1, <2>1, LeaveFacts
    <2>3. ASSUME NEW v \in Writers \ {w}
          PROVE  Kept(v)
      <3>1. ASSUME at[v] = "queued"
            PROVE  \E i \in 1..Len(line'[KeyOf(v)]) : line'[KeyOf(v)][i] = v
        <4>1. PICK i \in 1..Len(line[KeyOf(v)]) : line[KeyOf(v)][i] = v
          BY <3>1 DEF InTurn
        <4>2. KeyOf(v) \in Keys
          BY <3>1, KeyOfWaiting
        <4>3. CASE KeyOf(v) = k
          <5>1. i # 1
            BY <2>2, <4>1, <4>3
          <5> QED BY <2>2, <4>1, <4>3, <5>1
        <4> QED BY <2>2, <4>1, <4>2, <4>3
      <3>2. ASSUME at[v] \in Held
            PROVE  line'[KeyOf(v)] # <<>> /\ Head(line'[KeyOf(v)]) = v
        <4>1. line[KeyOf(v)] # <<>> /\ Head(line[KeyOf(v)]) = v
          BY <3>2 DEF InTurn
        <4>2. KeyOf(v) \in Keys \ {k}
          BY <2>2, <3>2, <4>1, KeyOfWaiting
        <4> QED BY <2>2, <4>1, <4>2
      <3> QED BY <3>1, <3>2
    <2>4. InTurn'
      BY <1>2, <1>6, <2>3 DEF InTurn
    <2> QED BY <2>2, <2>4
  <1> QED BY <1>3, <1>4, <1>5, <1>6

\* Two writers are never inside under one key.
LEMMA Exclusive ==
  ASSUME InTurn, NEW v \in Writers, NEW w \in Writers,
         at[v] \in Held, at[w] \in Held, KeyOf(v) = KeyOf(w)
  PROVE  v = w
  BY DEF InTurn

-----------------------------------------------------------------------------
(* A turn of one writer *)

Turned(w) ==
  /\ at' \in [Writers -> Places] /\ todo' \in [Writers -> Seq(Entries)]
  /\ ids' \in [Writers -> [Names -> 0..rows']]
  /\ OthersWait(w) /\ at[w] \notin Ending /\ at'[w] \notin Ending
  /\ Fits'

\* What it has to do now it had before, or is about no stack.
Comes(w) ==
  /\ \A e \in Elems(todo'[w]) : e \in Elems(todo[w]) \/ Neutral(e)
  /\ ReadStacks \in Elems(todo'[w]) =>
       ReadStacks \in Elems(todo[w]) \/ todo[w] = <<>>

LEMMA FitsKeeps ==
  ASSUME Types, Fits, NEW w \in Writers, OthersWait(w), UNCHANGED <<stack, svc>>,
         at'[w] \notin Ending, at'[w] = "idle" <=> todo'[w] = <<>>,
         at'[w] \in MemberPlaces => Now(w)'.do = "member",
         at'[w] \in NamePlaces => Now(w)'.do # "member",
         at'[w] = "correct" => Now(w)'.do = "look",
         at'[w] \in {"queued"} \cup Held /\ Now(w)'.do = "member" => Row(w)' # 0,
         Followed(todo'[w])
  PROVE  Fits'
  <1>1. at'["apply"] \in Ending => stack' # 0
    BY DEF OthersWait, Fits, Writers
  <1>2. ASSUME NEW v \in Writers \ {w}
        PROVE  /\ at'[v] = at[v] /\ todo'[v] = todo[v] /\ Now(v)' = Now(v)
               /\ Row(v)' = Row(v)
    BY SameEntry DEF OthersWait
  <1>3. ASSUME NEW v \in Writers
        PROVE  /\ at'[v] \in {"idle"} \cup Ending <=> todo'[v] = <<>>
               /\ at'[v] \in Ending => v = "apply"
               /\ at'[v] \in MemberPlaces => Now(v)'.do = "member"
               /\ at'[v] \in NamePlaces => Now(v)'.do # "member"
               /\ at'[v] = "correct" => Now(v)'.do = "look"
               /\ at'[v] \in {"queued"} \cup Held /\ Now(v)'.do = "member" =>
                    Row(v)' # 0
               /\ \A i \in 1..Len(todo'[v]) :
                    todo'[v][i].do = "exists" => i < Len(todo'[v])
    <2>1. CASE v = w
      BY <2>1 DEF Followed
    <2>2. CASE v # w
      BY <1>2, <2>2 DEF Fits
    <2> QED BY <2>1, <2>2
  <1> QED BY <1>1, <1>3 DEF Fits

\* It goes elsewhere with the same entry.
LEMMA GoesTurned ==
  ASSUME Types, Fits, NEW w \in Writers, todo[w] # <<>>, UNCHANGED <<stack, svc, rows>>,
         NEW place \in Places \ ({"idle"} \cup Ending), Goes(w, place),
         place \in MemberPlaces => Now(w).do = "member",
         place \in NamePlaces => Now(w).do # "member",
         place = "correct" => Now(w).do = "look",
         place \in {"queued"} \cup Held /\ Now(w).do = "member" => Row(w) # 0
  PROVE  /\ Turned(w) /\ Comes(w) /\ UNCHANGED <<todo, ids>>
         /\ at'[w] = place
  <1>1. /\ at' \in [Writers -> Places] /\ at'[w] = place
        /\ UNCHANGED <<todo, ids>> /\ OthersWait(w)
    BY GoesFacts
  <1>2. Now(w)' = Now(w) /\ Row(w)' = Row(w)
    BY <1>1, SameEntry
  <1>3. Followed(todo'[w]) /\ at[w] \notin Ending
    BY <1>1 DEF Fits, Followed
  <1>4. Fits'
    BY <1>1, <1>2, <1>3, FitsKeeps
  <1> QED BY <1>1, <1>3, <1>4, TypeFacts DEF Turned, Comes

\* It goes on with a list, and remembers a row.
LEMMA AdvanceTurned ==
  ASSUME Types, Fits, NEW w \in Writers, todo[w] # <<>>, UNCHANGED <<stack, svc>>,
         rows' \in Nat, rows <= rows', NEW id \in 0..rows',
         NEW list \in Seq(Entries), Followed(list), Advance(w, id, list)
  PROVE  /\ Turned(w) /\ todo'[w] = list
         /\ at'[w] \in {"idle", "next"}
  <1>1. /\ at' \in [Writers -> Places] /\ todo' \in [Writers -> Seq(Entries)]
        /\ ids' \in [Writers -> [Names -> 0..rows']]
        /\ OthersWait(w) /\ todo'[w] = list
        /\ at'[w] = IF list = <<>> THEN "idle" ELSE "next"
    BY AdvanceFacts
  <1>2. /\ at'[w] \in {"idle", "next"} /\ at[w] \notin Ending
        /\ at'[w] \notin {"queued"} \cup Held \cup Ending
    BY <1>1 DEF Fits, Held, MemberPlaces, NamePlaces, Ending
  <1>3. Fits'
    BY <1>1, <1>2, FitsKeeps DEF Held
  <1> QED BY <1>1, <1>2, <1>3 DEF Turned

\* Done with its first entry
LEMMA MovesOnTurned ==
  ASSUME Types, Fits, NEW w \in Writers, todo[w] # <<>>, UNCHANGED <<stack, svc>>,
         rows' \in Nat, rows <= rows', NEW id \in 0..rows', MovesOn(w, id)
  PROVE  /\ Turned(w) /\ Comes(w) /\ todo'[w] = Tail(todo[w])
         /\ at'[w] \in {"idle", "next"}
  <1>1. todo[w] \in Seq(Entries)
    BY TypeFacts
  <1>2. /\ Tail(todo[w]) \in Seq(Entries) /\ Len(todo[w]) \in Nat
        /\ Len(Tail(todo[w])) = Len(todo[w]) - 1
        /\ Elems(Tail(todo[w])) \subseteq Elems(todo[w])
        /\ \A i \in 1..Len(Tail(todo[w])) : Tail(todo[w])[i] = todo[w][i + 1]
    BY <1>1, TailFacts
  <1>3. Followed(Tail(todo[w]))
    <2> SUFFICES ASSUME NEW i \in 1..Len(Tail(todo[w])),
                        Tail(todo[w])[i].do = "exists"
                 PROVE  i < Len(Tail(todo[w]))
      BY DEF Followed
    <2>1. i + 1 \in 1..Len(todo[w])
      BY <1>2
    <2>2. i + 1 < Len(todo[w])
      BY <1>2, <2>1 DEF Fits
    <2> QED BY <1>2, <2>2
  <1>4. /\ Turned(w) /\ todo'[w] = Tail(todo[w])
        /\ at'[w] \in {"idle", "next"}
    BY <1>2, <1>3, AdvanceTurned DEF MovesOn
  <1> QED BY <1>2, <1>4 DEF Comes

\* Done with all of them
LEMMA FinishesTurned ==
  ASSUME Types, Fits, NEW w \in Writers, todo[w] # <<>>, UNCHANGED <<stack, svc, rows>>,
         Finishes(w)
  PROVE  /\ Turned(w) /\ Comes(w) /\ at'[w] = "idle"
  <1>1. /\ at' \in [Writers -> Places] /\ todo' \in [Writers -> Seq(Entries)]
        /\ ids' \in [Writers -> [Names -> 0..rows']]
        /\ OthersWait(w) /\ todo'[w] = <<>> /\ at'[w] = "idle"
    BY FinishesFacts
  <1>2. /\ at'[w] \notin {"queued"} \cup Held \cup Ending /\ at[w] \notin Ending
    BY <1>1 DEF Fits, Held, MemberPlaces, NamePlaces, Ending
  <1>3. Followed(<<>>) /\ Elems(<<>>) = {}
    BY DEF Followed, Elems
  <1>4. Fits'
    BY <1>1, <1>2, <1>3, FitsKeeps DEF Held
  <1> QED BY <1>1, <1>2, <1>3, <1>4 DEF Turned, Comes

\* It begins.
LEMMA BeginTurned ==
  ASSUME Types, Fits, NEW w \in Writers, UNCHANGED <<stack, svc, rows>>,
         NEW list \in Seq(Entries), list # <<>>, Followed(list), Begin(w, list)
  PROVE  /\ Turned(w) /\ todo'[w] = list /\ todo[w] = <<>>
         /\ at'[w] = "next"
  <1>1. /\ at' \in [Writers -> Places] /\ todo' \in [Writers -> Seq(Entries)]
        /\ ids' \in [Writers -> [Names -> 0..rows']]
        /\ OthersWait(w) /\ todo'[w] = list /\ at'[w] = "next" /\ at[w] = "idle"
    BY TypeFacts DEF Begin, Places, OthersWait
  <1>2. /\ at'[w] \notin {"queued"} \cup Held \cup Ending /\ at[w] \notin Ending
        /\ todo[w] = <<>>
    BY <1>1 DEF Fits, Held, MemberPlaces, NamePlaces, Ending
  <1>3. Fits'
    BY <1>1, <1>2, FitsKeeps DEF Held
  <1> QED BY <1>1, <1>2, <1>3 DEF Turned

-----------------------------------------------------------------------------
(* What a turn does to the invariant's parts *)

\* A writer changes nothing of the stacks' life, but for the network in Docker.
Lives ==
  /\ UNCHANGED <<stacks, stack, svcs, svc, replaced, deleted>>
  /\ docked' \in BOOLEAN

LEMMA LifeSame ==
  ASSUME Types, UNCHANGED life
  PROVE  Lives /\ UNCHANGED <<stack, svc>>
  BY DEF life, Lives, Types, TypeOK

LEMMA EndingSame ==
  ASSUME NEW w \in Writers, Turned(w)
  PROVE  at'["apply"] # at["apply"] => at["apply"] \notin Ending /\ at'["apply"] \notin Ending
  BY DEF Turned, OthersWait, Writers

LEMMA ListsKeep ==
  ASSUME Types, Lists, NEW w \in Writers, Turned(w), Lives,
         \/ Comes(w)
         \/ /\ w # "self" /\ (BackfillAlone => at["apply"] \notin Ending)
            /\ \A e \in Elems(todo'[w]) :
                 e.stackId \in {0, stack} /\ e.who \in {Self, svc} /\ e # ReadStacks
  PROVE  Lists'
  <1> USE DEF Lists
  <1>1. /\ UNCHANGED <<stacks, stack, svcs, svc, replaced, deleted>>
        /\ svcs \in Nat /\ svc <= svcs /\ Self = 0
        /\ stacks \in Nat /\ stack <= stacks
    BY DEF Lives, Self, Types, TypeOK
  <1>2. \A v \in Writers \ {w} : todo'[v] = todo[v]
    BY DEF Turned, OthersWait
  <1>3. at'["apply"] \in Ending => at["apply"] \in Ending
    BY EndingSame
  <1>4. ASSUME NEW e \in Elems(todo'[w])
        PROVE  /\ e.who <= svcs /\ e.stackId <= stacks
               /\ BackfillAlone => /\ e.stackId \in {0, stack} \cup deleted
                                   /\ e.who \in {Self, svc} \cup replaced
    BY <1>1 DEF Comes, Neutral, PastLists, LivingLists
  <1>5. ASSUME w = "self" \/ ReadStacks \in Elems(todo'[w])
                 \/ (BackfillAlone /\ at'["apply"] \in Ending)
        PROVE  \A e \in Elems(todo'[w]) : Neutral(e)
    <2>1. Comes(w)
      BY <1>3, <1>5
    <2>2. CASE todo[w] = <<>>
      <3>1. Elems(todo[w]) = {}
        BY <2>2 DEF Elems
      <3> QED BY <2>1, <3>1 DEF Comes
    <2>3. CASE todo[w] # <<>>
      <3>1. \A e \in Elems(todo[w]) : Neutral(e)
        BY <1>3, <1>5, <2>1, <2>3 DEF Comes, Unread
      <3> QED BY <2>1, <3>1 DEF Comes
    <2> QED BY <2>2, <2>3
  <1>6. PastLists'
    BY <1>1, <1>2, <1>4 DEF PastLists
  <1>7. LivingLists'
    BY <1>1, <1>2, <1>4 DEF LivingLists
  <1>8. Unread'
    BY <1>2, <1>3, <1>5 DEF Unread
  <1> QED BY <1>6, <1>7, <1>8

LEMMA WrittenKeeps ==
  ASSUME Written, NEW w \in Writers, Turned(w), Lives,
         UNCHANGED <<net, members, prune>>
  PROVE  Written'
  <1>1. UNCHANGED <<stacks, stack, svcs, svc, replaced, deleted, pruneAt, seen, alive>>
    BY DEF Lives, prune
  <1>2. at'["apply"] # at["apply"] => at'["apply"] \notin {"dropMembers", "dropStack"}
    BY EndingSame DEF Ending
  <1> QED BY <1>1, <1>2
      DEF Written, PastMembers, PastSeen, LivingRows, LivingMembers

LEMMA ClearKeeps ==
  ASSUME Clear, NEW w \in Writers, OthersWait(w), UNCHANGED <<net, members>>,
         at'[w] = "create" => net[Now(w)'.name].id = 0,
         at'[w] = "insert" => members[Membership(w)'] = 0,
         at'[w] = "correct" => net[Now(w)'.name].id # 0
  PROVE  Clear'
  <1>1. ASSUME NEW v \in Writers \ {w}
        PROVE  /\ at'[v] = at[v] /\ Now(v)' = Now(v)
               /\ Membership(v)' = Membership(v)
    BY SameEntry DEF OthersWait
  <1> QED BY <1>1 DEF Clear

LEMMA TypesKeep ==
  ASSUME Types, NEW w \in Writers, Turned(w), Lives, UNCHANGED <<db, prune>>,
         line' \in [Keys -> Seq(Writers)]
  PROVE  Types'
  <1>1. /\ UNCHANGED <<stacks, stack, svcs, svc, replaced, deleted>>
        /\ UNCHANGED <<net, members, rows, seen>> /\ docked' \in BOOLEAN
    BY DEF db, prune, Lives
  <1> QED BY <1>1 DEF Types, TypeOK, Turned

\* A turn that leaves the database alone
LEMMA QuietTurn ==
  ASSUME IInv, NEW w \in Writers, Turned(w), Lives, UNCHANGED <<db, prune>>,
         \/ Comes(w)
         \/ /\ w # "self" /\ (BackfillAlone => at["apply"] \notin Ending)
            /\ \A e \in Elems(todo'[w]) :
                 e.stackId \in {0, stack} /\ e.who \in {Self, svc} /\ e # ReadStacks,
         Lock', line' \in [Keys -> Seq(Writers)],
         at'[w] = "create" => net[Now(w)'.name].id = 0,
         at'[w] = "insert" => members[Membership(w)'] = 0,
         at'[w] = "correct" => net[Now(w)'.name].id # 0
  PROVE  IInv'
  <1> USE DEF IInv
  <1>1. UNCHANGED <<net, members, rows>> /\ OthersWait(w) /\ Fits'
    BY DEF db, Turned
  <1>2. Types'
    BY TypesKeep
  <1>3. Stored'
    <2>1. Clear'
      BY <1>1, ClearKeeps DEF Stored
    <2> QED BY <1>1, <2>1 DEF Stored, Rows, OneRowEach
  <1>4. Lists'
    BY ListsKeep
  <1>5. Written'
    BY <1>1, WrittenKeeps
  <1> QED BY <1>1, <1>2, <1>3, <1>4, <1>5

-----------------------------------------------------------------------------
(* Turns that only look *)

LEMMA Active ==
  ASSUME Fits, NEW w \in Writers, at[w] \notin {"idle"} \cup Ending
  PROVE  todo[w] # <<>>
  BY DEF Fits

LEMMA MutexSame ==
  ASSUME UNCHANGED mutex
  PROVE  UNCHANGED line
  BY DEF mutex

LEMMA RowsSame ==
  ASSUME Types, UNCHANGED db
  PROVE  /\ UNCHANGED <<net, members, rows>> /\ rows' \in Nat /\ rows <= rows'
         /\ 0 \in 0..rows'
  BY TypeFacts DEF db

LEMMA QueueKeeps ==
  ASSUME IInv, NEW w \in Writers, Queue(w)
  PROVE  IInv'
  <1> USE DEF IInv
  <1>1. /\ at[w] = "next" /\ UNCHANGED <<db, life, prune>>
        /\ Now(w).do = "member" => Row(w) # 0
        /\ Mutex!Join(KeyOf(w), w) /\ Goes(w, "queued")
    BY DEF Queue
  <1>2. todo[w] # <<>>
    BY <1>1, Active DEF Ending
  <1>3. Lives /\ UNCHANGED <<stack, svc, rows>>
    BY <1>1, LifeSame, RowsSame
  <1>4. /\ "queued" \in Places \ ({"idle"} \cup Ending)
        /\ "queued" \notin MemberPlaces \cup NamePlaces
    BY DEF Places, Ending, MemberPlaces, NamePlaces
  <1>5. Turned(w) /\ Comes(w) /\ UNCHANGED <<todo, ids>> /\ at'[w] = "queued"
    BY <1>1, <1>2, <1>3, <1>4, GoesTurned
  <1>6. Lock' /\ line' \in [Keys -> Seq(Writers)]
    BY <1>1, <1>2, <1>5, KeyFacts, LockKeeps DEF Turned
  <1> QED BY <1>1, <1>3, <1>5, <1>6, QuietTurn

LEMMA EnterKeeps ==
  ASSUME IInv, NEW w \in Writers, Enter(w)
  PROVE  IInv'
  <1> USE DEF IInv
  <1>1. /\ at[w] = "queued" /\ UNCHANGED <<db, life, prune>> /\ Holds(w)
        /\ Goes(w, CASE Now(w).do = "identity" -> "findIdentity"
                     [] Now(w).do = "member" -> "findMember"
                     [] OTHER -> "findName")
    BY DEF Enter
  <1>2. PICK place \in {"findIdentity", "findMember", "findName"} :
          Goes(w, place) /\ (place = "findMember" <=> Now(w).do = "member")
    <2>1. CASE Now(w).do = "identity"
      BY <1>1, <2>1
    <2>2. CASE Now(w).do = "member"
      BY <1>1, <2>2
    <2>3. CASE Now(w).do \notin {"identity", "member"}
      BY <1>1, <2>3
    <2> QED BY <2>1, <2>2, <2>3
  <1>3. todo[w] # <<>> /\ (Now(w).do = "member" => Row(w) # 0)
    BY <1>1, Active DEF Ending, Fits
  <1>4. Lives /\ UNCHANGED <<stack, svc, rows>>
    BY <1>1, LifeSame, RowsSame
  <1>5. /\ place \in Places \ ({"idle"} \cup Ending) /\ place \in Held
        /\ place \in MemberPlaces => place = "findMember"
        /\ place \in NamePlaces => place # "findMember"
        /\ place \notin {"create", "insert"}
    BY DEF Places, Ending, Held, MemberPlaces, NamePlaces
  <1>6. Turned(w) /\ Comes(w) /\ UNCHANGED <<todo, ids>> /\ at'[w] = place
    BY <1>2, <1>3, <1>4, <1>5, GoesTurned
  <1>7. Lock' /\ line' \in [Keys -> Seq(Writers)]
    BY <1>1, <1>5, <1>6, LockKeeps DEF Turned
  <1> QED BY <1>1, <1>4, <1>5, <1>6, <1>7, QuietTurn

\* Done with the first entry, and out of the mutex if it was inside
LEMMA QuietMoves ==
  ASSUME IInv, NEW w \in Writers, todo[w] # <<>>, UNCHANGED <<db, life, prune>>,
         \/ \E id \in 0..rows : MovesOn(w, id)
         \/ Finishes(w),
         \/ Frees(w)
         \/ UNCHANGED mutex
  PROVE  IInv'
  <1> USE DEF IInv
  <1>1. Lives /\ UNCHANGED <<stack, svc, rows>>
    BY LifeSame, RowsSame
  <1>2. Turned(w) /\ Comes(w) /\ at'[w] \in {"idle", "next"}
    <2>1. CASE Finishes(w)
      BY <1>1, <2>1, FinishesTurned
    <2>2. ASSUME NEW id \in 0..rows, MovesOn(w, id)
          PROVE  Turned(w) /\ Comes(w) /\ at'[w] \in {"idle", "next"}
      BY <1>1, <2>2, RowsSame, MovesOnTurned
    <2> QED BY <2>1, <2>2
  <1>3. at'[w] \notin {"queued"} \cup Held
    BY <1>2 DEF Held, MemberPlaces, NamePlaces
  <1>4. Lock' /\ line' \in [Keys -> Seq(Writers)]
    BY <1>2, <1>3, MutexSame, LockKeeps DEF Turned
  <1> QED BY <1>1, <1>2, <1>4, QuietTurn

\* Inside, on to another place
LEMMA QuietGoes ==
  ASSUME IInv, NEW w \in Writers, UNCHANGED <<db, life, prune, mutex>>,
         NEW place \in {"findName", "create", "update", "insert"}, Goes(w, place),
         at[w] \in Held,
         place \in MemberPlaces <=> at[w] \in MemberPlaces,
         place = "create" => net[Now(w).name].id = 0,
         place = "insert" => members[Membership(w)] = 0
  PROVE  IInv'
  <1> USE DEF IInv
  <1>1. Lives /\ UNCHANGED <<stack, svc, rows, line>>
    BY LifeSame, RowsSame, MutexSame
  <1>2. todo[w] # <<>> /\ (Now(w).do = "member" => Row(w) # 0)
    BY KeyOfWaiting DEF Fits
  <1>3. /\ place \in Places \ ({"idle"} \cup Ending) /\ place \in Held
        /\ place # "queued" /\ (place \in NamePlaces => place \notin MemberPlaces)
    BY DEF Places, Ending, Held, MemberPlaces, NamePlaces
  <1>4. /\ place \in MemberPlaces => Now(w).do = "member"
        /\ place \in NamePlaces => Now(w).do # "member"
    BY <1>3 DEF Fits, Held
  <1>5. Turned(w) /\ Comes(w) /\ UNCHANGED <<todo, ids>> /\ at'[w] = place
    BY <1>1, <1>2, <1>3, <1>4, GoesTurned
  <1>6. Lock' /\ line' \in [Keys -> Seq(Writers)]
    BY <1>1, <1>3, <1>5, LockKeeps DEF Turned
  <1>7. Now(w)' = Now(w) /\ Membership(w)' = Membership(w)
    BY <1>5, SameEntry
  <1> QED BY <1>1, <1>5, <1>6, <1>7, QuietTurn

LEMMA LooksKeep ==
  ASSUME IInv, NEW w \in Writers,
         \/ SkipMember(w) \/ FindIdentity(w) \/ FindName(w) \/ FindMember(w)
         \/ UpdateMember(w)
  PROVE  IInv'
  <1> USE DEF IInv
  <1>1. at[w] \notin {"idle"} \cup Ending /\ UNCHANGED <<db, life, prune>>
    BY DEF SkipMember, FindIdentity, FindName, FindMember, UpdateMember, Ending
  <1>2. todo[w] # <<>>
    BY <1>1, Active
  <1>3. net[Now(w).name].id \in 0..rows /\ 0 \in 0..rows
    BY <1>2, NowFacts, TypeFacts
  <1>4. CASE SkipMember(w)
    BY <1>1, <1>2, <1>3, <1>4, QuietMoves DEF SkipMember
  <1>5. CASE FindIdentity(w)
    <2>1. CASE MovesOn(w, net[Now(w).name].id) /\ Frees(w)
      BY <1>1, <1>2, <1>3, <2>1, QuietMoves
    <2>2. CASE Goes(w, "findName") /\ UNCHANGED mutex
      BY <1>1, <1>5, <2>2, QuietGoes
      DEF FindIdentity, Held, MemberPlaces, NamePlaces
    <2> QED BY <1>5, <2>1, <2>2 DEF FindIdentity
  <1>6. CASE FindName(w)
    <2>1. CASE MovesOn(w, net[Now(w).name].id) /\ Frees(w)
      BY <1>1, <1>2, <1>3, <2>1, QuietMoves
    <2>2. CASE net[Now(w).name].id = 0 /\ Goes(w, "create") /\ UNCHANGED mutex
      BY <1>1, <1>6, <2>2, QuietGoes
      DEF FindName, Held, MemberPlaces, NamePlaces
    <2> QED BY <1>6, <2>1, <2>2 DEF FindName
  <1>7. CASE FindMember(w)
    <2>1. CASE MovesOn(w, 0) /\ Frees(w)
      BY <1>1, <1>2, <1>3, <2>1, QuietMoves
    <2>2. CASE Goes(w, "update") /\ UNCHANGED mutex
      BY <1>1, <1>7, <2>2, QuietGoes
      DEF FindMember, Held, MemberPlaces, NamePlaces
    <2>3. CASE members[Membership(w)] = 0 /\ Goes(w, "insert") /\ UNCHANGED mutex
      BY <1>1, <1>7, <2>3, QuietGoes
      DEF FindMember, Held, MemberPlaces, NamePlaces
    <2> QED BY <1>7, <2>1, <2>2, <2>3 DEF FindMember
  <1>8. CASE UpdateMember(w)
    <2>1. CASE MovesOn(w, 0) /\ Frees(w)
      BY <1>1, <1>2, <1>3, <2>1, QuietMoves
    <2>2. CASE Throws(w)
      BY <1>1, <1>2, <2>2, QuietMoves DEF Throws
    <2> QED BY <1>8, <2>1, <2>2 DEF UpdateMember
  <1> QED BY <1>4, <1>5, <1>6, <1>7, <1>8

-----------------------------------------------------------------------------
(* Turns that begin a list, or put something into it *)

LEMMA BeginKeeps ==
  ASSUME IInv, NEW w \in Writers, NEW list \in Seq(Entries), list # <<>>,
         Followed(list), Begin(w, list), Lives, UNCHANGED <<db, prune, mutex>>,
         \/ \A e \in Elems(list) : Neutral(e)
         \/ /\ w = "apply"
            /\ \A e \in Elems(list) :
                 e.stackId \in {0, stack} /\ e.who \in {Self, svc} /\ e # ReadStacks
  PROVE  IInv'
  <1> USE DEF IInv
  <1>1. UNCHANGED <<stack, svc, rows, line>>
    BY RowsSame, MutexSame DEF Lives
  <1>2. Turned(w) /\ todo'[w] = list /\ todo[w] = <<>> /\ at'[w] = "next"
    BY <1>1, BeginTurned
  <1>3. at'[w] \notin {"queued"} \cup Held
    BY <1>2 DEF Held, MemberPlaces, NamePlaces
  <1>4. Lock' /\ line' \in [Keys -> Seq(Writers)]
    BY <1>1, <1>2, <1>3, LockKeeps DEF Turned
  <1>5. CASE \A e \in Elems(list) : Neutral(e)
    <2>1. Comes(w)
      BY <1>2, <1>5 DEF Comes
    <2> QED BY <1>2, <1>4, <2>1, QuietTurn
  <1>6. CASE /\ w = "apply"
             /\ \A e \in Elems(list) :
                  e.stackId \in {0, stack} /\ e.who \in {Self, svc} /\ e # ReadStacks
    <2>1. w # "self" /\ at["apply"] \notin Ending
      BY <1>2, <1>6 DEF Turned
    <2> QED BY <1>2, <1>4, <1>6, <2>1, QuietTurn
  <1> QED BY <1>5, <1>6

LEMMA BeginningsKeep ==
  ASSUME IInv
  PROVE  /\ ConnectSelf => IInv'
         /\ Apply => IInv'
         /\ \A w \in Backfills : RunBackfill(w) => IInv'
  <1> USE DEF IInv
  <1>1. "self" \in Writers /\ "apply" \in Writers /\ Backfills \subseteq Writers
    BY DEF Writers
  <1>2. ConnectSelf => IInv'
    BY <1>1, LifeSame, ListFacts, BeginKeeps DEF ConnectSelf
  <1>3. ASSUME Apply
        PROVE  IInv'
    <2>1. /\ Begin("apply", Compile(stack, svc)) /\ UNCHANGED <<db, prune, mutex>>
          /\ UNCHANGED <<stacks, stack, svcs, svc, replaced, deleted>>
          /\ docked' = TRUE
      BY <1>3 DEF Apply
    <2>2. stack \in 0..MaxStacks /\ svc \in 0..MaxServices
      BY TypeFacts
    <2>3. /\ Compile(stack, svc) \in Seq(Entries) /\ Compile(stack, svc) # <<>>
          /\ Followed(Compile(stack, svc))
          /\ \A e \in Elems(Compile(stack, svc)) :
               e.stackId \in {0, stack} /\ e.who \in {Self, svc} /\ e # ReadStacks
      BY <2>2, ListFacts
    <2>4. Lives
      BY <2>1 DEF Lives
    <2> QED BY <1>1, <2>1, <2>3, <2>4, BeginKeeps
  <1>4. ASSUME NEW w \in Backfills, RunBackfill(w)
        PROVE  IInv'
    BY <1>1, <1>4, LifeSame, ListFacts, BeginKeeps DEF RunBackfill
  <1> QED BY <1>2, <1>3, <1>4

\* It goes on with another list, outside the mutex.
LEMMA GoesOnWith ==
  ASSUME IInv, NEW w \in Writers, at[w] = "next", UNCHANGED <<db, life, prune, mutex>>,
         NEW list \in Seq(Entries), Followed(list), Advance(w, 0, list),
         \/ /\ \A e \in Elems(list) : e \in Elems(todo[w]) \/ Neutral(e)
            /\ ReadStacks \in Elems(list) => ReadStacks \in Elems(todo[w])
         \/ /\ w # "self" /\ (BackfillAlone => at["apply"] \notin Ending)
            /\ \A e \in Elems(list) :
                 e.stackId \in {0, stack} /\ e.who \in {Self, svc} /\ e # ReadStacks
  PROVE  IInv'
  <1> USE DEF IInv
  <1>1. todo[w] # <<>>
    BY Active DEF Ending
  <1>2. Lives /\ UNCHANGED <<stack, svc, rows, line>>
    BY LifeSame, RowsSame, MutexSame
  <1>3. Turned(w) /\ todo'[w] = list /\ at'[w] \in {"idle", "next"}
    BY <1>1, <1>2, RowsSame, AdvanceTurned
  <1>4. at'[w] \notin {"queued"} \cup Held
    BY <1>3 DEF Held, MemberPlaces, NamePlaces
  <1>5. Lock' /\ line' \in [Keys -> Seq(Writers)]
    BY <1>2, <1>3, <1>4, LockKeeps DEF Turned
  <1>6. CASE /\ \A e \in Elems(list) : e \in Elems(todo[w]) \/ Neutral(e)
             /\ ReadStacks \in Elems(list) => ReadStacks \in Elems(todo[w])
    <2>1. Comes(w)
      BY <1>3, <1>6 DEF Comes
    <2> QED BY <1>2, <1>3, <1>5, <2>1, QuietTurn
  <1>7. CASE /\ w # "self" /\ (BackfillAlone => at["apply"] \notin Ending)
             /\ \A e \in Elems(list) :
                  e.stackId \in {0, stack} /\ e.who \in {Self, svc} /\ e # ReadStacks
    BY <1>2, <1>3, <1>5, <1>7, QuietTurn
  <1> QED BY <1>6, <1>7

\* What follows the present entry, and what follows that
LEMMA RestFacts ==
  ASSUME Types, Fits, NEW w \in Writers, todo[w] # <<>>
  PROVE  /\ Tail(todo[w]) \in Seq(Entries) /\ Followed(Tail(todo[w]))
         /\ Elems(Tail(todo[w])) \subseteq Elems(todo[w])
         /\ Now(w).do = "exists" =>
              /\ Tail(todo[w]) # <<>> /\ Tail(Tail(todo[w])) \in Seq(Entries)
              /\ Followed(Tail(Tail(todo[w])))
              /\ Elems(Tail(Tail(todo[w]))) \subseteq Elems(todo[w])
  <1>1. todo[w] \in Seq(Entries) /\ Followed(todo[w])
    BY TypeFacts DEF Fits, Followed
  <1>2. ASSUME NEW list \in Seq(Entries), list # <<>>, Followed(list)
        PROVE  /\ Tail(list) \in Seq(Entries) /\ Followed(Tail(list))
               /\ Elems(Tail(list)) \subseteq Elems(list)
               /\ list[1].do = "exists" => Tail(list) # <<>>
    <2>1. /\ Tail(list) \in Seq(Entries) /\ Len(list) \in Nat /\ Len(list) > 0
          /\ Len(Tail(list)) = Len(list) - 1
          /\ Elems(Tail(list)) \subseteq Elems(list)
          /\ \A i \in 1..Len(Tail(list)) : Tail(list)[i] = list[i + 1]
      BY <1>2, TailFacts
    <2>2. Followed(Tail(list))
      <3> SUFFICES ASSUME NEW i \in 1..Len(Tail(list)), Tail(list)[i].do = "exists"
                   PROVE  i < Len(Tail(list))
        BY DEF Followed
      <3>1. i + 1 \in 1..Len(list)
        BY <2>1
      <3>2. i + 1 < Len(list)
        BY <1>2, <2>1, <3>1 DEF Followed
      <3> QED BY <2>1, <3>2
    <2>3. ASSUME list[1].do = "exists"
          PROVE  Tail(list) # <<>>
      <3>1. 1 < Len(list)
        BY <1>2, <2>1, <2>3 DEF Followed
      <3>2. Len(Tail(list)) # 0
        BY <2>1, <3>1
      <3>3. Len(<<>>) = 0
        OBVIOUS
      <3> QED BY <3>2, <3>3, Zenon
    <2> QED BY <2>1, <2>2, <2>3
  <1>3. Now(w) = todo[w][1]
    BY <1>1, TailFacts DEF Now
  <1> QED BY <1>1, <1>2, <1>3

LEMMA LooksForNetworkKeeps ==
  ASSUME IInv, NEW w \in Writers, LooksForNetwork(w)
  PROVE  IInv'
  <1> USE DEF IInv
  <1>1. /\ at[w] = "next" /\ Now(w).do = "exists"
        /\ UNCHANGED <<db, life, prune, mutex>>
    BY DEF LooksForNetwork
  <1>2. todo[w] # <<>>
    BY <1>1, Active DEF Ending
  <1>3. CASE MovesOn(w, 0)
    BY <1>1, <1>2, <1>3, TypeFacts, QuietMoves
  <1>4. CASE Advance(w, 0, Tail(Tail(todo[w])))
    BY <1>1, <1>2, <1>4, RestFacts, GoesOnWith
  <1> QED BY <1>3, <1>4 DEF LooksForNetwork

LEMMA ReadsStacksKeeps ==
  ASSUME IInv, NEW w \in Backfills, ReadsStacks(w)
  PROVE  IInv'
  <1> USE DEF IInv
  <1>1. /\ at[w] = "next" /\ UNCHANGED <<db, life, prune, mutex>>
        /\ BackfillAlone => at["apply"] \notin Ending
        /\ Advance(w, 0, IF stack = 0 THEN <<>> ELSE BackfillStack(stack, svc))
    BY DEF ReadsStacks
  <1>2. w \in Writers /\ w # "self"
    BY BackfillsAssumption DEF Writers
  <1>3. stack \in 0..MaxStacks /\ svc \in 0..MaxServices
    BY TypeFacts
  <1>4. CASE stack = 0
    <2>1. <<>> \in Seq(Entries) /\ Followed(<<>>) /\ Elems(<<>>) = {}
      BY DEF Followed, Elems
    <2> QED BY <1>1, <1>2, <1>4, <2>1, GoesOnWith
  <1>5. CASE stack # 0
    <2> HIDE DEF BackfillStack
    <2>1. /\ BackfillStack(stack, svc) \in Seq(Entries)
          /\ Followed(BackfillStack(stack, svc))
          /\ \A e \in Elems(BackfillStack(stack, svc)) :
               e.stackId \in {0, stack} /\ e.who \in {Self, svc} /\ e # ReadStacks
      BY <1>3, ListFacts
    <2> QED BY <1>1, <1>2, <1>5, <2>1, GoesOnWith
  <1> QED BY <1>4, <1>5

LEMMA LookUpKeeps ==
  ASSUME IInv, NEW w \in Writers, LookUp(w)
  PROVE  IInv'
  <1> USE DEF IInv
  <1>1. /\ at[w] = "next" /\ Now(w).do = "look"
        /\ UNCHANGED <<db, life, prune, mutex>>
    BY DEF LookUp
  <1>2. todo[w] # <<>>
    BY <1>1, Active DEF Ending
  <1>3. Now(w).name \in Names
    BY <1>2, NowFacts
  <1>4. CASE Advance(w, 0, <<ByIdentity(Now(w).name, 0)>> \o Tail(todo[w]))
    <2> DEFINE first == ByIdentity(Now(w).name, 0)
               rest == Tail(todo[w])
               list == <<first>> \o rest
    <2>1. /\ first \in Entries /\ Neutral(first) /\ first # ReadStacks
          /\ first.do = "identity"
      BY <1>3, EntryFacts, TypeFacts DEF Neutral, Self
    <2>2. /\ rest \in Seq(Entries) /\ Followed(rest)
          /\ Elems(rest) \subseteq Elems(todo[w])
      BY <1>2, RestFacts
    <2> HIDE DEF first, rest
    <2>3. /\ list \in Seq(Entries)
          /\ Len(list) = Len(rest) + 1 /\ Len(rest) \in Nat
          /\ \A i \in 1..Len(list) :
               list[i] = IF i = 1 THEN first ELSE rest[i - 1]
          /\ Elems(list) \subseteq {first} \cup Elems(rest)
      BY <2>1, <2>2, PutFirst
    <2> HIDE DEF list
    <2>4. Followed(list)
      <3> SUFFICES ASSUME NEW i \in 1..Len(list), list[i].do = "exists"
                   PROVE  i < Len(list)
        BY DEF Followed
      <3>1. i # 1 /\ i - 1 \in 1..Len(rest)
        BY <2>1, <2>3
      <3>2. i - 1 < Len(rest)
        BY <2>2, <2>3, <3>1 DEF Followed
      <3> QED BY <2>3, <3>2
    <2>5. Advance(w, 0, list)
      BY <1>4 DEF list, first, rest
    <2> QED BY <1>1, <2>1, <2>2, <2>3, <2>4, <2>5, GoesOnWith
  <1>5. CASE net[Now(w).name].id # 0 /\ Goes(w, "correct")
    <2>1. Lives /\ UNCHANGED <<stack, svc, rows, line>>
      BY <1>1, LifeSame, RowsSame, MutexSame
    <2>2. /\ "correct" \in Places \ ({"idle"} \cup Ending)
          /\ "correct" \notin {"queued", "create", "insert"} \cup Held
          /\ "correct" \notin MemberPlaces \cup NamePlaces
      BY DEF Places, Ending, Held, MemberPlaces, NamePlaces
    <2>3. Turned(w) /\ Comes(w) /\ UNCHANGED <<todo, ids>> /\ at'[w] = "correct"
      BY <1>1, <1>2, <1>5, <2>1, <2>2, GoesTurned
    <2>4. Lock' /\ line' \in [Keys -> Seq(Writers)]
      BY <2>1, <2>2, <2>3, LockKeeps DEF Turned
    <2>5. Now(w)' = Now(w)
      BY <2>3, SameEntry
    <2> QED BY <1>1, <1>5, <2>1, <2>2, <2>3, <2>4, <2>5, QuietTurn
  <1> QED BY <1>4, <1>5 DEF LookUp

-----------------------------------------------------------------------------
(* Turns that write *)

\* What a writer writes is about the stack there is, or nobody's.
LEMMA WritesFacts ==
  ASSUME IInv, NEW w \in Writers, todo[w] # <<>>
  PROVE  /\ Now(w).who <= svcs /\ Now(w).stackId <= stacks
         /\ BackfillAlone =>
              /\ Now(w).stackId \in {0, stack} \cup deleted
              /\ Now(w).who \in {Self, svc} \cup replaced
         /\ BackfillAlone /\ at["apply"] \in Ending => Neutral(Now(w))
  <1>1. Now(w) \in Elems(todo[w])
    BY NowFacts DEF IInv
  <1> QED BY <1>1 DEF IInv, Lists, PastLists, LivingLists, Unread

LEMMA CreateNetworkKeeps ==
  ASSUME IInv, NEW w \in Writers, CreateNetwork(w)
  PROVE  IInv'
  <1> USE DEF IInv
  <1>1. /\ at[w] = "create" /\ UNCHANGED <<life, prune>>
        /\ at[w] \in NamePlaces /\ at[w] \in Held
        /\ at[w] \notin {"idle", "queued"} \cup Ending
    BY DEF CreateNetwork, NamePlaces, Held, Ending
  <1>2. todo[w] # <<>>
    BY <1>1, Active
  <1>3. CASE Throws(w) /\ UNCHANGED db
    BY <1>1, <1>2, <1>3, QuietMoves DEF Throws
  <1>4. CASE /\ net[Now(w).name].id = 0 /\ rows < MaxRows
             /\ rows' = rows + 1
             /\ net' = [net EXCEPT ![Now(w).name] =
                          [id |-> rows', stackId |-> Now(w).stackId,
                           right |-> Now(w).do # Wrong]]
             /\ MovesOn(w, rows') /\ Frees(w) /\ UNCHANGED members
    <2>1. Lives /\ UNCHANGED <<stack, svc>>
      BY <1>1, LifeSame
    <2>2. rows' \in Nat /\ rows <= rows' /\ rows' \in 0..rows' /\ rows' <= MaxRows
          /\ rows' # 0
      BY <1>4, TypeFacts
    <2>3. Turned(w) /\ Comes(w) /\ at'[w] \in {"idle", "next"}
      BY <1>2, <1>4, <2>1, <2>2, MovesOnTurned
    <2>4. at'[w] \notin {"queued", "create", "insert", "correct"} \cup Held
      BY <2>3 DEF Held, MemberPlaces, NamePlaces
    <2>5. Lock' /\ line' \in [Keys -> Seq(Writers)]
      BY <1>4, <2>3, <2>4, LockKeeps DEF Turned
    <2>6. /\ Now(w).name \in Names /\ Now(w).stackId \in 0..stacks
          /\ Now(w).name = Shared => Now(w).stackId = 0
      BY <1>2, NowFacts, WritesFacts, TypeFacts
    <2> DEFINE new == [id |-> rows', stackId |-> Now(w).stackId,
                       right |-> Now(w).do # Wrong]
    <2>7. /\ new.id = rows' /\ new.stackId = Now(w).stackId
          /\ new \in [id : 0..rows', stackId : 0..stacks, right : BOOLEAN]
      BY <2>2, <2>6
    <2>8. net' = [net EXCEPT ![Now(w).name] = new]
      BY <1>4
    <2> HIDE DEF new
    <2>9. net' \in [Names -> [id : 0..rows', stackId : 0..stacks, right : BOOLEAN]]
      <3>1. net \in [Names -> [id : 0..rows', stackId : 0..stacks, right : BOOLEAN]]
        BY <2>2, TypeFacts
      <3> QED BY <2>7, <2>8, <3>1
    <2>10. Types'
      <3>1. /\ UNCHANGED <<stacks, stack, svcs, svc, replaced, deleted>>
            /\ UNCHANGED <<members, seen>> /\ docked' \in BOOLEAN
        BY <1>1, <1>4, <2>1 DEF prune, Lives
      <3>2. rows' \in 0..MaxRows
        BY <2>2, TypeFacts
      <3> QED BY <2>3, <2>5, <2>9, <3>1, <3>2 DEF Types, TypeOK, Turned
    <2>11. Clear'
      <3>1. ASSUME NEW v \in Writers \ {w}
            PROVE  /\ at'[v] = at[v] /\ Now(v)' = Now(v)
                   /\ Membership(v)' = Membership(v)
        BY <2>3, SameEntry DEF Turned, OthersWait
      <3>2. ASSUME NEW v \in Writers \ {w}, at[v] = "create"
            PROVE  net'[Now(v).name].id = 0
        <4>1. at[v] \in Held /\ at[v] \in NamePlaces /\ at[v] \notin {"idle"} \cup Ending
          BY <3>2 DEF Held, NamePlaces, Ending
        <4>2. Now(v).name \in Names
          BY <4>1, Active, NowFacts
        <4>3. Now(v).name # Now(w).name
          <5> SUFFICES ASSUME Now(v).name = Now(w).name
                       PROVE  FALSE
            OBVIOUS
          <5>1. KeyOf(v) = KeyOf(w)
            BY <1>1, <4>1 DEF KeyOf, Fits
          <5> QED BY <1>1, <4>1, <5>1, Exclusive DEF Lock
        <4> QED BY <2>8, <3>2, <4>2, <4>3, TypeFacts DEF Stored, Clear
      <3>3. ASSUME NEW v \in Writers \ {w}, at[v] = "correct"
            PROVE  net'[Now(v).name].id # 0
        <4>1. Now(v).name \in Names
          BY <3>3, Active, NowFacts DEF Ending
        <4> QED BY <2>2, <2>7, <2>8, <3>3, <4>1, TypeFacts DEF Stored, Clear
      <3>4. \A v \in Writers \ {w} : at[v] = "insert" => members'[Membership(v)] = 0
        BY <1>4 DEF Stored, Clear
      <3> QED BY <2>4, <3>1, <3>2, <3>3, <3>4 DEF Clear
    <2>12. Rows'
      BY <2>2, <2>6, <2>7, <2>8, TypeFacts DEF Stored, Rows, Names
    <2>13. OneRowEach'
      BY <1>4 DEF Stored, OneRowEach
    <2>14. Lists'
      BY <2>1, <2>3, ListsKeep
    <2>15. Written'
      <3>1. UNCHANGED <<stacks, stack, svcs, svc, replaced, deleted, pruneAt, seen,
                        alive, members>>
        BY <1>1, <1>4, <2>1 DEF prune, Lives
      <3>2. at'["apply"] # at["apply"] => at'["apply"] \notin {"dropMembers", "dropStack"}
        BY <2>3, EndingSame DEF Ending
      <3>3. PastMembers' /\ PastSeen' /\ LivingMembers'
        BY <3>1, <3>2 DEF Written, PastMembers, PastSeen, LivingMembers
      <3>4. LivingRows'
        <4> SUFFICES ASSUME BackfillAlone, NEW n \in Names
                     PROVE  \/ net'[n].stackId \in {0} \cup deleted
                            \/ /\ net'[n].stackId = stack
                               /\ at'["apply"] \notin {"dropMembers", "dropStack"}
          BY <3>1 DEF LivingRows
        <4>1. CASE n = Now(w).name
          <5>1. net'[n].stackId = Now(w).stackId
            BY <2>7, <2>8, <4>1, TypeFacts
          <5>2. at'["apply"] \in {"dropMembers", "dropStack"} => Now(w).stackId = 0
            BY <1>2, <3>2, WritesFacts DEF Ending, Neutral
          <5> QED BY <1>2, <5>1, <5>2, WritesFacts
        <4>2. CASE n # Now(w).name
          <5>1. net'[n] = net[n]
            BY <2>8, <4>2, TypeFacts
          <5> QED BY <3>2, <5>1 DEF Written, LivingRows
        <4> QED BY <4>1, <4>2
      <3> QED BY <3>3, <3>4 DEF Written
    <2> QED BY <2>3, <2>5, <2>10, <2>11, <2>12, <2>13, <2>14, <2>15
        DEF Stored, Turned
  <1> QED BY <1>3, <1>4 DEF CreateNetwork

LEMMA InsertMemberKeeps ==
  ASSUME IInv, NEW w \in Writers, InsertMember(w)
  PROVE  IInv'
  <1> USE DEF IInv
  <1>1. /\ at[w] = "insert" /\ UNCHANGED <<life, prune>>
        /\ at[w] \in MemberPlaces /\ at[w] \in Held
        /\ at[w] \notin {"idle", "queued"} \cup Ending
    BY DEF InsertMember, MemberPlaces, Held, Ending
  <1>2. todo[w] # <<>>
    BY <1>1, Active
  <1>3. CASE Throws(w) /\ UNCHANGED db
    BY <1>1, <1>2, <1>3, QuietMoves DEF Throws
  <1>4. CASE /\ members' = [members EXCEPT ![Membership(w)] = @ + 1]
             /\ MovesOn(w, 0) /\ Frees(w) /\ UNCHANGED <<net, rows>>
    <2>1. Lives /\ UNCHANGED <<stack, svc>>
      BY <1>1, LifeSame
    <2>2. rows' \in Nat /\ rows <= rows' /\ 0 \in 0..rows' /\ UNCHANGED rows
      BY <1>4, TypeFacts
    <2>3. Turned(w) /\ Comes(w) /\ at'[w] \in {"idle", "next"}
      BY <1>2, <1>4, <2>1, <2>2, MovesOnTurned
    <2>4. at'[w] \notin {"queued", "create", "insert", "correct"} \cup Held
      BY <2>3 DEF Held, MemberPlaces, NamePlaces
    <2>5. Lock' /\ line' \in [Keys -> Seq(Writers)]
      BY <1>4, <2>3, <2>4, LockKeeps DEF Turned
    <2>6. /\ Now(w).do = "member" /\ Row(w) \in 1..MaxRows
          /\ Now(w).who \in 0..MaxServices
      <3>1. Now(w).do = "member" /\ Row(w) # 0
        BY <1>1 DEF Fits
      <3>2. Row(w) \in 0..rows /\ Now(w).who \in 0..MaxServices
        BY <1>2, NowFacts
      <3> QED BY <3>1, <3>2, TypeFacts
    <2>7. Membership(w) \in Members /\ Membership(w)[2] = Now(w).who
      BY <2>6 DEF Membership, Members
    <2>8. /\ members[Membership(w)] = 0 /\ members'[Membership(w)] = 1
          /\ members' \in [Members -> Nat]
          /\ \A m \in Members : m # Membership(w) => members'[m] = members[m]
      <3>1. members[Membership(w)] = 0
        BY <1>1 DEF Stored, Clear
      <3> QED BY <1>4, <2>7, <3>1, TypeFacts
    <2>9. Types'
      <3>1. /\ UNCHANGED <<stacks, stack, svcs, svc, replaced, deleted>>
            /\ UNCHANGED <<net, rows, seen>> /\ docked' \in BOOLEAN
        BY <1>1, <1>4, <2>1 DEF prune, Lives
      <3> QED BY <2>3, <2>5, <2>8, <3>1 DEF Types, TypeOK, Turned, Members
    <2>10. Clear'
      <3>1. ASSUME NEW v \in Writers \ {w}
            PROVE  /\ at'[v] = at[v] /\ Now(v)' = Now(v)
                   /\ Membership(v)' = Membership(v)
        BY <2>3, SameEntry DEF Turned, OthersWait
      <3>2. ASSUME NEW v \in Writers \ {w}, at[v] = "insert"
            PROVE  members'[Membership(v)] = 0
        <4>1. at[v] \in Held /\ at[v] \in MemberPlaces /\ at[v] \notin {"idle"} \cup Ending
          BY <3>2 DEF Held, MemberPlaces, Ending
        <4>2. Now(v).do = "member"
          BY <4>1 DEF Fits
        <4>3. Membership(v) # Membership(w)
          <5> SUFFICES ASSUME Membership(v) = Membership(w)
                       PROVE  FALSE
            OBVIOUS
          <5>1. Row(v) = Row(w) /\ Now(v).who = Now(w).who
            BY DEF Membership
          <5>2. KeyOf(v) = KeyOf(w)
            BY <2>6, <4>2, <5>1 DEF KeyOf
          <5> QED BY <1>1, <4>1, <5>2, Exclusive DEF Lock
        <4>4. members[Membership(v)] = 0
          BY <3>2 DEF Stored, Clear
        <4> QED BY <1>4, <2>7, <4>3, <4>4, TypeFacts
      <3>3. \A v \in Writers \ {w} : /\ at[v] = "create" => net'[Now(v).name].id = 0
                                     /\ at[v] = "correct" => net'[Now(v).name].id # 0
        BY <1>4 DEF Stored, Clear
      <3> QED BY <2>4, <3>1, <3>2, <3>3 DEF Clear
    <2>11. Rows' /\ OneRowEach'
      <3>1. DOMAIN members' = Members
        BY <2>8
      <3> QED BY <1>4, <2>8, <3>1, TypeFacts DEF Stored, Rows, OneRowEach
    <2>12. Lists'
      BY <2>1, <2>3, ListsKeep
    <2>13. Written'
      <3>1. UNCHANGED <<stacks, stack, svcs, svc, replaced, deleted, pruneAt, seen,
                        alive, net>>
        BY <1>1, <1>4, <2>1 DEF prune, Lives
      <3>2. at'["apply"] # at["apply"] => at'["apply"] \notin {"dropMembers", "dropStack"}
        BY <2>3, EndingSame DEF Ending
      <3>3. PastSeen' /\ LivingRows'
        BY <3>1, <3>2 DEF Written, PastSeen, LivingRows
      <3>4. PastMembers'
        BY <1>2, <2>7, <2>8, <3>1, WritesFacts DEF Written, PastMembers
      <3>5. LivingMembers'
        <4> SUFFICES ASSUME BackfillAlone, NEW m \in Members, members'[m] > 0
                     PROVE  \/ m[2] \in {Self} \cup replaced
                            \/ m[2] = svc /\ at'["apply"] # "dropStack"
          BY <3>1 DEF LivingMembers
        <4>1. CASE m = Membership(w)
          <5>1. at'["apply"] = "dropStack" => Now(w).who = Self
            BY <1>2, <3>2, WritesFacts DEF Ending, Neutral
          <5> QED BY <1>2, <2>7, <4>1, <5>1, WritesFacts
        <4>2. CASE m # Membership(w)
          BY <2>8, <3>2, <4>2 DEF Written, LivingMembers
        <4> QED BY <4>1, <4>2
      <3> QED BY <3>3, <3>4, <3>5 DEF Written
    <2> QED BY <2>3, <2>5, <2>9, <2>10, <2>11, <2>12, <2>13 DEF Stored, Turned
  <1> QED BY <1>3, <1>4 DEF InsertMember

LEMMA CorrectKeeps ==
  ASSUME IInv, NEW w \in Writers, Correct(w)
  PROVE  IInv'
  <1> USE DEF IInv
  <1>1. /\ at[w] = "correct" /\ UNCHANGED <<members, rows, life, prune, mutex>>
        /\ net' = [net EXCEPT ![Now(w).name].right = TRUE]
        /\ MovesOn(w, net[Now(w).name].id)
    BY DEF Correct
  <1>2. todo[w] # <<>>
    BY <1>1, Active DEF Ending
  <1>3. /\ Now(w).name \in Names /\ net[Now(w).name].id \in 0..rows
        /\ net[Now(w).name].id # 0
    BY <1>1, <1>2, NowFacts, TypeFacts DEF Stored, Clear
  <1>4. Lives /\ UNCHANGED <<stack, svc, line>>
    BY <1>1, LifeSame, MutexSame
  <1>5. Turned(w) /\ Comes(w) /\ at'[w] \in {"idle", "next"}
    BY <1>1, <1>2, <1>3, <1>4, TypeFacts, MovesOnTurned
  <1>6. at'[w] \notin {"queued", "create", "insert", "correct"} \cup Held
    BY <1>5 DEF Held, MemberPlaces, NamePlaces
  <1>7. Lock' /\ line' \in [Keys -> Seq(Writers)]
    BY <1>4, <1>5, <1>6, LockKeeps DEF Turned
  <1>8. /\ net' \in [Names -> [id : 0..rows, stackId : 0..stacks, right : BOOLEAN]]
        /\ \A n \in Names : /\ net'[n].id = net[n].id
                            /\ net'[n].stackId = net[n].stackId
                            /\ net[n].id = 0 => net'[n] = net[n]
    BY <1>1, <1>3, TypeFacts
  <1>9. /\ UNCHANGED <<stacks, stack, svcs, svc, replaced, deleted>>
        /\ UNCHANGED <<pruneAt, seen, alive>> /\ docked' \in BOOLEAN
    BY <1>1, <1>4 DEF prune, Lives
  <1>10. Types'
    BY <1>1, <1>5, <1>7, <1>8, <1>9 DEF Types, TypeOK, Turned
  <1>11. Clear'
    <2>1. ASSUME NEW v \in Writers \ {w}
          PROVE  /\ at'[v] = at[v] /\ Now(v)' = Now(v)
                 /\ Membership(v)' = Membership(v)
      BY <1>5, SameEntry DEF Turned, OthersWait
    <2>2. ASSUME NEW v \in Writers \ {w}, at[v] \in {"create", "correct"}
          PROVE  Now(v).name \in Names
      BY <2>2, Active, NowFacts DEF Ending
    <2> QED BY <1>1, <1>6, <1>8, <2>1, <2>2 DEF Stored, Clear
  <1>12. Rows' /\ OneRowEach'
    BY <1>1, <1>8 DEF Stored, Rows, OneRowEach, Names
  <1>13. Lists'
    BY <1>4, <1>5, ListsKeep
  <1>14. Written'
    <2>1. at'["apply"] # at["apply"] => at'["apply"] \notin {"dropMembers", "dropStack"}
      BY <1>5, EndingSame DEF Ending
    <2> QED BY <1>1, <1>8, <1>9, <2>1
        DEF Written, PastMembers, PastSeen, LivingRows, LivingMembers
  <1> QED BY <1>5, <1>7, <1>10, <1>11, <1>12, <1>13, <1>14 DEF Stored, Turned

-----------------------------------------------------------------------------
(* The life of the stacks, and the pruning *)

\* The apply's operation goes through the stages of a destroy.
LEMMA ApplyGoes ==
  ASSUME Types, Fits, Lock, NEW place \in {"idle"} \cup Ending, Goes("apply", place),
         at["apply"] \in {"idle"} \cup Ending, UNCHANGED line,
         place \in Ending => stack' # 0, stack' = 0 <=> svc' = 0
  PROVE  /\ Fits' /\ Lock' /\ at' \in [Writers -> Places]
         /\ OthersWait("apply") /\ UNCHANGED <<todo, ids>>
         /\ at'["apply"] = place /\ todo["apply"] = <<>>
         /\ at'["apply"] \notin {"queued", "create", "insert", "correct"} \cup Held
  <1>1. "apply" \in Writers /\ place \in Places
    BY DEF Writers, Places, Ending
  <1>2. /\ at' \in [Writers -> Places] /\ at'["apply"] = place
        /\ UNCHANGED <<todo, ids>> /\ OthersWait("apply")
    BY <1>1, GoesFacts
  <1>3. place \notin {"queued", "create", "insert", "correct"} \cup Held
    BY DEF Ending, Held, MemberPlaces, NamePlaces
  <1>4. todo["apply"] = <<>>
    BY <1>1 DEF Fits
  <1>5. Lock'
    BY <1>1, <1>2, <1>3, LockKeeps
  <1>6. Fits'
    <2>1. ASSUME NEW v \in Writers
          PROVE  Now(v)' = Now(v) /\ Row(v)' = Row(v)
      BY <1>2, SameEntry
    <2>2. ASSUME NEW v \in Writers \ {"apply"}
          PROVE  at'[v] = at[v]
      BY <1>2 DEF OthersWait
    <2> QED BY <1>1, <1>2, <1>3, <1>4, <2>1, <2>2
        DEF Fits, Held, MemberPlaces, NamePlaces
  <1> QED BY <1>2, <1>3, <1>4, <1>5, <1>6

\* Nobody moves.
LEMMA NobodyMoves ==
  ASSUME Types, Fits, Lock, UNCHANGED <<mine, mutex>>, stack' = 0 <=> svc' = 0,
         at["apply"] \notin Ending \/ UNCHANGED stack
  PROVE  /\ Fits' /\ Lock' /\ UNCHANGED <<at, todo, ids, line>>
  <1>1. UNCHANGED <<at, todo, ids, line>>
    BY DEF mine, mutex
  <1>2. \A v \in Writers : /\ Now(v)' = Now(v) /\ Row(v)' = Row(v)
                           /\ KeyOf(v)' = KeyOf(v)
    BY <1>1, SameEntry
  <1>3. Fits'
    BY <1>1, <1>2 DEF Fits
  <1>4. Lock'
    BY <1>1, <1>2 DEF Lock, OneSpot, InTurn
  <1> QED BY <1>1, <1>3, <1>4

LEMMA SameStored ==
  ASSUME Stored, UNCHANGED <<at, todo, ids, net, members>>
  PROVE  Stored'
  <1>1. \A v \in Writers : Now(v)' = Now(v) /\ Membership(v)' = Membership(v)
    BY SameEntry
  <1> QED BY <1>1 DEF Stored, Clear, Rows, OneRowEach

LEMMA CreateStackKeeps ==
  ASSUME IInv, CreateStack
  PROVE  IInv'
  <1> USE DEF IInv
  <1>1. /\ stack = 0 /\ stacks < MaxStacks /\ svcs < MaxServices
        /\ stacks' = stacks + 1 /\ stack' = stacks' /\ svcs' = svcs + 1
        /\ svc' = svcs' /\ UNCHANGED <<replaced, deleted, docked, mine, mutex>>
        /\ UNCHANGED <<net, members, rows, pruneAt, seen, alive>>
    BY DEF CreateStack, db, prune
  <1>2. /\ svc = 0 /\ at["apply"] \notin Ending
        /\ stack' # 0 /\ svc' # 0 /\ stacks \in Nat /\ svcs \in Nat
    BY <1>1, TypeFacts DEF Fits
  <1>3. Fits' /\ Lock' /\ UNCHANGED <<at, todo, ids, line>>
    BY <1>1, <1>2, NobodyMoves
  <1>4. Types'
    <2>1. /\ stacks' \in 0..MaxStacks /\ stack' \in 0..stacks'
          /\ svcs' \in 0..MaxServices /\ svc' \in 0..svcs'
          /\ 1..svcs \subseteq 1..svcs' /\ 1..stacks \subseteq 1..stacks'
          /\ 0..stacks \subseteq 0..stacks'
      BY <1>1, <1>2, TypeFacts
    <2>2. net' \in [Names -> [id : 0..rows, stackId : 0..stacks', right : BOOLEAN]]
      BY <1>1, <2>1, TypeFacts
    <2> QED BY <1>1, <1>3, <2>1, <2>2 DEF Types, TypeOK
  <1>5. Stored'
    BY <1>1, <1>3, SameStored
  <1>6. Lists'
    <2>1. PastLists'
      <3> SUFFICES ASSUME NEW w \in Writers, NEW e \in Elems(todo[w])
                   PROVE  e.who <= svcs' /\ e.stackId <= stacks'
        BY <1>3 DEF PastLists
      <3>1. e \in Entries
        BY TypeFacts, ElemsFacts
      <3>2. e.who <= svcs /\ e.stackId <= stacks /\ e.who \in Nat /\ e.stackId \in Nat
        BY <3>1, TypeFacts DEF Lists, PastLists, Entries
      <3> QED BY <1>1, <1>2, <3>2
    <2>2. LivingLists'
      BY <1>1, <1>2, <1>3 DEF Lists, LivingLists, Self
    <2>3. Unread'
      BY <1>3 DEF Lists, Unread
    <2> QED BY <2>1, <2>2, <2>3 DEF Lists
  <1>7. Written'
    <2>1. \A m \in Members : m[2] \in Nat /\ (m[2] <= svcs => m[2] <= svcs' /\ m[2] # svc')
      BY <1>1, <1>2, TypeFacts DEF Members
    <2>2. PastMembers' /\ PastSeen'
      BY <1>1, <2>1 DEF Written, PastMembers, PastSeen, Types
    <2>3. LivingRows' /\ LivingMembers'
      BY <1>1, <1>2, <1>3 DEF Written, LivingRows, LivingMembers, Self
    <2> QED BY <2>2, <2>3 DEF Written
  <1> QED BY <1>3, <1>4, <1>5, <1>6, <1>7

LEMMA EditKeeps ==
  ASSUME IInv, Edit
  PROVE  IInv'
  <1> USE DEF IInv
  <1>1. /\ stack # 0 /\ at["apply"] = "idle" /\ svcs < MaxServices
        /\ svcs' = svcs + 1 /\ svc' = svcs' /\ replaced' = replaced \cup {svc}
        /\ UNCHANGED <<stacks, stack, deleted, docked, mine, mutex>>
        /\ UNCHANGED <<net, members, rows, pruneAt, seen, alive>>
    BY DEF Edit, db, prune
  <1>2. /\ svc # 0 /\ at["apply"] \notin Ending /\ svc' # 0 /\ svcs \in Nat
        /\ svc \in 1..svcs
    BY <1>1, TypeFacts DEF Fits, Ending, Types, TypeOK
  <1>3. Fits' /\ Lock' /\ UNCHANGED <<at, todo, ids, line>>
    BY <1>1, <1>2, NobodyMoves
  <1>4. Types'
    <2>1. /\ svcs' \in 0..MaxServices /\ svc' \in 0..svcs'
          /\ 1..svcs \subseteq 1..svcs'
      BY <1>1, <1>2, TypeFacts
    <2> QED BY <1>1, <1>2, <1>3, <2>1 DEF Types, TypeOK
  <1>5. Stored'
    BY <1>1, <1>3, SameStored
  <1>6. Lists'
    <2>1. PastLists'
      <3> SUFFICES ASSUME NEW w \in Writers, NEW e \in Elems(todo[w])
                   PROVE  e.who <= svcs' /\ e.stackId <= stacks'
        BY <1>3 DEF PastLists
      <3>1. e \in Entries
        BY TypeFacts, ElemsFacts
      <3>2. e.who <= svcs /\ e.stackId <= stacks /\ e.who \in Nat
        BY <3>1, TypeFacts DEF Lists, PastLists, Entries
      <3> QED BY <1>1, <1>2, <3>2
    <2>2. LivingLists'
      BY <1>1, <1>3 DEF Lists, LivingLists
    <2>3. Unread'
      BY <1>3 DEF Lists, Unread
    <2> QED BY <2>1, <2>2, <2>3 DEF Lists
  <1>7. Written'
    <2>1. \A m \in Members : m[2] \in Nat /\ (m[2] <= svcs => m[2] <= svcs' /\ m[2] # svc')
      BY <1>1, <1>2, TypeFacts DEF Members
    <2>2. PastMembers' /\ PastSeen'
      BY <1>1, <2>1 DEF Written, PastMembers, PastSeen, Types
    <2>3. LivingRows' /\ LivingMembers'
      BY <1>1, <1>3 DEF Written, LivingRows, LivingMembers
    <2> QED BY <2>2, <2>3 DEF Written
  <1> QED BY <1>3, <1>4, <1>5, <1>6, <1>7

LEMMA DeleteKeeps ==
  ASSUME IInv, Delete
  PROVE  IInv'
  <1> USE DEF IInv
  <1>1. /\ stack # 0 /\ at["apply"] = "idle" /\ stack' = 0 /\ svc' = 0
        /\ deleted' = deleted \cup {stack} /\ replaced' = replaced \cup {svc}
        /\ UNCHANGED <<stacks, svcs, docked, mine, mutex>>
        /\ UNCHANGED <<net, members, rows, pruneAt, seen, alive>>
    BY DEF Delete, db, prune
  <1>2. /\ at["apply"] \notin Ending /\ svc \in 1..svcs /\ stack \in 1..stacks
        /\ 0 \in 0..stacks /\ 0 \in 0..svcs
    BY <1>1, TypeFacts DEF Fits, Ending, Types, TypeOK
  <1>3. Fits' /\ Lock' /\ UNCHANGED <<at, todo, ids, line>>
    BY <1>1, <1>2, NobodyMoves
  <1>4. Types'
    BY <1>1, <1>2, <1>3 DEF Types, TypeOK
  <1>5. Stored'
    BY <1>1, <1>3, SameStored
  <1>6. Lists'
    BY <1>1, <1>3 DEF Lists, PastLists, LivingLists, Unread
  <1>7. Written'
    BY <1>1, <1>3
    DEF Written, PastMembers, PastSeen, LivingRows, LivingMembers, Self
  <1> QED BY <1>3, <1>4, <1>5, <1>6, <1>7

\* A stored part that only loses rows
LEMMA LessStored ==
  ASSUME IInv, OthersWait("apply"), UNCHANGED <<todo, ids>>,
         at'["apply"] \notin {"create", "insert", "correct"},
         members' \in [Members -> Nat], \A m \in Members : members'[m] \in {0, members[m]},
         \A n \in Names : net'[n] \in {NoRow, net[n]},
         net'[Shared] = net[Shared]
  PROVE  Stored'
  <1> USE DEF IInv
  <1>1. ASSUME NEW v \in Writers \ {"apply"}
        PROVE  /\ at'[v] = at[v] /\ Now(v)' = Now(v)
               /\ Membership(v)' = Membership(v)
    BY SameEntry DEF OthersWait
  <1>2. NoRow.id = 0
    BY DEF NoRow
  <1>3. ASSUME NEW v \in Writers \ {"apply"}, at[v] = "create"
        PROVE  net'[Now(v).name].id = 0
    <2>1. Now(v).name \in Names
      BY <1>3, Active, NowFacts DEF Ending
    <2> QED BY <1>2, <1>3, <2>1 DEF Stored, Clear
  <1>4. ASSUME NEW v \in Writers \ {"apply"}, at[v] = "insert"
        PROVE  members'[Membership(v)] = 0
    <2>1. /\ at[v] \in MemberPlaces /\ at[v] \in Held
          /\ at[v] \notin {"idle"} \cup Ending
      BY <1>4 DEF MemberPlaces, Held, Ending
    <2>2. Now(v).do = "member" /\ Row(v) # 0
      BY <2>1 DEF Fits
    <2>3. Row(v) \in 1..MaxRows /\ Now(v).who \in 0..MaxServices
      BY <2>1, <2>2, Active, NowFacts, TypeFacts
    <2>4. Membership(v) \in Members
      BY <2>3 DEF Membership, Members
    <2> QED BY <1>4, <2>4 DEF Stored, Clear
  <1>5. ASSUME NEW v \in Writers \ {"apply"}, at[v] = "correct"
        PROVE  net'[Now(v).name].id # 0
    <2>1. Now(v) \in Entries /\ Now(v).do = "look"
      BY <1>5, Active, NowFacts DEF Ending, Fits
    <2>2. Now(v).name = Shared
      BY <2>1 DEF Entries
    <2>3. net[Now(v).name].id # 0
      BY <1>5 DEF Stored, Clear
    <2> QED BY <2>2, <2>3
  <1>6. Clear'
    BY <1>1, <1>3, <1>4, <1>5 DEF Clear
  <1>7. Rows'
    BY <1>2 DEF Stored, Rows
  <1>8. OneRowEach'
    <2>1. DOMAIN members' = Members /\ DOMAIN members = Members
      BY TypeFacts
    <2> QED BY <2>1 DEF Stored, OneRowEach
  <1> QED BY <1>6, <1>7, <1>8 DEF Stored

LEMMA DestroyKeeps ==
  ASSUME IInv, Destroy
  PROVE  IInv'
  <1> USE DEF IInv
  <1>1. /\ stack # 0 /\ at["apply"] = "idle" /\ MayEnd /\ docked' = FALSE
        /\ Goes("apply", "dropNetworks")
        /\ UNCHANGED <<stacks, stack, svcs, svc, replaced, deleted, mutex>>
        /\ UNCHANGED <<net, members, rows, pruneAt, seen, alive>>
    BY DEF Destroy, db, prune
  <1>2. UNCHANGED line /\ (stack' = 0 <=> svc' = 0)
    BY <1>1 DEF mutex, Fits
  <1>3. /\ Fits' /\ Lock' /\ at' \in [Writers -> Places]
        /\ OthersWait("apply") /\ UNCHANGED <<todo, ids>>
        /\ at'["apply"] = "dropNetworks" /\ todo["apply"] = <<>>
        /\ at'["apply"] \notin {"queued", "create", "insert", "correct"} \cup Held
    BY <1>1, <1>2, ApplyGoes DEF Ending
  <1>4. Types'
    BY <1>1, <1>2, <1>3 DEF Types, TypeOK
  <1>5. Stored'
    BY <1>1, <1>3, LessStored, TypeFacts, "apply" \in Writers DEF Writers, Names
  <1>6. PastLists' /\ LivingLists'
    BY <1>1, <1>3 DEF Lists, PastLists, LivingLists
  <1>7. Unread'
    <2> SUFFICES ASSUME NEW w \in Writers, NEW e \in Elems(todo[w]),
                        \/ w = "self" \/ ReadStacks \in Elems(todo[w])
                        \/ BackfillAlone
                 PROVE  Neutral(e)
      BY <1>3 DEF Unread
    <2>1. CASE w = "self" \/ ReadStacks \in Elems(todo[w])
      BY <2>1 DEF Lists, Unread
    <2>2. CASE /\ BackfillAlone
               /\ ~ (w = "self" \/ ReadStacks \in Elems(todo[w]))
      <3>1. todo[w] \in Seq(Entries)
        BY TypeFacts
      <3>2. todo[w] # <<>>
        BY <3>1, ElemsFacts
      <3>3. w \in Backfills /\ at[w] # "idle"
        BY <1>3, <2>2, <3>2 DEF Writers, Fits
      <3>4. DOMAIN todo[w] = 1..Len(todo[w])
        BY <3>1
      <3>5. HasRead(w)
        BY <2>2, <3>3, <3>4 DEF HasRead, Elems
      <3> QED BY <1>1, <2>2, <3>3, <3>5 DEF MayEnd
    <2> QED BY <2>1, <2>2
  <1>8. Written'
    BY <1>1, <1>3 DEF Written, PastMembers, PastSeen, LivingRows, LivingMembers
  <1> QED BY <1>3, <1>4, <1>5, <1>6, <1>7, <1>8 DEF Lists

LEMMA DropNetworksKeeps ==
  ASSUME IInv, DropNetworks
  PROVE  IInv'
  <1> USE DEF IInv
  <1> DEFINE gone == {n \in Names : net[n].stackId = stack /\ net[n].id # 0}
  <1>1. /\ at["apply"] = "dropNetworks" /\ Goes("apply", "dropMembers")
        /\ net' = [n \in Names |-> IF n \in gone THEN NoRow ELSE net[n]]
        /\ members' = [m \in DOMAIN members |->
             IF \E n \in gone : net[n].id = m[1] THEN 0 ELSE members[m]]
        /\ UNCHANGED <<rows, stacks, stack, svcs, svc, replaced, deleted, docked>>
        /\ UNCHANGED <<mutex, pruneAt, seen, alive>>
    BY DEF DropNetworks, life, prune
  <1>2. /\ UNCHANGED line /\ stack' # 0 /\ (stack' = 0 <=> svc' = 0)
        /\ at["apply"] \in Ending
    BY <1>1 DEF mutex, Fits, Ending
  <1>3. /\ Fits' /\ Lock' /\ at' \in [Writers -> Places]
        /\ OthersWait("apply") /\ UNCHANGED <<todo, ids>>
        /\ at'["apply"] = "dropMembers"
        /\ at'["apply"] \notin {"queued", "create", "insert", "correct"} \cup Held
    BY <1>1, <1>2, ApplyGoes DEF Ending
  <1>4. /\ NoRow \in [id : 0..rows, stackId : 0..stacks, right : BOOLEAN]
        /\ NoRow.id = 0 /\ NoRow.stackId = 0
    BY TypeFacts DEF NoRow
  <1>5. /\ net' \in [Names -> [id : 0..rows, stackId : 0..stacks, right : BOOLEAN]]
        /\ \A n \in Names : net'[n] = IF n \in gone THEN NoRow ELSE net[n]
    BY <1>1, <1>4, TypeFacts
  <1>6. Shared \in Names /\ Shared \notin gone
    BY <1>1, <1>2 DEF Names, Stored, Rows
  <1>7. /\ members' \in [Members -> Nat]
        /\ \A m \in Members : members'[m] \in {0, members[m]}
    BY <1>1, TypeFacts
  <1>8. Types'
    BY <1>1, <1>2, <1>3, <1>5, <1>7 DEF Types, TypeOK, Members
  <1>9. Stored'
    BY <1>3, <1>5, <1>6, <1>7, LessStored
  <1>10. Lists'
    BY <1>1, <1>2, <1>3 DEF Lists, PastLists, LivingLists, Unread
  <1>11. PastMembers' /\ PastSeen'
    BY <1>1, <1>7 DEF Written, PastMembers, PastSeen
  <1>12. LivingRows'
    <2> SUFFICES ASSUME BackfillAlone, NEW n \in Names
                 PROVE  net'[n].stackId \in {0} \cup deleted
      BY <1>1 DEF LivingRows
    <2>1. CASE n \in gone
      BY <1>4, <1>5, <2>1
    <2>2. CASE n \notin gone
      <3>1. net'[n] = net[n]
        BY <1>5, <2>2
      <3>2. net[n].id = 0 => net[n].stackId = 0
        BY <1>4 DEF Stored, Rows
      <3>3. net[n].stackId \in {0} \cup deleted \/ net[n].stackId = stack
        BY DEF Written, LivingRows
      <3> QED BY <2>2, <3>1, <3>2, <3>3
    <2> QED BY <2>1, <2>2
  <1>13. LivingMembers'
    BY <1>1, <1>3, <1>7 DEF Written, LivingMembers
  <1> QED BY <1>3, <1>8, <1>9, <1>10, <1>11, <1>12, <1>13 DEF Written

LEMMA DropMembersKeeps ==
  ASSUME IInv, DropMembers
  PROVE  IInv'
  <1> USE DEF IInv
  <1>1. /\ at["apply"] = "dropMembers" /\ Goes("apply", "dropStack")
        /\ members' = [m \in DOMAIN members |-> IF m[2] = svc THEN 0 ELSE members[m]]
        /\ UNCHANGED <<net, rows, stacks, stack, svcs, svc, replaced, deleted, docked>>
        /\ UNCHANGED <<mutex, pruneAt, seen, alive>>
    BY DEF DropMembers, life, prune
  <1>2. /\ UNCHANGED line /\ stack' # 0 /\ (stack' = 0 <=> svc' = 0)
        /\ at["apply"] \in Ending
    BY <1>1 DEF mutex, Fits, Ending
  <1>3. /\ Fits' /\ Lock' /\ at' \in [Writers -> Places]
        /\ OthersWait("apply") /\ UNCHANGED <<todo, ids>>
        /\ at'["apply"] = "dropStack"
        /\ at'["apply"] \notin {"queued", "create", "insert", "correct"} \cup Held
    BY <1>1, <1>2, ApplyGoes DEF Ending
  <1>4. /\ members' \in [Members -> Nat]
        /\ \A m \in Members : members'[m] = IF m[2] = svc THEN 0 ELSE members[m]
    BY <1>1, TypeFacts
  <1>5. Types'
    BY <1>1, <1>2, <1>3, <1>4 DEF Types, TypeOK, Members
  <1>6. Stored'
    BY <1>1, <1>3, <1>4, LessStored
  <1>7. Lists'
    BY <1>1, <1>2, <1>3 DEF Lists, PastLists, LivingLists, Unread, Ending
  <1>8. Written'
    BY <1>1, <1>3, <1>4
    DEF Written, PastMembers, PastSeen, LivingRows, LivingMembers
  <1> QED BY <1>3, <1>5, <1>6, <1>7, <1>8

LEMMA DropStackKeeps ==
  ASSUME IInv, DropStack
  PROVE  IInv'
  <1> USE DEF IInv
  <1>1. /\ at["apply"] = "dropStack" /\ Goes("apply", "idle")
        /\ stack' = 0 /\ svc' = 0
        /\ UNCHANGED <<stacks, svcs, replaced, deleted, docked, mutex>>
        /\ UNCHANGED <<net, members, rows, pruneAt, seen, alive>>
    BY DEF DropStack, db, prune
  <1>2. /\ UNCHANGED line /\ at["apply"] \in Ending /\ "idle" \notin Ending
    BY <1>1 DEF mutex, Ending
  <1>3. /\ Fits' /\ Lock' /\ at' \in [Writers -> Places]
        /\ OthersWait("apply") /\ UNCHANGED <<todo, ids>>
        /\ at'["apply"] = "idle"
        /\ at'["apply"] \notin {"queued", "create", "insert", "correct"} \cup Held
    BY <1>1, <1>2, ApplyGoes
  <1>4. Types'
    BY <1>1, <1>2, <1>3 DEF Types, TypeOK
  <1>5. Stored'
    BY <1>1, <1>3, LessStored, TypeFacts
  <1>6. PastLists' /\ Unread'
    BY <1>1, <1>2, <1>3 DEF Lists, PastLists, Unread
  <1>7. LivingLists'
    BY <1>2, <1>3 DEF Lists, LivingLists, Unread, Neutral
  <1>8. Written'
    BY <1>1, <1>3
    DEF Written, PastMembers, PastSeen, LivingRows, LivingMembers, Self
  <1> QED BY <1>3, <1>4, <1>5, <1>6, <1>7, <1>8 DEF Lists

\* What the pruning keeps of the invariant, whatever it has read
LEMMA PruneKeeps ==
  ASSUME IInv, UNCHANGED <<net, rows, life, mine, mutex>>,
         members' \in [Members -> Nat],
         \A m \in Members : members'[m] \in {0, members[m]},
         seen' \subseteq Members, pruneAt' \in {"idle", "services", "delete"},
         PastSeen'
  PROVE  IInv'
  <1> USE DEF IInv
  <1>1. UNCHANGED <<stacks, stack, svcs, svc, replaced, deleted, docked>>
    BY DEF life
  <1>2. Fits' /\ Lock' /\ UNCHANGED <<at, todo, ids, line>>
    BY <1>1, NobodyMoves DEF Fits
  <1>3. Types'
    BY <1>1, <1>2 DEF Types, TypeOK, Members
  <1>4. Stored'
    <2>1. \A v \in Writers : Now(v)' = Now(v) /\ Membership(v)' = Membership(v)
      BY <1>2, SameEntry
    <2>2. ASSUME NEW v \in Writers, at[v] = "insert"
          PROVE  members'[Membership(v)] = 0
      <3>1. /\ at[v] \in MemberPlaces /\ at[v] \in Held
            /\ at[v] \notin {"idle"} \cup Ending
        BY <2>2 DEF MemberPlaces, Held, Ending
      <3>2. Now(v).do = "member" /\ Row(v) # 0
        BY <3>1 DEF Fits
      <3>3. Row(v) \in 1..MaxRows /\ Now(v).who \in 0..MaxServices
        BY <3>1, <3>2, Active, NowFacts, TypeFacts
      <3>4. Membership(v) \in Members
        BY <3>3 DEF Membership, Members
      <3> QED BY <2>2, <3>4 DEF Stored, Clear
    <2>3. Clear' /\ Rows'
      BY <1>2, <2>1, <2>2 DEF Stored, Clear, Rows
    <2>4. OneRowEach'
      <3>1. DOMAIN members' = Members /\ DOMAIN members = Members
        BY TypeFacts
      <3> QED BY <3>1 DEF Stored, OneRowEach
    <2> QED BY <2>3, <2>4 DEF Stored
  <1>5. Lists'
    BY <1>1, <1>2 DEF Lists, PastLists, LivingLists, Unread
  <1>6. Written'
    BY <1>1, <1>2 DEF Written, PastMembers, LivingRows, LivingMembers
  <1> QED BY <1>2, <1>3, <1>4, <1>5, <1>6

LEMMA PruningKeeps ==
  ASSUME IInv, Prune
  PROVE  IInv'
  <1> USE DEF IInv
  <1>1. /\ members \in [Members -> Nat] /\ DOMAIN members = Members
        /\ seen \subseteq Members /\ svcs \in Nat
    BY TypeFacts DEF Types
  <1>2. CASE PruneMembers
    <2>1. /\ seen' = {m \in Members : m[2] # Self /\ members[m] > 0}
          /\ pruneAt' = "services"
          /\ UNCHANGED <<net, members, rows, life, mine, mutex>> /\ UNCHANGED svcs
      BY <1>1, <1>2 DEF PruneMembers, db, life
    <2>2. PastSeen'
      BY <2>1 DEF PastSeen, Written, PastMembers
    <2> QED BY <1>1, <2>1, <2>2, PruneKeeps
  <1>3. CASE PruneServices
    <2>1. /\ alive' = svc /\ pruneAt' = "delete" /\ UNCHANGED <<seen, svcs, svc>>
          /\ UNCHANGED <<net, members, rows, life, mine, mutex>>
      BY <1>3 DEF PruneServices, db, life
    <2>2. PastSeen'
      BY <2>1 DEF PastSeen, Written
    <2> QED BY <1>1, <2>1, <2>2, PruneKeeps
  <1>4. CASE PruneDelete
    <2> DEFINE orphans == {m \in seen : m[2] # alive}
    <2>1. /\ members' = [m \in Members |-> IF m \in orphans THEN 0 ELSE members[m]]
          /\ pruneAt' = "idle" /\ seen' = {}
          /\ UNCHANGED <<net, rows, life, mine, mutex>>
      BY <1>1, <1>4 DEF PruneDelete, Drop
    <2>2. /\ members' \in [Members -> Nat]
          /\ \A m \in Members : members'[m] \in {0, members[m]}
      BY <1>1, <2>1
    <2>3. PastSeen'
      BY <2>1 DEF PastSeen
    <2> QED BY <2>1, <2>2, <2>3, PruneKeeps
  <1> QED BY <1>2, <1>3, <1>4 DEF Prune

-----------------------------------------------------------------------------
(* The theorems *)

LEMMA InitInv == Init => IInv
  <1> SUFFICES ASSUME Init
               PROVE  IInv
    OBVIOUS
  <1>1. /\ stacks = 0 /\ stack = 0 /\ svcs = 0 /\ svc = 0
        /\ replaced = {} /\ deleted = {} /\ docked = FALSE /\ rows = 0
        /\ net = [n \in Names |-> NoRow] /\ members = [m \in Members |-> 0]
        /\ at = [w \in Writers |-> "idle"] /\ todo = [w \in Writers |-> <<>>]
        /\ ids = [w \in Writers |-> NoIds] /\ seen = {} /\ pruneAt = "idle"
        /\ line = [k \in Keys |-> <<>>]
    BY DEF Init, Members, Mutex!Init
  <1>2. /\ "apply" \in Writers /\ NoRow.id = 0 /\ NoRow.stackId = 0
        /\ Shared \in Names /\ Elems(<<>>) = {}
    BY DEF Writers, NoRow, Names, Elems
  <1>3. TypeOK
    <2>1. NoRow \in [id : 0..rows, stackId : 0..stacks, right : BOOLEAN]
      BY <1>1 DEF NoRow
    <2>2. NoIds \in [Names -> 0..rows] /\ "idle" \in Places
      BY <1>1 DEF NoIds, Places
    <2>3. /\ net \in [Names -> [id : 0..rows, stackId : 0..stacks, right : BOOLEAN]]
          /\ members \in [Members -> Nat] /\ at \in [Writers -> Places]
          /\ ids \in [Writers -> [Names -> 0..rows]]
      BY <1>1, <2>1, <2>2
    <2>4. /\ stacks \in 0..MaxStacks /\ stack \in 0..stacks
          /\ svcs \in 0..MaxServices /\ svc \in 0..svcs /\ rows \in 0..MaxRows
      BY <1>1, BoundsAssumption
    <2> QED BY <1>1, <2>3, <2>4 DEF TypeOK, Members
  <1>4. Types
    BY <1>1, <1>3 DEF Types
  <1>5. Fits
    BY <1>1, <1>2 DEF Fits, Held, MemberPlaces, NamePlaces, Ending
  <1>6. Lock
    BY <1>1 DEF Lock, OneSpot, InTurn, Held, MemberPlaces, NamePlaces
  <1>7. Stored
    BY <1>1, <1>2 DEF Stored, Clear, Rows, OneRowEach
  <1>8. Lists
    BY <1>1, <1>2 DEF Lists, PastLists, LivingLists, Unread
  <1>9. Written
    BY <1>1, <1>2 DEF Written, PastMembers, PastSeen, LivingRows, LivingMembers
  <1> QED BY <1>4, <1>5, <1>6, <1>7, <1>8, <1>9 DEF IInv

LEMMA StutterKeeps ==
  ASSUME IInv, UNCHANGED vars
  PROVE  IInv'
  <1> USE DEF IInv
  <1>1. /\ UNCHANGED <<net, members, rows, life, mine, mutex>>
        /\ UNCHANGED <<pruneAt, seen, alive, svc, svcs, at, todo, ids, line>>
        /\ UNCHANGED <<stacks, stack, replaced, deleted, docked>>
    BY DEF vars, db, life, mine, mutex, prune
  <1>2. Fits' /\ Lock'
    BY <1>1, NobodyMoves DEF Fits
  <1>3. Stored'
    BY <1>1, SameStored
  <1>4. Types'
    BY <1>1 DEF Types, TypeOK
  <1>5. Lists'
    BY <1>1 DEF Lists, PastLists, LivingLists, Unread
  <1>6. Written'
    BY <1>1 DEF Written, PastMembers, PastSeen, LivingRows, LivingMembers
  <1> QED BY <1>2, <1>3, <1>4, <1>5, <1>6

LEMMA NextInv == IInv /\ [Next]_vars => IInv'
  <1> SUFFICES ASSUME IInv, [Next]_vars
               PROVE  IInv'
    OBVIOUS
  <1>1. ASSUME NEW w \in Writers, Store(w)
        PROVE  IInv'
    BY <1>1, QueueKeeps, EnterKeeps, LooksKeep, CreateNetworkKeeps,
       InsertMemberKeeps DEF Store
  <1>2. ASSUME NEW w \in Backfills, BackfillStep(w)
        PROVE  IInv'
    <2>1. w \in Writers
      BY DEF Writers
    <2> QED BY <1>2, <2>1, BeginningsKeep, LookUpKeeps, CorrectKeeps,
               ReadsStacksKeeps, LooksForNetworkKeeps DEF BackfillStep
  <1>3. CASE ConnectSelf
    BY <1>3, BeginningsKeep
  <1>4. CASE Life
    BY <1>4, CreateStackKeeps, BeginningsKeep, EditKeeps, DestroyKeeps,
       DropNetworksKeeps, DropMembersKeeps, DropStackKeeps, DeleteKeeps DEF Life
  <1>5. CASE Prune
    BY <1>5, PruningKeeps
  <1>6. CASE UNCHANGED vars
    BY <1>6, StutterKeeps
  <1> QED BY <1>1, <1>2, <1>3, <1>4, <1>5, <1>6 DEF Next

LEMMA Inductive == Spec => []IInv
  BY InitInv, NextInv, PTL DEF Spec

\* Every variable keeps its type.
THEOREM TypeCorrect == Spec => []TypeOK
  <1>1. IInv => TypeOK
    BY DEF IInv, Types
  <1> QED BY <1>1, Inductive, PTL

\* No membership has two rows, although the database does not enforce it: the
\* apply, the self-join and every backfill take the mutex of the membership
\* for the find and the create (upsertNetworkMembership).
THEOREM OneRow == Spec => []OneRowEach
  <1>1. IInv => OneRowEach
    BY DEF IInv, Stored
  <1> QED BY <1>1, Inductive, PTL

\* No create of a network meets a taken name, so no producer loses its
\* memberships to a unique violation (upsertManagedNetworkByIdentity,
\* findOrCreateManagedNetworkByName).
THEOREM NoCollision == Spec => []NeverCollides
  <1>1. IInv => NeverCollides
    BY DEF IInv, Stored, Clear, NeverCollides
  <1> QED BY <1>1, Inductive, PTL

\* A destroyed stack leaves no row a later stack of its name would claim and
\* no membership (removeStackManagedNetworks, destroyStackRow), provided no
\* destroy runs while a backfill works from having read the stack.
THEOREM Outlives ==
  ASSUME BackfillAlone
  PROVE  Spec => []NothingOutlivesDestroy
  <1>1. ASSUME IInv
        PROVE  NothingOutlivesDestroy
    <2>1. DOMAIN members = Members
      BY <1>1, TypeFacts DEF IInv
    <2> QED BY <1>1, <2>1
        DEF IInv, Written, LivingRows, LivingMembers, NothingOutlivesDestroy
  <1>2. IInv => NothingOutlivesDestroy
    BY <1>1
  <1> QED BY <1>2, Inductive, PTL

\* Nobody's guess replaces the true identity of the shared network's row: a
\* row that is found by name is taken as it is, and it is never dropped.
THEOREM RightStays == Spec => RightStaysRight
  <1>1. ASSUME IInv, [Next]_vars
        PROVE  net[Shared].right => net'[Shared].right
    <2> SUFFICES ASSUME net[Shared].right
                 PROVE  net'[Shared].right
      OBVIOUS
    <2> USE <1>1 DEF IInv
    <2>1. Shared \in Names /\ net[Shared].id # 0
      BY DEF Names, Stored, Rows, NoRow
    <2>2. CASE UNCHANGED net
      BY <2>2
    <2>3. ASSUME NEW w \in Writers, CreateNetwork(w), ~ UNCHANGED net
          PROVE  net'[Shared].right
      <3>1. /\ net[Now(w).name].id = 0
            /\ \E row : net' = [net EXCEPT ![Now(w).name] = row]
        BY <2>3 DEF CreateNetwork, db
      <3> QED BY <2>1, <3>1, TypeFacts
    <2>4. ASSUME NEW w \in Writers, Correct(w)
          PROVE  net'[Shared].right
      <3>1. net' = [net EXCEPT ![Now(w).name].right = TRUE]
        BY <2>4 DEF Correct
      <3> QED BY <2>1, <3>1, TypeFacts
    <2>5. CASE DropNetworks
      <3>1. stack # 0
        BY <2>5 DEF DropNetworks, Fits, Ending
      <3>2. net[Shared].stackId # stack
        BY <3>1 DEF Stored, Rows
      <3> QED BY <2>1, <2>5, <3>2 DEF DropNetworks
    <2>6. Backfills \subseteq Writers
      BY DEF Writers
    <2>7. \/ UNCHANGED net \/ DropNetworks
          \/ \E w \in Writers : CreateNetwork(w) \/ Correct(w)
      BY <2>6
      DEF Next, Store, Queue, SkipMember, Enter, FindIdentity, FindName, FindMember,
          UpdateMember, InsertMember, BackfillStep, RunBackfill, LookUp, ReadsStacks,
          LooksForNetwork, ConnectSelf, Life, CreateStack, Apply, Edit, Destroy,
          DropMembers, DropStack, Delete, Prune, PruneMembers, PruneServices,
          PruneDelete, Drop, db, vars
    <2> QED BY <2>2, <2>3, <2>4, <2>5, <2>7
  <1>2. IInv /\ [Next]_vars => [net[Shared].right => net'[Shared].right]_vars
    BY <1>1
  <1> QED BY <1>2, Inductive, PTL DEF Spec, RightStaysRight

\* The pruning of orphaned memberships takes nothing from a service that
\* exists, although it reads memberships and services at different times.
THEOREM LiveKeeps == Spec => LiveKeepsMembership
  <1> DEFINE Keeps ==
        at["apply"] \notin Ending /\ svc # 0 /\ svc' = svc =>
          \A id \in 1..MaxRows : members[<<id, svc>>] > 0 => members'[<<id, svc>>] > 0
  <1>1. ASSUME IInv, [Next]_vars
        PROVE  Keeps
    <2> SUFFICES ASSUME at["apply"] \notin Ending, NEW id \in 1..MaxRows,
                        members[<<id, svc>>] > 0
                 PROVE  members'[<<id, svc>>] > 0
      OBVIOUS
    <2> USE <1>1 DEF IInv
    <2> DEFINE m == <<id, svc>>
    <2>1. m \in Members /\ m[2] = svc /\ members[m] \in Nat
      BY TypeFacts DEF Members
    <2>2. CASE UNCHANGED members
      BY <2>2
    <2>3. ASSUME NEW w \in Writers, InsertMember(w), ~ UNCHANGED members
          PROVE  members'[m] > 0
      <3>1. members' = [members EXCEPT ![Membership(w)] = members[Membership(w)] + 1]
        BY <2>3 DEF InsertMember, db
      <3> HIDE DEF m
      <3>2. members'[m] \in {members[m], members[m] + 1}
        BY <2>1, <3>1, TypeFacts
      <3> QED BY <2>1, <3>2 DEF m
    <2>4. CASE DropNetworks \/ DropMembers
      BY <2>4 DEF DropNetworks, DropMembers, Ending
    <2>5. CASE PruneDelete
      <3>1. m \in seen => m[2] = alive
        BY <2>1, <2>5 DEF PruneDelete, Written, PastSeen
      <3> QED BY <2>1, <2>5, <3>1, TypeFacts DEF PruneDelete, Drop
    <2>6. \/ UNCHANGED members \/ DropNetworks \/ DropMembers \/ PruneDelete
          \/ \E w \in Writers : InsertMember(w)
      BY DEF Next, Store, Queue, SkipMember, Enter, FindIdentity, FindName, FindMember,
          UpdateMember, CreateNetwork, BackfillStep, RunBackfill, LookUp, Correct,
          ReadsStacks, LooksForNetwork, ConnectSelf, Life, CreateStack, Apply, Edit,
          Destroy, DropStack, Delete, Prune, PruneMembers, PruneServices, db, vars
    <2> QED BY <2>2, <2>3, <2>4, <2>5, <2>6
  <1>2. IInv /\ [Next]_vars => [Keeps]_vars
    BY <1>1
  <1> QED BY <1>2, Inductive, PTL DEF Spec, LiveKeepsMembership

=============================================================================

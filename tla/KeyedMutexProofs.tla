-------------------------- MODULE KeyedMutexProofs --------------------------
(***************************************************************************)
(* Callbacks of one key run one at a time and in call order, none wedges   *)
(* the others, and the chain of promises implements KeyLock, for any set   *)
(* of keys and any number of calls.                                        *)
(***************************************************************************)
EXTENDS KeyedMutex, TLAPS, FiniteSetTheorems, SequenceTheorems,
        WellFoundedInduction

\* A call waits for an earlier one of its key, and need not wait for those
\* between the two.
Linked ==
  /\ \A c \in Made : /\ ahead[c] < c
                     /\ ahead[c] # 0 => keyOf[ahead[c]] = keyOf[c]
  /\ \A b, c \in Made :
       b < c /\ keyOf[b] = keyOf[c] => b <= ahead[c] \/ pc[b] \in Released

\* The map knows the last call of a key, unless that has settled.
TailIsLast ==
  /\ \A k \in Keys : tails[k] # 0 => tails[k] \in Made /\ keyOf[tails[k]] = k
  /\ \A c \in Made : c <= tails[keyOf[c]] \/ pc[c] \in Released

\* What InCallOrder becomes to be inductive: even the tails have resolved.
Ordered ==
  \A b, c \in Made :
    b < c /\ keyOf[b] = keyOf[c] /\ pc[c] # "waiting" => pc[b] \in Released

IInv == TypeOK /\ Linked /\ TailIsLast /\ Ordered

\* A step of a call that was made moves only that call forward.
LEMMA StepMoves ==
  ASSUME TypeOK, NEW c \in Made, Step(c)
  PROVE  /\ TypeOK'
         /\ keyOf' = keyOf /\ ahead' = ahead
         /\ \A d \in Made \ {c} : pc'[d] = pc[d]
         /\ \A d \in Made : pc[d] \in Released => pc'[d] \in Released
         /\ pc'[c] # "waiting"
         /\ pc[c] # "waiting" \/ pc'[c] = "running"
  <1>1. c \in Calls /\ Made \subseteq Calls /\ keyOf[c] \in Keys
        /\ c # 0
    BY MaxCallsAssumption DEF TypeOK, Made, Calls
  <1>2. CASE Begin(c)
    BY <1>1, <1>2 DEF Begin, TypeOK, Made, Calls, Stages, Released
  <1>3. CASE Settle(c)
    BY <1>1, <1>3 DEF Settle, TypeOK, Made, Calls, Stages, Released
  <1>4. CASE ResolveTail(c)
    BY <1>1, <1>4 DEF ResolveTail, TypeOK, Made, Calls, Stages, Released
  <1>5. CASE DropTail(c)
    <2>1. tails' \in [Keys -> 0..MaxCalls]
      BY <1>1, <1>5, MaxCallsAssumption DEF DropTail, TypeOK
    <2>2. pc' = [pc EXCEPT ![c] = "gone"] /\ keyOf' = keyOf /\ ahead' = ahead
          /\ pc[c] = "over"
      BY <1>5 DEF DropTail
    <2> QED
      BY <1>1, <2>1, <2>2 DEF TypeOK, Made, Calls, Stages, Released
  <1> QED BY <1>2, <1>3, <1>4, <1>5 DEF Step

\* Init establishes the invariant: no call has been made, the map is empty.
LEMMA InitInv ==
  ASSUME Init
  PROVE  IInv
  BY MaxCallsAssumption
  DEF Init, IInv, TypeOK, Linked, TailIsLast, Ordered, Made, Calls, Stages

\* A new call queues behind the entry of its key.
LEMMA RunExclusiveInv ==
  ASSUME IInv, NEW k \in Keys, RunExclusive(k)
  PROVE  IInv'
  <1> DEFINE n == Len(keyOf) + 1
  <1>1. /\ n \in Calls /\ n \notin Made /\ Made' = Made \cup {n}
        /\ \A c \in Made : c < n /\ c \in Calls /\ keyOf'[c] = keyOf[c]
        /\ keyOf'[n] = k
    BY MaxCallsAssumption DEF IInv, TypeOK, RunExclusive, Made, Calls
  <1>2. /\ \A c \in Made : ahead'[c] = ahead[c] /\ pc'[c] = pc[c]
        /\ ahead'[n] = tails[k] /\ pc'[n] = "waiting"
        /\ \A j \in Keys \ {k} : tails'[j] = tails[j]
        /\ tails'[k] = n
    BY <1>1 DEF IInv, TypeOK, RunExclusive
  <1>3. TypeOK'
    BY <1>1, MaxCallsAssumption DEF IInv, TypeOK, RunExclusive, Calls, Stages
  <1>4. \A c \in Made : keyOf[c] \in Keys
    BY DEF IInv, TypeOK, Made
  <1>5. tails[k] # 0 => tails[k] \in Made /\ keyOf[tails[k]] = k
    BY DEF IInv, TailIsLast
  <1>5a. \A c \in Made : ahead[c] # 0 => ahead[c] \in Made
    BY MaxCallsAssumption DEF IInv, Linked, TypeOK, Made, Calls
  <1>6. Linked'
    <2>1. ASSUME NEW c \in Made'
          PROVE  ahead'[c] < c /\ (ahead'[c] # 0 => keyOf'[ahead'[c]] = keyOf'[c])
      <3>1. CASE c \in Made
        BY <1>1, <1>2, <1>5a, <3>1 DEF IInv, Linked
      <3>2. CASE c = n
        <4>1. CASE tails[k] = 0
          BY <1>1, <1>2, <3>2, <4>1 DEF Calls
        <4>2. CASE tails[k] # 0
          BY <1>1, <1>2, <1>5, <3>2, <4>2
        <4> QED BY <4>1, <4>2
      <3> QED BY <1>1, <2>1, <3>1, <3>2
    <2>2. ASSUME NEW b \in Made', NEW c \in Made', b < c, keyOf'[b] = keyOf'[c]
          PROVE  b <= ahead'[c] \/ pc'[b] \in Released'
      <3>1. b \in Made
        BY <1>1, <2>2 DEF Calls
      <3>2. CASE c \in Made
        BY <1>1, <1>2, <2>2, <3>1, <3>2 DEF IInv, Linked, Released
      <3>3. CASE c = n
        BY <1>1, <1>2, <2>2, <3>1, <3>3 DEF IInv, TailIsLast, Released
      <3> QED BY <1>1, <2>2, <3>2, <3>3
    <2> QED BY <2>1, <2>2 DEF Linked
  <1>7. TailIsLast'
    <2>1. \A j \in Keys : tails'[j] # 0
                            => tails'[j] \in Made' /\ keyOf'[tails'[j]] = j
      BY <1>1, <1>2 DEF IInv, TailIsLast
    <2>2. ASSUME NEW c \in Made'
          PROVE  c <= tails'[keyOf'[c]] \/ pc'[c] \in Released'
      <3>1. CASE c = n
        BY <1>1, <1>2, <3>1 DEF Calls
      <3>2. CASE c \in Made /\ keyOf[c] = k
        BY <1>1, <1>2, <3>2 DEF Calls
      <3>3. CASE c \in Made /\ keyOf[c] # k
        BY <1>1, <1>2, <1>4, <3>3 DEF IInv, TailIsLast, Released
      <3> QED BY <1>1, <2>2, <3>1, <3>2, <3>3
    <2> QED BY <2>1, <2>2 DEF TailIsLast
  <1>8. Ordered'
    <2> SUFFICES ASSUME NEW b \in Made', NEW c \in Made',
                        b < c, keyOf'[b] = keyOf'[c], pc'[c] # "waiting"
                 PROVE  pc'[b] \in Released'
      BY DEF Ordered
    <2>1. c \in Made /\ b \in Made
      BY <1>1, <1>2 DEF Calls
    <2> QED BY <1>1, <1>2, <2>1 DEF IInv, Ordered, Released
  <1> QED BY <1>3, <1>6, <1>7, <1>8 DEF IInv

\* A call that begins finds all earlier ones released; an entry is dropped
\* only by the last call of its key.
LEMMA StepInv ==
  ASSUME IInv, NEW c \in Made, Step(c)
  PROVE  IInv'
  <1>1. /\ TypeOK'
        /\ keyOf' = keyOf /\ ahead' = ahead
        /\ \A d \in Made \ {c} : pc'[d] = pc[d]
        /\ \A d \in Made : pc[d] \in Released => pc'[d] \in Released
        /\ pc'[c] # "waiting"
    BY StepMoves DEF IInv
  <1>2. Made' = Made
    BY <1>1 DEF Made
  <1>3. Linked'
    BY <1>1, <1>2 DEF IInv, Linked, Released
  <1>4. Ordered'
    <2> SUFFICES ASSUME NEW b \in Made, NEW d \in Made,
                        b < d, keyOf[b] = keyOf[d], pc'[d] # "waiting"
                 PROVE  pc'[b] \in Released
      BY <1>1, <1>2 DEF Ordered, Released
    <2>1. CASE pc[d] # "waiting"
      BY <1>1, <2>1 DEF IInv, Ordered
    <2>2. CASE pc[d] = "waiting"
      <3>1. d = c
        BY <1>1, <2>2
      <3>2. Begin(c)
        BY <2>2, <3>1 DEF Step, Begin, Settle, ResolveTail, DropTail
      <3>3. b <= ahead[d] \/ pc[b] \in Released
        BY DEF IInv, Linked
      <3>4. CASE pc[b] \in Released
        BY <1>1, <3>4
      <3>5. CASE b <= ahead[d]
        <4>1. /\ ahead[d] # 0 /\ ahead[d] \in Made /\ ahead[d] < d
              /\ keyOf[ahead[d]] = keyOf[d]
          <5>1. /\ ahead[d] < d /\ (ahead[d] # 0 => keyOf[ahead[d]] = keyOf[d])
                /\ ahead \in [Calls -> 0..MaxCalls] /\ Made = 1..Len(keyOf)
                /\ Len(keyOf) \in Nat /\ Len(keyOf) <= MaxCalls
            BY DEF IInv, Linked, TypeOK, Made
          <5>2. ahead[d] \in Nat /\ b \in Nat /\ d \in Nat /\ b >= 1
            BY <5>1, MaxCallsAssumption DEF Calls
          <5> QED BY <3>5, <5>1, <5>2
        <4>2. pc[ahead[d]] \in Released
          BY <3>1, <3>2, <4>1 DEF Begin
        <4>3. pc[b] \in Released
          <5>1. CASE b = ahead[d]
            BY <4>2, <5>1
          <5>2. CASE b < ahead[d]
            BY <4>1, <4>2, <5>2 DEF IInv, Ordered, Released
          <5> QED BY <3>5, <4>1, <5>1, <5>2 DEF IInv, TypeOK, Made
        <4> QED BY <1>1, <4>3
      <3> QED BY <3>3, <3>4, <3>5
    <2> QED BY <2>1, <2>2
  <1>5. TailIsLast'
    <2>1. CASE tails' = tails
      BY <1>1, <1>2, <2>1 DEF IInv, TailIsLast, Released
    <2>2. CASE tails' # tails
      <3>1. DropTail(c)
        BY <2>2 DEF Step, Begin, Settle, ResolveTail, DropTail
      <3>2. /\ keyOf[c] \in Keys /\ \A b \in Made : keyOf[b] \in Keys
            /\ c \in Calls
        BY MaxCallsAssumption DEF IInv, TypeOK, Made, Calls
      <3>3. /\ \A k \in Keys \ {keyOf[c]} : tails'[k] = tails[k]
            /\ tails'[keyOf[c]] \in {0, tails[keyOf[c]]}
            /\ tails[keyOf[c]] # c => tails'[keyOf[c]] = tails[keyOf[c]]
            /\ pc[c] = "over" /\ pc'[c] = "gone"
        BY <3>1, <3>2 DEF DropTail, IInv, TypeOK
      <3>4. \A k \in Keys : tails'[k] # 0
                              => tails'[k] \in Made' /\ keyOf'[tails'[k]] = k
        BY <1>1, <1>2, <3>2, <3>3 DEF IInv, TailIsLast
      <3>5. ASSUME NEW b \in Made
            PROVE  b <= tails'[keyOf[b]] \/ pc'[b] \in Released
        <4>1. CASE keyOf[b] # keyOf[c] \/ tails[keyOf[c]] # c
          BY <1>1, <3>2, <3>3, <4>1 DEF IInv, TailIsLast
        <4>2. CASE keyOf[b] = keyOf[c] /\ tails[keyOf[c]] = c
          <5>1. b <= c \/ pc[b] \in Released
            BY <4>2 DEF IInv, TailIsLast
          <5>2. b < c => pc[b] \in Released
            BY <3>3, <4>2 DEF IInv, Ordered
          <5> QED BY <1>1, <3>3, <5>1, <5>2 DEF Released, IInv, TypeOK, Made
        <4> QED BY <4>1, <4>2
      <3> QED BY <1>1, <1>2, <3>4, <3>5 DEF TailIsLast, Released
    <2> QED BY <2>1, <2>2
  <1> QED BY <1>1, <1>3, <1>4, <1>5 DEF IInv

\* The invariant holds for ever.
THEOREM Inductive == Spec => []IInv
  <1>1. Init => IInv
    BY InitInv
  <1>2. IInv /\ [Next]_vars => IInv'
    <2> SUFFICES ASSUME IInv, [Next]_vars PROVE IInv'
      OBVIOUS
    <2>1. CASE \E k \in Keys : RunExclusive(k)
      BY <2>1, RunExclusiveInv
    <2>2. CASE \E c \in Made : Step(c)
      BY <2>2, StepInv
    <2>3. CASE UNCHANGED vars
      BY <2>3 DEF vars, IInv, TypeOK, Linked, TailIsLast, Ordered, Made,
                  Released
    <2> QED BY <2>1, <2>2, <2>3 DEF Next
  <1> QED BY <1>1, <1>2, PTL DEF Spec

\* Callbacks of one key run in call order: runExclusive() keeps its promise
\* whatever the callbacks do and however calls of different keys interleave.
THEOREM CallOrder == Spec => []InCallOrder
  <1>1. IInv => InCallOrder
    BY DEF IInv, Ordered, InCallOrder, Settled
  <1> QED BY <1>1, Inductive, PTL

\* Two callbacks of one key never run together.
THEOREM MutualExclusion == Spec => []OneAtATime
  <1>1. IInv => OneAtATime
    <2> SUFFICES ASSUME IInv, NEW b \in Made, NEW c \in Made,
                        keyOf[b] = keyOf[c], pc[b] = "running",
                        pc[c] = "running", b # c
                 PROVE  FALSE
      BY DEF OneAtATime
    <2>1. b < c \/ c < b
      BY DEF IInv, TypeOK, Made
    <2> QED BY <2>1 DEF IInv, Ordered, Released
  <1> QED BY <1>1, Inductive, PTL

\* Dropping the map entry never lets a call in early.
THEOREM DropIsSafe == Spec => []DroppedMeansQuiet
  <1>1. IInv => DroppedMeansQuiet
    BY DEF IInv, TypeOK, TailIsLast, DroppedMeansQuiet, Made
  <1> QED BY <1>1, Inductive, PTL

-----------------------------------------------------------------------------
(* Nobody is wedged *)

\* A call that was made waits, runs or has settled.
Born == \A c \in Made : pc[c] # "unborn"

LEMMA EveryCallStarts == Spec => []Born
  <1>1. Init => Born
    BY DEF Init, Born, Made
  <1>2. ASSUME IInv, Born, [Next]_vars
        PROVE  Born'
    <2>1. ASSUME NEW k \in Keys, RunExclusive(k)
          PROVE  Born'
      <3> DEFINE n == Len(keyOf) + 1
      <3>1. /\ n \in Calls /\ Made' = Made \cup {n}
            /\ pc' = [pc EXCEPT ![n] = "waiting"]
        BY <1>2, <2>1, MaxCallsAssumption
        DEF IInv, TypeOK, RunExclusive, Made, Calls
      <3> QED BY <1>2, <3>1 DEF IInv, TypeOK, Born
    <2>2. ASSUME NEW c \in Made, Step(c)
          PROVE  Born'
      <3>a. TypeOK /\ Step(c)
        BY <1>2, <2>2 DEF IInv
      <3>b. c \in Calls
        BY <3>a, MaxCallsAssumption DEF TypeOK, Made, Calls
      <3>1. keyOf' = keyOf /\ \A d \in Made \ {c} : pc'[d] = pc[d]
        BY <3>a, StepMoves
      <3>2. \E stage \in Stages \ {"unborn"} : pc' = [pc EXCEPT ![c] = stage]
        BY <2>2 DEF Step, Begin, Settle, ResolveTail, DropTail, Stages
      <3> QED BY <1>2, <3>a, <3>b, <3>1, <3>2 DEF TypeOK, Born, Made
    <2>3. CASE UNCHANGED vars
      BY <1>2, <2>3 DEF Born, Made, vars
    <2> QED BY <1>2, <2>1, <2>2, <2>3 DEF Next
  <1> QED BY <1>1, <1>2, Inductive, PTL DEF Spec

\* Nobody ever waits on a callback that cannot go on, whatever was thrown
\* before: of every call whose tail has not resolved there is one of the same
\* key, itself or an earlier one, that may begin, is running, or has settled
\* and resolves next.
NeverWedged ==
  \A c \in Made :
    pc[c] \notin Released =>
      \E b \in Made :
        /\ keyOf[b] = keyOf[c] /\ b <= c
        /\ \/ pc[b] = "waiting" /\ (ahead[b] # 0 => pc[ahead[b]] \in Released)
           \/ pc[b] \in {"running", "returned", "thrown"}

\* A set of calls has an earliest one.
LEMMA Earliest ==
  ASSUME NEW S, S \subseteq Calls, S # {}
  PROVE  \E b \in S : \A d \in S : b <= d
  <1>1. S \subseteq Nat
    BY MaxCallsAssumption DEF Calls
  <1>2. PICK b \in S : \A d \in S : <<d, b>> \notin OpToRel(<, Nat)
    BY <1>1, NatLessThanWellFounded, WFMin
  <1>3. \A d \in S : ~(d < b)
    BY <1>1, <1>2 DEF OpToRel
  <1> QED BY <1>1, <1>3

\* No callback wedges the queue of its key, neither by throwing nor by the
\* dropping of the entry: the earliest call whose tail is unresolved waits for
\* nobody.
THEOREM NoWedge == Spec => []NeverWedged
  <1>1. ASSUME IInv, Born
        PROVE  NeverWedged
    <2> SUFFICES ASSUME NEW c \in Made, pc[c] \notin Released
                 PROVE  \E b \in Made :
                          /\ keyOf[b] = keyOf[c] /\ b <= c
                          /\ \/ /\ pc[b] = "waiting"
                                /\ ahead[b] # 0 => pc[ahead[b]] \in Released
                             \/ pc[b] \in {"running", "returned", "thrown"}
      BY DEF NeverWedged
    <2> DEFINE S == {b \in Made : keyOf[b] = keyOf[c] /\ pc[b] \notin Released}
    <2>1. Made \subseteq Calls /\ c \in S
      BY <1>1, MaxCallsAssumption DEF IInv, TypeOK, Made, Calls
    <2>2. PICK b \in S : \A d \in S : b <= d
      <3> HIDE DEF S
      <3>1. S \subseteq Calls
        BY <2>1 DEF S
      <3> QED BY <2>1, <3>1, Earliest
    <2>3. CASE pc[b] = "waiting" /\ ahead[b] # 0
      <3>1. /\ ahead[b] \in Made /\ ahead[b] < b
            /\ keyOf[ahead[b]] = keyOf[c]
        BY <1>1, <2>1, <2>3, MaxCallsAssumption
        DEF IInv, TypeOK, Linked, Made, Calls
      <3>2. ahead[b] \in Nat /\ b \in Nat /\ c \in Nat
        <4> Made \subseteq Nat
          BY <2>1, MaxCallsAssumption DEF Calls
        <4> QED BY <2>2, <3>1
      <3>3. pc[ahead[b]] \in Released
        BY <2>2, <3>1, <3>2
      <3> QED BY <2>1, <2>2, <2>3, <3>3
    <2>4. CASE pc[b] # "waiting" \/ ahead[b] = 0
      <3>1. pc[b] \in {"waiting", "running", "returned", "thrown"}
        <4>1. pc[b] \in Stages /\ pc[b] \notin Released
          BY <1>1, <2>1 DEF IInv, TypeOK
        <4>2. pc[b] # "unborn"
          BY <1>1, <2>1 DEF Born
        <4> QED BY <4>1, <4>2 DEF Stages, Released
      <3> QED BY <2>1, <2>2, <2>4, <3>1
    <2> QED BY <2>3, <2>4
  <1> QED BY <1>1, Inductive, EveryCallStarts, PTL

-----------------------------------------------------------------------------
(* Calls in call order *)

\* The places of the calls of a finite set: each has one of its own.
LEMMA PlacesDiffer ==
  ASSUME NEW S \in SUBSET Nat, IsFiniteSet(S), NEW b \in S, NEW c \in S, b < c
  PROVE  Place(S, b) < Place(S, c)
  <1> DEFINE Upto(x) == {d \in S : d <= x}
  <1>1. /\ IsFiniteSet(Upto(b)) /\ IsFiniteSet(Upto(c))
        /\ Cardinality(Upto(b)) \in Nat /\ Cardinality(Upto(c)) \in Nat
    BY FS_Subset, FS_CardinalityType
  <1>0. b \in Nat /\ c \in Nat /\ S \subseteq Nat
    OBVIOUS
  <1>2. Upto(b) \in SUBSET Upto(c) /\ c \in Upto(c) /\ c \notin Upto(b)
    <2>1. \A d \in S : d <= b => d <= c
      BY <1>0
    <2>2. c <= c /\ ~ (c <= b)
      BY <1>0
    <2> QED BY <2>1, <2>2, Zenon
  <1>3. Cardinality(Upto(b)) <= Cardinality(Upto(c))
        /\ (Cardinality(Upto(c)) = Cardinality(Upto(b)) => Upto(c) = Upto(b))
    BY <1>1, <1>2, FS_Subset
  <1>4. Place(S, b) = Cardinality(Upto(b)) /\ Place(S, c) = Cardinality(Upto(c))
    BY DEF Place
  <1> HIDE DEF Upto
  <1> QED BY <1>1, <1>2, <1>3, <1>4

LEMMA PlaceRange ==
  ASSUME NEW S \in SUBSET Nat, IsFiniteSet(S), NEW c \in S
  PROVE  Place(S, c) \in 1..Cardinality(S)
  <1> DEFINE Upto == {d \in S : d <= c}
  <1>1. /\ IsFiniteSet(Upto) /\ Cardinality(Upto) <= Cardinality(S)
        /\ Cardinality(Upto) \in Nat /\ Cardinality(S) \in Nat
    BY FS_Subset, FS_CardinalityType
  <1>2. c \in Upto
    OBVIOUS
  <1>3. Cardinality(Upto) # 0
    BY <1>1, <1>2, FS_EmptySet
  <1>4. Place(S, c) = Cardinality(Upto)
    BY DEF Place
  <1> HIDE DEF Upto
  <1> QED BY <1>1, <1>3, <1>4

\* No place is left empty: as many places as calls, none taken twice.
LEMMA PlacesFilled ==
  ASSUME NEW S \in SUBSET Nat, IsFiniteSet(S), NEW i \in 1..Cardinality(S)
  PROVE  \E c \in S : Place(S, c) = i
  <1> DEFINE n == Cardinality(S)
             f == [c \in S |-> Place(S, c)]
  <1>1. n \in Nat
    BY FS_CardinalityType
  <1>2. f \in [S -> 1..n]
    BY PlaceRange
  <1>3. \A b, c \in S : f[b] = f[c] => b = c
    <2> SUFFICES ASSUME NEW b \in S, NEW c \in S, f[b] = f[c], b # c
                 PROVE  FALSE
      OBVIOUS
    <2>1. b < c \/ c < b
      OBVIOUS
    <2>2. Place(S, b) = Place(S, c) /\ Place(S, b) \in Nat
      BY <1>1, PlaceRange
    <2> QED BY <2>1, <2>2, PlacesDiffer
  <1>4. f \in Injection(S, 1..n)
    BY <1>2, <1>3 DEF Injection, IsInjective
  <1>5. IsFiniteSet(1..n) /\ Cardinality(1..n) = n
    BY <1>1, FS_Interval
  <1>6. f \in Surjection(S, 1..n)
    BY <1>4, <1>5, FS_Injection
  <1>7. \E c \in S : f[c] = i
    BY <1>6 DEF Surjection
  <1> QED BY <1>7

\* So InOrder lists the calls of a set, each at its place.
LEMMA InOrderLists ==
  ASSUME NEW S \in SUBSET Nat, IsFiniteSet(S)
  PROVE  /\ InOrder(S) \in Seq(S) /\ Len(InOrder(S)) = Cardinality(S)
         /\ \A i \in 1..Cardinality(S) : Place(S, InOrder(S)[i]) = i
         /\ \A c \in S : InOrder(S)[Place(S, c)] = c
  <1> DEFINE n == Cardinality(S)
  <1>1. n \in Nat
    BY FS_CardinalityType
  <1>2. ASSUME NEW i \in 1..n
        PROVE  InOrder(S)[i] \in S /\ Place(S, InOrder(S)[i]) = i
    <2>1. \E c \in S : Place(S, c) = i
      BY PlacesFilled
    <2>2. InOrder(S)[i] = CHOOSE c \in S : Place(S, c) = i
      BY DEF InOrder
    <2> QED BY <2>1, <2>2
  <1>3. InOrder(S) \in [1..n -> S]
    BY <1>2 DEF InOrder
  <1>4. InOrder(S) \in Seq(S) /\ Len(InOrder(S)) = n
    BY <1>1, <1>3
  <1>5. ASSUME NEW c \in S
        PROVE  InOrder(S)[Place(S, c)] = c
    <2>1. Place(S, c) \in 1..n
      BY PlaceRange
    <2>2. PICK d \in S : d = InOrder(S)[Place(S, c)] /\ Place(S, d) = Place(S, c)
      BY <1>2, <2>1
    <2>3. d < c \/ c < d \/ d = c
      OBVIOUS
    <2> QED BY <1>1, <2>1, <2>2, <2>3, PlacesDiffer
  <1> QED BY <1>2, <1>4, <1>5

\* A call later than all others comes last.
LEMMA InOrderAppend ==
  ASSUME NEW S \in SUBSET Nat, IsFiniteSet(S), NEW n \in Nat,
         \A c \in S : c < n
  PROVE  InOrder(S \cup {n}) = Append(InOrder(S), n)
  <1> DEFINE T == S \cup {n}
             k == Cardinality(S)
  <1>1. S \subseteq Nat /\ T \in SUBSET Nat /\ n \notin S
    OBVIOUS
  <1>2. IsFiniteSet(T) /\ Cardinality(T) = k + 1 /\ k \in Nat
    BY <1>1, FS_AddElement, FS_CardinalityType
  <1>3. ASSUME NEW c \in S
        PROVE  Place(T, c) = Place(S, c)
    <2>1. ~ (n <= c)
      BY <1>1
    <2>2. {b \in T : b <= c} = {b \in S : b <= c}
      BY <2>1
    <2> QED BY <2>2 DEF Place
  <1>4. Place(T, n) = k + 1
    <2>1. \A c \in T : c <= n
      BY <1>1
    <2>2. {b \in T : b <= n} = T
      BY <2>1
    <2> QED BY <1>2, <2>2 DEF Place
  <1>5. /\ InOrder(S) \in Seq(S) /\ Len(InOrder(S)) = k
        /\ \A i \in 1..k : Place(S, InOrder(S)[i]) = i
    BY InOrderLists
  <1>6. /\ InOrder(T) \in Seq(T) /\ Len(InOrder(T)) = k + 1
        /\ \A c \in T : InOrder(T)[Place(T, c)] = c
    BY <1>1, <1>2, InOrderLists
  <1> DEFINE s == InOrder(S)
             t == InOrder(T)
  <1>7. s \in Seq(T) /\ n \in T
    BY <1>5, SeqMonotonic
  <1>8. /\ Append(s, n) \in Seq(T) /\ Len(Append(s, n)) = k + 1
        /\ \A i \in 1..k : Append(s, n)[i] = s[i]
        /\ Append(s, n)[k + 1] = n
    BY <1>5, <1>7, AppendProperties
  <1>9. ASSUME NEW i \in 1..k
        PROVE  t[i] = s[i]
    <2>1. s[i] \in S
      BY <1>5, ElementOfSeq
    <2>2. Place(T, s[i]) = i
      BY <1>3, <1>5, <2>1
    <2> QED BY <1>6, <2>1, <2>2
  <1>10. t[k + 1] = n
    BY <1>4, <1>6, <1>7
  <1> HIDE DEF T, k, s, t
  <1>11. \A i \in 1..(k + 1) : t[i] = Append(s, n)[i]
    BY <1>2, <1>8, <1>9, <1>10
  <1> QED BY <1>6, <1>8, <1>11, SeqEqual DEF s, t, T

\* The earliest call comes first, and without it the rest keep their order.
LEMMA InOrderFirst ==
  ASSUME NEW S \in SUBSET Nat, IsFiniteSet(S), NEW m \in S,
         \A c \in S : m <= c
  PROVE  /\ InOrder(S) # <<>> /\ Head(InOrder(S)) = m
         /\ InOrder(S \ {m}) = Tail(InOrder(S))
  <1> DEFINE T == S \ {m}
             k == Cardinality(S)
             s == InOrder(S)
             t == InOrder(T)
  <1>1. S \subseteq Nat /\ T \in SUBSET Nat
    OBVIOUS
  <1>2. IsFiniteSet(T) /\ Cardinality(T) = k - 1 /\ k \in Nat /\ k # 0
    BY FS_RemoveElement, FS_CardinalityType, FS_EmptySet
  <1>3. Place(S, m) = 1
    <2>1. \A c \in S : c <= m => c = m
      BY <1>1
    <2>2. m <= m
      BY <1>1
    <2>3. {b \in S : b <= m} = {m}
      BY <2>1, <2>2
    <2> QED BY <2>3, FS_Singleton DEF Place
  <1>4. ASSUME NEW c \in T
        PROVE  Place(S, c) = Place(T, c) + 1
    <2> DEFINE U == {b \in T : b <= c}
    <2>1. {b \in S : b <= c} = U \cup {m} /\ m \notin U
      OBVIOUS
    <2>2. IsFiniteSet(U)
      BY <1>2, FS_Subset
    <2>3. Cardinality(U \cup {m}) = Cardinality(U) + 1
      BY <2>1, <2>2, FS_AddElement
    <2>4. Place(S, c) = Cardinality(U \cup {m}) /\ Place(T, c) = Cardinality(U)
      BY <2>1 DEF Place
    <2> HIDE DEF U
    <2> QED BY <2>3, <2>4
  <1>5. /\ s \in Seq(S) /\ Len(s) = k
        /\ \A c \in S : s[Place(S, c)] = c
    BY InOrderLists
  <1>6. /\ t \in Seq(T) /\ Len(t) = k - 1
        /\ \A i \in 1..(k - 1) : Place(T, t[i]) = i
    BY <1>1, <1>2, InOrderLists
  <1>7. s # <<>> /\ Head(s) = m
    BY <1>2, <1>3, <1>5
  <1>8. /\ Tail(s) \in Seq(S) /\ Len(Tail(s)) = k - 1
        /\ \A i \in 1..(k - 1) : Tail(s)[i] = s[i + 1]
    BY <1>5, <1>7, HeadTailProperties
  <1>9. ASSUME NEW i \in 1..(k - 1)
        PROVE  t[i] = Tail(s)[i]
    <2>1. t[i] \in T
      BY <1>6, ElementOfSeq
    <2>2. Place(S, t[i]) = i + 1
      BY <1>4, <1>6, <2>1
    <2>3. s[i + 1] = t[i]
      BY <1>5, <2>1, <2>2
    <2> QED BY <1>8, <2>3
  <1>10. t \in Seq(S)
    BY <1>6, SeqMonotonic
  <1> HIDE DEF T, k, s, t
  <1>11. t = Tail(s)
    BY <1>6, <1>8, <1>9, <1>10, SeqEqual
  <1> QED BY <1>7, <1>11 DEF s, t, T

-----------------------------------------------------------------------------
(* The refinement: a chain of promises is a lock with a line per key *)

\* The line of a key lists its pending calls, and nothing else.
LEMMA Lines ==
  ASSUME TypeOK, NEW k \in Keys
  PROVE  /\ Pending(k) \in SUBSET Nat /\ IsFiniteSet(Pending(k))
         /\ Pending(k) \subseteq Made /\ Made \subseteq Calls
         /\ line[k] = InOrder(Pending(k))
         /\ \A i \in DOMAIN line[k] : line[k][i] \in Made
  <1>1. Pending(k) \subseteq Made /\ Made \subseteq Calls
    BY MaxCallsAssumption DEF Pending, TypeOK, Made, Calls
  <1>2. Pending(k) \in SUBSET Nat /\ Pending(k) \in SUBSET Calls
    <2>1. Calls \subseteq Nat
      BY MaxCallsAssumption DEF Calls
    <2> QED BY <1>1, <2>1
  <1>3. IsFiniteSet(Pending(k))
    <2>1. IsFiniteSet(Calls)
      BY MaxCallsAssumption, FS_Interval DEF Calls
    <2> QED BY <1>2, <2>1, FS_Subset
  <1>4. line[k] = InOrder(Pending(k))
    BY DEF line
  <1>5. InOrder(Pending(k)) \in Seq(Pending(k))
    BY <1>2, <1>3, InOrderLists
  <1> QED BY <1>1, <1>2, <1>3, <1>4, <1>5

\* A call whose callback runs, or begins, is the first of its line.
LEMMA RunningIsFirst ==
  ASSUME TypeOK, Ordered, NEW c \in Made, pc[c] = "running"
  PROVE  \A b \in Pending(keyOf[c]) : c <= b
  <1> SUFFICES ASSUME NEW b \in Pending(keyOf[c])
               PROVE  c <= b
    OBVIOUS
  <1>1. b \in Made /\ keyOf[b] = keyOf[c] /\ pc[b] \notin Released
    BY DEF Pending, Released
  <1>2. ~(b < c)
    BY <1>1 DEF Ordered
  <1>3. b \in Nat /\ c \in Nat
    BY <1>1 DEF TypeOK, Made
  <1> QED BY <1>2, <1>3

\* A new call joins the end of the line of its key.
LEMMA CallJoins ==
  ASSUME IInv, IInv', NEW k \in Keys, RunExclusive(k)
  PROVE  \E c \in Calls : Lock!Join(k, c)
  <1> DEFINE c == Len(keyOf) + 1
  <1>1. /\ c \in Calls /\ c \notin Made /\ Made' = Made \cup {c}
        /\ \A b \in Made : b < c /\ keyOf'[b] = keyOf[b]
        /\ keyOf'[c] = k
    BY MaxCallsAssumption DEF IInv, TypeOK, RunExclusive, Made, Calls
  <1>2. /\ \A b \in Made : pc'[b] = pc[b]
        /\ pc'[c] = "waiting"
    BY <1>1 DEF IInv, TypeOK, RunExclusive
  <1>3. Pending(k)' = Pending(k) \cup {c}
    BY <1>1, <1>2 DEF Pending
  <1>4. \A j \in Keys \ {k} : Pending(j)' = Pending(j)
    BY <1>1, <1>2 DEF Pending
  <1>5. \A j \in Keys : \A i \in DOMAIN line[j] : line[j][i] # c
    BY <1>1, Lines DEF IInv
  <1>6. InOrder(Pending(k) \cup {c}) = Append(InOrder(Pending(k)), c)
    <2>1. c \in Nat /\ \A b \in Pending(k) : b < c
      BY <1>1, Lines DEF Calls, IInv
    <2> HIDE DEF c
    <2> QED BY <2>1, Lines, InOrderAppend DEF IInv
  <1>7. line' = [line EXCEPT ![k] = Append(@, c)]
    <2>1. line' = [j \in Keys |-> InOrder(Pending(j)')]
      BY DEF line, InOrder, Place
    <2>2. line' = [j \in Keys |-> IF j = k THEN Append(InOrder(Pending(k)), c)
                                           ELSE InOrder(Pending(j))]
      BY <1>3, <1>4, <1>6, <2>1
    <2> HIDE DEF c
    <2> QED BY <2>2 DEF line
  <1>8. inside' = inside
    BY <1>1, <1>2 DEF inside
  <1> HIDE DEF c
  <1> QED BY <1>1, <1>5, <1>7, <1>8
          DEF Lock!Join, Lock!InLine

\* A callback begins in its turn, and no line changes.
LEMMA CallEnters ==
  ASSUME IInv, IInv', NEW c \in Made, Begin(c)
  PROVE  Lock!Enter(keyOf[c], c)
  <1>1. c \in Calls /\ keyOf[c] \in Keys /\ Made' = Made
    BY Lines, MaxCallsAssumption DEF IInv, TypeOK, Made, Calls, Begin
  <1>2. /\ pc[c] = "waiting" /\ pc'[c] = "running" /\ keyOf' = keyOf
        /\ \A b \in Calls \ {c} : pc'[b] = pc[b]
        /\ Made \subseteq Calls
    BY <1>1, Lines DEF Begin, IInv, TypeOK
  <1>3. \A k \in Keys : Pending(k)' = Pending(k)
    BY <1>1, <1>2 DEF Pending
  <1>4. line' = line
    <2>1. line' = [k \in Keys |-> InOrder(Pending(k)')]
      BY DEF line, InOrder, Place
    <2> QED BY <1>3, <2>1 DEF line
  <1>5. c \in Pending(keyOf[c])
    BY <1>2 DEF Pending
  <1>6. \A b \in Pending(keyOf[c]) : c <= b
    <2> SUFFICES ASSUME NEW b \in Made, keyOf[b] = keyOf[c], b < c,
                        pc[b] \in {"waiting", "running"}
                 PROVE  FALSE
      BY DEF Pending, IInv, TypeOK, Made
    <2>1. pc'[b] \in Released
      BY <1>1, <1>2 DEF IInv, Ordered, Released
    <2> QED BY <1>2, <2>1 DEF Released, IInv, TypeOK, Made
  <1>7. line[keyOf[c]] # <<>> /\ Head(line[keyOf[c]]) = c
    BY <1>1, <1>5, <1>6, Lines, InOrderFirst DEF IInv
  <1>8. c \notin inside /\ inside' = inside \cup {c}
    BY <1>1, <1>2 DEF inside
  <1> QED BY <1>4, <1>7, <1>8 DEF Lock!Enter

\* A callback that settles leaves the line, however it settles.
LEMMA CallLeaves ==
  ASSUME IInv, NEW c \in Made, Settle(c)
  PROVE  \E k \in Keys : Lock!Leave(k, c)
  <1>1. /\ c \in Calls /\ Made \subseteq Calls /\ keyOf[c] \in Keys
        /\ keyOf' = keyOf /\ Made' = Made
    BY MaxCallsAssumption DEF IInv, TypeOK, Made, Calls, Settle
  <1>2. PICK k \in Keys : k = keyOf[c]
    BY <1>1
  <1>3. /\ pc[c] = "running" /\ pc'[c] \in {"returned", "thrown"}
        /\ \A b \in Calls \ {c} : pc'[b] = pc[b]
    BY <1>1 DEF Settle, IInv, TypeOK
  <1>4. /\ Pending(k)' = Pending(k) \ {c} /\ c \in Pending(k)
        /\ \A j \in Keys \ {k} : Pending(j)' = Pending(j)
    BY <1>1, <1>2, <1>3 DEF Pending
  <1>5. \A b \in Pending(k) : c <= b
    BY <1>2, <1>3, RunningIsFirst DEF IInv
  <1>6. /\ line[k] # <<>> /\ Head(line[k]) = c
        /\ InOrder(Pending(k) \ {c}) = Tail(InOrder(Pending(k)))
    BY <1>4, <1>5, Lines, InOrderFirst DEF IInv
  <1>7. line' = [line EXCEPT ![k] = Tail(@)]
    <2>1. line' = [j \in Keys |-> InOrder(Pending(j)')]
      BY DEF line, InOrder, Place
    <2>2. line' = [j \in Keys |-> IF j = k THEN Tail(InOrder(Pending(k)))
                                           ELSE InOrder(Pending(j))]
      BY <1>4, <1>6, <2>1
    <2> QED BY <2>2 DEF line
  <1>8. c \in inside /\ inside' = inside \ {c}
    BY <1>1, <1>3 DEF inside
  <1> QED BY <1>6, <1>7, <1>8 DEF Lock!Leave

\* What is left of a call after its callback concerns nobody in line.
LEMMA CallCleansUp ==
  ASSUME TypeOK, NEW c \in Made, ResolveTail(c) \/ DropTail(c)
  PROVE  UNCHANGED Lock!lock
  <1>1. c \in Calls /\ Made \subseteq Calls /\ keyOf' = keyOf /\ Made' = Made
    BY MaxCallsAssumption DEF TypeOK, Made, Calls, ResolveTail, DropTail
  <1>2. /\ \A b \in Calls \ {c} : pc'[b] = pc[b]
        /\ {pc[c], pc'[c]} \cap {"waiting", "running"} = {}
    BY <1>1 DEF ResolveTail, DropTail, TypeOK
  <1>3. inside' = inside /\ \A k \in Keys : Pending(k)' = Pending(k)
    BY <1>1, <1>2 DEF inside, Pending
  <1>4. line' = [k \in Keys |-> InOrder(Pending(k)')]
    BY DEF line, InOrder, Place
  <1> QED BY <1>3, <1>4 DEF line, Lock!lock

\* KeyedMutex implements KeyLock: the chain of promises is a first-come,
\* first-served line per key, for any keys and any number of calls.  This is
\* what NetworkMemberships takes the mutex for.
THEOREM ChainIsALock == Spec => IsAKeyLock
  <1>1. Init => Lock!Init
    <2> SUFFICES ASSUME Init PROVE Lock!Init
      OBVIOUS
    <2>1. Made = {}
      BY DEF Init, Made
    <2>2. inside = {} /\ \A k \in Keys : Pending(k) = {}
      BY <2>1 DEF inside, Pending
    <2>3. InOrder({}) = <<>>
      BY FS_EmptySet DEF InOrder
    <2> QED BY <2>2, <2>3 DEF Lock!Init, line
  <1>2. ASSUME IInv, IInv', [Next]_vars
        PROVE  [Lock!Next]_(Lock!lock)
    <2>1. ASSUME NEW k \in Keys, RunExclusive(k)
          PROVE  Lock!Next
      BY <1>2, <2>1, CallJoins DEF Lock!Next
    <2>2. ASSUME NEW c \in Made, Begin(c) \/ Settle(c)
          PROVE  Lock!Next
      <3>0. keyOf \in Seq(Keys) /\ Len(keyOf) <= MaxCalls
        BY <1>2 DEF IInv, TypeOK
      <3>1. c \in Calls /\ keyOf[c] \in Keys
        BY <3>0, MaxCallsAssumption DEF Made, Calls
      <3> QED BY <1>2, <2>2, <3>1, CallEnters, CallLeaves DEF Lock!Next
    <2>3. ASSUME NEW c \in Made, ResolveTail(c) \/ DropTail(c)
          PROVE  UNCHANGED Lock!lock
      BY <1>2, <2>3, CallCleansUp DEF IInv
    <2>4. CASE UNCHANGED vars
      BY <2>4 DEF vars, Lock!lock, line, inside, Pending, Made
    <2> QED BY <1>2, <2>1, <2>2, <2>3, <2>4 DEF Next, Step
  <1> QED BY <1>1, <1>2, Inductive, PTL DEF Spec, IsAKeyLock, Lock!Spec

=============================================================================

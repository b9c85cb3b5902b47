------------------------- MODULE NetworkMemberships -------------------------
(***************************************************************************)
(* The rows that say which networks there should be and who joins them     *)
(* (services/networks), and everyone who writes them: the apply of a       *)
(* stack, the server joining itself, the backfill, destroy and DELETE, and *)
(* the pruning of orphaned memberships. SQLite treats NULLs as distinct,   *)
(* so only the keyed mutex keeps a membership from being written twice.    *)
(*                                                                         *)
(* Two networks: the stacks' own one, whose name comes from the stack's    *)
(* name, so that a later stack of the same name claims the same row; and   *)
(* one shared by its environment. One stack of the name exists at a time,  *)
(* with one service, which an edit replaces.                               *)
(***************************************************************************)
EXTENDS Naturals, Sequences, FiniteSets

CONSTANTS
  Backfills,     \* runs of the backfill that may overlap: boot, POST
  MaxStacks,     \* bound: stacks of the one name ever created
  MaxServices,   \* bound: services those stacks ever have
  MaxRows,       \* bound: rows of networks ever created
  BackfillAlone  \* no destroy while a backfill works from having read the stack

ASSUME BoundsAssumption ==
  /\ MaxStacks \in Nat /\ MaxServices \in Nat /\ MaxRows \in Nat
  /\ BackfillAlone \in BOOLEAN

ASSUME BackfillsAssumption == {"apply", "self"} \cap Backfills = {}

Own == "own"
Shared == "shared"
Names == {Own, Shared}
Self == 0                      \* containerName 'self'; a service is 1, 2, ...
NoRow == [id |-> 0, stackId |-> 0, right |-> FALSE]
Writers == {"apply", "self"} \cup Backfills

\* name:... of one mutex, networkId:stackServiceId:containerName of the other
NameKey(n) == [of |-> "name", name |-> n, id |-> 0, who |-> 0]
MemberKey(id, who) == [of |-> "member", name |-> "", id |-> id, who |-> who]
Keys == {NameKey(n) : n \in Names} \cup
        {MemberKey(id, who) : id \in 1..MaxRows, who \in 0..MaxServices}

VARIABLES
  stacks, stack,   \* stacks ever created; the one that exists, 0: none
  svcs, svc,       \* services ever created; the one of the stack, 0: none
  replaced,        \* services gone by an edit or with a deleted stack
  deleted,         \* stacks ended by DELETE
  docked,          \* Docker has the stack's own network
  rows,            \* rows of ManagedNetwork ever created
  net,             \* ManagedNetwork by its unique name
  members,         \* NetworkMembership: how many rows of a network and member
  at,              \* where a writer stands
  todo,            \* what it has left to do
  ids,             \* the rows of the networks it has found
  pruneAt,         \* where the pruning stands
  seen, alive,     \* the memberships it read, and the service
  line, inside     \* the two mutexes

db == <<net, members, rows>>
life == <<stacks, stack, svcs, svc, replaced, deleted, docked>>
mine == <<at, todo, ids>>
prune == <<pruneAt, seen, alive>>
mutex == <<line, inside>>
vars == <<db, life, mine, prune, mutex>>

Mutex == INSTANCE KeyLock WITH Clients <- Writers

-----------------------------------------------------------------------------
(* What a writer does, as a list *)

\* upsertManagedNetworkByIdentity, by the stack that owns it (0: nobody does)
ByIdentity(n, s) == [do |-> "identity", name |-> n, stackId |-> s, who |-> 0]

\* findOrCreateManagedNetworkByName; its guess at the identity may be wrong
ByName(n, guess) == [do |-> guess, name |-> n, stackId |-> 0, who |-> 0]
Right == "right"
Wrong == "wrong"
Member(n, who) == [do |-> "member", name |-> n, stackId |-> 0, who |-> who]

\* Steps of the backfill only
Look(n) == [do |-> "look", name |-> n, stackId |-> 0, who |-> 0]
ReadStacks == [do |-> "stacks", name |-> Own, stackId |-> 0, who |-> 0]
Exists(n) == [do |-> "exists", name |-> n, stackId |-> 0, who |-> 0]

\* compileStackNetworkMemberships: the stack's own network, and a
\* joinNetworks entry naming the environment's network, taken for a host one
Compile(s, v) ==
  <<ByIdentity(Own, s), Member(Own, v), ByName(Shared, Wrong),
    Member(Shared, v)>>

JoinSelf == <<ByName(Shared, Right), Member(Shared, Self)>>

\* backfillNetworkMemberships: the resources' networks first, then the stacks'
Backfill == <<Look(Shared), Member(Shared, Self), ReadStacks>>
BackfillStack(s, v) == <<Exists(Own)>> \o Compile(s, v)

NoIds == [n \in Names |-> 0]

Init ==
  /\ stacks = 0 /\ stack = 0 /\ svcs = 0 /\ svc = 0
  /\ replaced = {} /\ deleted = {}
  /\ docked = FALSE
  /\ rows = 0 /\ net = [n \in Names |-> NoRow]
  /\ members = [m \in (1..MaxRows) \X (0..MaxServices) |-> 0]
  /\ at = [w \in Writers |-> "idle"]
  /\ todo = [w \in Writers |-> <<>>]
  /\ ids = [w \in Writers |-> NoIds]
  /\ pruneAt = "idle" /\ seen = {} /\ alive = 0
  /\ Mutex!Init

Begin(w, list) ==
  /\ at[w] = "idle"
  /\ at' = [at EXCEPT ![w] = "next"]
  /\ todo' = [todo EXCEPT ![w] = list]
  /\ UNCHANGED ids

Now(w) == Head(todo[w])

Row(w) == ids[w][Now(w).name]

\* The membership it is at
Membership(w) == <<Row(w), Now(w).who>>

Finishes(w) ==
  /\ at' = [at EXCEPT ![w] = "idle"]
  /\ todo' = [todo EXCEPT ![w] = <<>>]
  /\ ids' = [ids EXCEPT ![w] = NoIds]

\* On to the next entry, or done; it remembers the row it found.
Advance(w, id, list) ==
  IF list = <<>> THEN Finishes(w)
  ELSE /\ todo' = [todo EXCEPT ![w] = list]
       /\ at' = [at EXCEPT ![w] = "next"]
       /\ ids' = [ids EXCEPT ![w][Now(w).name] = IF id = 0 THEN @ ELSE id]

MovesOn(w, id) == Advance(w, id, Tail(todo[w]))

Goes(w, where) == at' = [at EXCEPT ![w] = where] /\ UNCHANGED <<todo, ids>>

-----------------------------------------------------------------------------
(* The store: every write is a read and a write under the mutex *)

\* Slip: the apply locks a mutex of its own.
KeyOfWriter(w) ==
  IF w = "apply" THEN MemberKey(1, 0) ELSE NameKey(Now(w).name)

KeyOf(w) ==
  IF Now(w).do = "member" THEN MemberKey(Row(w), Now(w).who)
  ELSE NameKey(Now(w).name)

\* runExclusive(...)
Queue(w) ==
  /\ at[w] = "next" /\ Now(w).do \in {"identity", Right, Wrong, "member"}
  /\ Now(w).do = "member" => Row(w) # 0
  /\ Mutex!Join(KeyOf(w), w)
  /\ Goes(w, "queued")
  /\ UNCHANGED <<db, life, prune>>

\* A network without a row (its Docker network is absent) is skipped.
SkipMember(w) ==
  /\ at[w] = "next" /\ Now(w).do = "member" /\ Row(w) = 0
  /\ MovesOn(w, 0)
  /\ UNCHANGED <<db, life, prune, mutex>>

Holds(w) == \E k \in Keys : Mutex!Enter(k, w)
Frees(w) == \E k \in Keys : Mutex!Leave(k, w)

Enter(w) ==
  /\ at[w] = "queued"
  /\ Holds(w)
  /\ Goes(w, CASE Now(w).do = "identity" -> "findIdentity"
             [] Now(w).do = "member" -> "findMember"
             [] OTHER -> "findName")
  /\ UNCHANGED <<db, life, prune>>

\* findFirst by (scope, environmentId, stackId, purpose)
SameIdentity(w, row) ==
  /\ row.id # 0
  /\ IF Now(w).name = Own THEN row.stackId = Now(w).stackId ELSE row.right

FindIdentity(w) ==
  /\ at[w] = "findIdentity"
  /\ LET row == net[Now(w).name] IN
     \/ /\ SameIdentity(w, row)
        /\ MovesOn(w, row.id) /\ Frees(w)
     \/ /\ ~ SameIdentity(w, row)
        /\ Goes(w, "findName") /\ UNCHANGED mutex
  /\ UNCHANGED <<db, life, prune>>

\* Slip: a row found by name takes the identity of whoever finds it.
FindNameRewrites(w) ==
  /\ at[w] = "findName"
  /\ LET row == net[Now(w).name] IN
     \/ /\ row.id # 0
        /\ net' = [net EXCEPT ![Now(w).name].right = Now(w).do # Wrong]
        /\ MovesOn(w, row.id) /\ Frees(w)
     \/ /\ row.id = 0
        /\ Goes(w, "create") /\ UNCHANGED <<mutex, net>>
  /\ UNCHANGED <<members, rows, life, prune>>

\* findUnique by name: found, it is taken as it is.
FindName(w) ==
  /\ at[w] = "findName"
  /\ LET row == net[Now(w).name] IN
     \/ /\ row.id # 0
        /\ MovesOn(w, row.id) /\ Frees(w)
     \/ /\ row.id = 0
        /\ Goes(w, "create") /\ UNCHANGED mutex
  /\ UNCHANGED <<db, life, prune>>

\* What was thrown ends the whole list: safeMembershipWrite swallows it for
\* an apply and a self-join, the callers of the backfill for the backfill.
Throws(w) == Finishes(w) /\ Frees(w)

\* The name is unique in the database: a create that finds it taken throws.
CreateNetwork(w) ==
  /\ at[w] = "create"
  /\ \/ /\ net[Now(w).name].id # 0
        /\ Throws(w) /\ UNCHANGED db
     \/ /\ net[Now(w).name].id = 0 /\ rows < MaxRows
        /\ rows' = rows + 1
        /\ net' = [net EXCEPT ![Now(w).name] =
                     [id |-> rows', stackId |-> Now(w).stackId,
                      right |-> Now(w).do # Wrong]]
        /\ MovesOn(w, rows') /\ Frees(w) /\ UNCHANGED members
  /\ UNCHANGED <<life, prune>>

\* findFirst, then an update of the aliases, which only the memberships of the
\* stack's own network have, or a create
FindMember(w) ==
  /\ at[w] = "findMember"
  /\ \/ /\ members[Membership(w)] > 0 /\ Now(w).name = Own
        /\ Goes(w, "update") /\ UNCHANGED mutex
     \/ /\ members[Membership(w)] > 0 /\ Now(w).name # Own
        /\ MovesOn(w, 0) /\ Frees(w)
     \/ /\ members[Membership(w)] = 0
        /\ Goes(w, "insert") /\ UNCHANGED mutex
  /\ UNCHANGED <<db, life, prune>>

\* The aliases are rewritten; the row may be gone by now, and update throws.
UpdateMember(w) ==
  /\ at[w] = "update"
  /\ \/ members[Membership(w)] > 0 /\ MovesOn(w, 0) /\ Frees(w)
     \/ members[Membership(w)] = 0 /\ Throws(w)
  /\ UNCHANGED <<db, life, prune>>

\* networkId is a foreign key; stackServiceId is not.
InsertMember(w) ==
  /\ at[w] = "insert"
  /\ \/ /\ \E n \in Names : net[n].id = Row(w)
        /\ members' = [members EXCEPT ![Membership(w)] = @ + 1]
        /\ MovesOn(w, 0) /\ Frees(w) /\ UNCHANGED <<net, rows>>
     \/ /\ \A n \in Names : net[n].id # Row(w)
        /\ Throws(w) /\ UNCHANGED db
  /\ UNCHANGED <<life, prune>>

-----------------------------------------------------------------------------
(* The backfill: its own steps, outside the mutex *)

\* findUnique; a row with another identity is corrected below, else upserted.
LookUp(w) ==
  /\ at[w] = "next" /\ Now(w).do = "look"
  /\ LET row == net[Now(w).name] IN
     \/ /\ row.id # 0 /\ ~ row.right
        /\ Goes(w, "correct")
     \/ /\ row.id = 0 \/ row.right
        /\ Advance(w, 0, <<ByIdentity(Now(w).name, 0)>> \o Tail(todo[w]))
  /\ UNCHANGED <<db, life, prune, mutex>>

\* The InfraResource's scope, environment and purpose are the true ones.
Correct(w) ==
  /\ at[w] = "correct"
  /\ net' = [net EXCEPT ![Now(w).name].right = TRUE]
  /\ MovesOn(w, net[Now(w).name].id)
  /\ UNCHANGED <<members, rows, life, prune, mutex>>

Ending == {"dropNetworks", "dropMembers", "dropStack"}

\* All stacks with their services, read once for the whole loop below
ReadsStacks(w) ==
  /\ at[w] = "next" /\ Now(w).do = "stacks"
  /\ BackfillAlone => at["apply"] \notin Ending
  /\ Advance(w, 0, IF stack = 0 THEN <<>> ELSE BackfillStack(stack, svc))
  /\ UNCHANGED <<db, life, prune, mutex>>

\* networkManager.exists(): absent skips the network, and unknown does too.
LooksForNetwork(w) ==
  /\ at[w] = "next" /\ Now(w).do = "exists"
  /\ \/ docked /\ MovesOn(w, 0)
     \/ Advance(w, 0, Tail(Tail(todo[w])))
  /\ UNCHANGED <<db, life, prune, mutex>>

\* A backfill works from a stack it has read.
HasRead(w) == at[w] # "idle" /\ ReadStacks \notin {todo[w][i] : i \in DOMAIN todo[w]}

MayEnd == BackfillAlone => \A w \in Backfills : ~ HasRead(w)

-----------------------------------------------------------------------------
(* The life of the stacks *)

CreateStack ==
  /\ stack = 0 /\ stacks < MaxStacks /\ svcs < MaxServices
  /\ stacks' = stacks + 1 /\ stack' = stacks'
  /\ svcs' = svcs + 1 /\ svc' = svcs'
  /\ UNCHANGED <<replaced, deleted, docked, db, mine, prune, mutex>>

\* The apply reads the services, makes the networks in Docker, then compiles.
Apply ==
  /\ stack # 0
  /\ Begin("apply", Compile(stack, svc))
  /\ docked' = TRUE
  /\ UNCHANGED <<stacks, stack, svcs, svc, replaced, deleted, db, prune, mutex>>

\* PUT of the stack deletes its services and creates them anew.
Edit ==
  /\ stack # 0 /\ at["apply"] = "idle" /\ svcs < MaxServices
  /\ svcs' = svcs + 1 /\ svc' = svcs'
  /\ replaced' = replaced \cup {svc}
  /\ UNCHANGED <<stacks, stack, deleted, docked, db, mine, prune, mutex>>

\* removeStackNetworksAndVolumes, under the lock of the operation
Destroy ==
  /\ stack # 0 /\ at["apply"] = "idle" /\ MayEnd
  /\ docked' = FALSE
  /\ Goes("apply", "dropNetworks")
  /\ UNCHANGED <<stacks, stack, svcs, svc, replaced, deleted, db, prune, mutex>>

\* removeStackManagedNetworks: the stack's rows go, and theirs by cascade
DropNetworks ==
  /\ at["apply"] = "dropNetworks"
  /\ LET gone == {n \in Names : net[n].stackId = stack /\ net[n].id # 0} IN
     /\ net' = [n \in Names |-> IF n \in gone THEN NoRow ELSE net[n]]
     /\ members' = [m \in DOMAIN members |->
          IF \E n \in gone : net[n].id = m[1] THEN 0 ELSE members[m]]
  /\ Goes("apply", "dropMembers")
  /\ UNCHANGED <<rows, life, prune, mutex>>

\* Slip: the cascade is trusted with the memberships.
DropMembersByCascade ==
  /\ at["apply"] = "dropMembers"
  /\ Goes("apply", "dropStack")
  /\ UNCHANGED <<db, life, prune, mutex>>

\* The memberships of its services on networks it merely joined
DropMembers ==
  /\ at["apply"] = "dropMembers"
  /\ members' = [m \in DOMAIN members |-> IF m[2] = svc THEN 0 ELSE members[m]]
  /\ Goes("apply", "dropStack")
  /\ UNCHANGED <<net, rows, life, prune, mutex>>

DropStack ==
  /\ at["apply"] = "dropStack"
  /\ stack' = 0 /\ svc' = 0
  /\ Goes("apply", "idle")
  /\ UNCHANGED <<stacks, svcs, replaced, deleted, docked, db, prune, mutex>>

\* DELETE /stacks/:stackId of a stack without containers: only its row goes.
Delete ==
  /\ stack # 0 /\ at["apply"] = "idle"
  /\ stack' = 0 /\ svc' = 0
  /\ deleted' = deleted \cup {stack} /\ replaced' = replaced \cup {svc}
  /\ UNCHANGED <<stacks, svcs, docked, db, mine, prune, mutex>>

-----------------------------------------------------------------------------
(* The pruning of memberships whose service is gone *)

PruneMembers ==
  /\ pruneAt = "idle"
  /\ seen' = {m \in DOMAIN members : m[2] # Self /\ members[m] > 0}
  /\ pruneAt' = "services"
  /\ UNCHANGED <<alive, db, life, mine, mutex>>

PruneServices ==
  /\ pruneAt = "services"
  /\ alive' = svc
  /\ pruneAt' = "delete"
  /\ UNCHANGED <<seen, db, life, mine, mutex>>

Drop(orphans) ==
  /\ members' = [m \in DOMAIN members |-> IF m \in orphans THEN 0 ELSE members[m]]
  /\ pruneAt' = "idle" /\ seen' = {} /\ alive' = 0
  /\ UNCHANGED <<net, rows, life, mine, mutex>>

\* Slip: deleteMany where the service is not among those read.
PruneDeleteNotIn ==
  /\ pruneAt = "delete"
  /\ Drop({m \in DOMAIN members : m[2] \notin {Self, alive}})

\* By the ids of the rows read at first
PruneDelete ==
  /\ pruneAt = "delete"
  /\ Drop({m \in seen : m[2] # alive})

-----------------------------------------------------------------------------

Store(w) ==
  \/ Queue(w) \/ SkipMember(w) \/ Enter(w)
  \/ FindIdentity(w) \/ FindName(w) \/ CreateNetwork(w)
  \/ FindMember(w) \/ UpdateMember(w) \/ InsertMember(w)

RunBackfill(w) ==
  /\ Begin(w, Backfill)
  /\ UNCHANGED <<db, life, prune, mutex>>

BackfillStep(w) ==
  RunBackfill(w) \/ LookUp(w) \/ Correct(w) \/ ReadsStacks(w) \/ LooksForNetwork(w)

ConnectSelf ==
  /\ Begin("self", JoinSelf)
  /\ UNCHANGED <<db, life, prune, mutex>>

Life ==
  CreateStack \/ Apply \/ Edit \/ Destroy \/ DropNetworks \/ DropMembers
  \/ DropStack \/ Delete

Prune == PruneMembers \/ PruneServices \/ PruneDelete

Next ==
  \/ \E w \in Writers : Store(w)
  \/ \E w \in Backfills : BackfillStep(w)
  \/ ConnectSelf \/ Life \/ Prune

Spec == Init /\ [][Next]_vars

-----------------------------------------------------------------------------
(* Properties *)

Places == {"idle", "next", "queued", "findIdentity", "findName", "create",
           "findMember", "update", "insert", "correct",
           "dropNetworks", "dropMembers", "dropStack"}

TypeOK ==
  /\ stacks \in 0..MaxStacks /\ stack \in 0..stacks
  /\ svcs \in 0..MaxServices /\ svc \in 0..svcs
  /\ replaced \subseteq 1..svcs /\ deleted \subseteq 1..stacks /\ docked \in BOOLEAN
  /\ rows \in 0..MaxRows
  /\ net \in [Names -> [id : 0..rows, stackId : 0..stacks, right : BOOLEAN]]
  /\ members \in [(1..MaxRows) \X (0..MaxServices) -> Nat]
  /\ at \in [Writers -> Places]
  /\ ids \in [Writers -> [Names -> 0..rows]]

\* A network and a member have at most one membership row, although the
\* database does not enforce it and the apply, the self-join and the backfill
\* write the same rows at the same time.
OneRowEach == \A m \in DOMAIN members : members[m] <= 1

\* A create never meets a taken name: every producer that could have created
\* the network in between is serialised with it, so no apply loses its
\* memberships to a unique violation.
NeverCollides ==
  \A w \in Writers : at[w] = "create" => net[Now(w).name].id = 0

\* A destroyed stack leaves no network row that a later stack of the same name
\* would claim as its own, and no membership on the networks it joined: what
\* is left is of services an edit had replaced and of stacks ended by DELETE.
NothingOutlivesDestroy ==
  /\ \A n \in Names : net[n].stackId \in {0, stack} \cup deleted
  /\ \A m \in DOMAIN members :
       members[m] > 0 => m[2] \in {Self, svc} \cup replaced

\* Once the shared network's row has its true identity, nobody's guess ever
\* replaces it.
RightStaysRight == [][net[Shared].right => net'[Shared].right]_vars

\* While its stack is not being destroyed, a service keeps its memberships:
\* the pruning decides by rows and services it read at two earlier times, and
\* still takes nothing from a service that exists.
LiveKeepsMembership ==
  [][at["apply"] \notin Ending /\ svc # 0 /\ svc' = svc =>
       \A id \in 1..MaxRows : members[<<id, svc>>] > 0 => members'[<<id, svc>>] > 0]_vars

=============================================================================

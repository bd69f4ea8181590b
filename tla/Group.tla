------------------------------- MODULE Group --------------------------------
(***************************************************************************)
(* The group service: who is in a group, in which role, which applications *)
(* wait, and the version logs clients sync from.                           *)
(*                                                                         *)
(* A handler reads rows (through a cache), decides, and then runs one      *)
(* transaction of the store with what it decided, while other handlers     *)
(* run theirs.  An action Ask... is the reading part: its guard is what    *)
(* the handler requires, its effect the transaction it is about to run.    *)
(* An action named after the store is the transaction, with the rows it    *)
(* reads again under locks; its error returns are Refused.  The reads of   *)
(* one handler are one step; how long ago it was is left open, which is    *)
(* also what a cached row amounts to.                                      *)
(*                                                                         *)
(* Left out: profiles, the mute of one member, notices, webhooks, rate     *)
(* limits, and the calls to other services after the transaction.          *)
(***************************************************************************)
EXTENDS VersionLog, Integers, FiniteSets

CONSTANTS
  User,              \* numbers, because batches are sorted by user id
  GroupID,
  Call,              \* handlers in progress
  Founder,           \* bound: the users who create groups
  Limit,             \* memberCap
  Verify,            \* NeedVerification of each group
  MaxVersion         \* bound: no new handler once a member log is this long

ASSUME GroupAssumption ==
  /\ User \subseteq Nat /\ IsFiniteSet(User)
  /\ Founder \subseteq User
  /\ Limit \in Nat \ {0}
  /\ Verify \in [GroupID -> {"invite direct", "all", "directly"}]
  /\ MaxVersion \in Nat

VARIABLES
  status,            \* the group row: "none" before it is created
  role,              \* member rows: "none" for no row
  request,           \* application rows: "none" for no row
  joinLog,           \* per user: the groups joined
  memberLog,         \* per group: the members, the group row and the sort order
  call               \* per handler: the transaction it is about to run

vars == <<status, role, request, joinLog, memberLog, call>>

Statuses == {"none", "ok", "muted", "dismissed"}
Roles == {"none", "ordinary", "admin", "owner"}
Results == {"none", "pending", "agreed", "refused"}

\* Elements of a member log that are not users: "" and model.SortElemID.
GroupRow == -1
SortRow == -2
MemberElem == User \cup {GroupRow, SortRow}

Idle == [tx |-> "idle"]

Txs ==
  {Idle}
  \cup [tx : {"AddMembers", "CreateRequests"}, g : GroupID, users : SUBSET User]
  \cup [tx : {"HandleRequest"}, g : GroupID, user : User,
        result : {"agreed", "refused"}, enter : BOOLEAN]
  \cup [tx : {"DeleteMember"}, g : GroupID, user : User]
  \cup [tx : {"TransferOwner"}, g : GroupID, old : User, new : User]
  \cup [tx : {"UpdateGroupMembers"}, g : GroupID, user : User,
        role : {"keep", "ordinary", "admin"}]
  \cup [tx : {"SetGroupMuted"}, g : GroupID, status : {"ok", "muted"}]
  \cup [tx : {"DismissGroup"}, g : GroupID, clear : BOOLEAN]
  \cup [tx : {"DeleteGroupMembers"}, g : GroupID]

Members(g) == {u \in User : role[g][u] # "none"}
Owners(g) == {u \in User : role[g][u] = "owner"}
Active(g) == status[g] \in {"ok", "muted"}
Exists(g) == status[g] # "none"
Manager(g, u) == role[g][u] \in {"owner", "admin"}

Init ==
  /\ status = [g \in GroupID |-> "none"]
  /\ role = [g \in GroupID |-> [u \in User |-> "none"]]
  /\ request = [g \in GroupID |-> [u \in User |-> "none"]]
  /\ joinLog = [u \in User |-> EmptyLog(GroupID)]
  /\ memberLog = [g \in GroupID |-> EmptyLog(MemberElem)]
  /\ call = [c \in Call |-> Idle]
-----------------------------------------------------------------------------
(***************************************************************************)
(* What the transactions share.                                            *)
(***************************************************************************)
InOrder(us) == [i \in 1..Cardinality(us) |->
                  CHOOSE u \in us : Cardinality({v \in us : v < u}) = i - 1]

IncrMembers(g, eids, state) ==
  memberLog' = [memberLog EXCEPT ![g] = IncrVersion(@, eids, state)]

IncrJoin(g, us, state) ==
  joinLog' = [u \in User |-> IF u \in us THEN IncrVersion(joinLog[u], <<g>>, state)
                             ELSE joinLog[u]]

\* insertMembers and writeJoin.
InsertMembers(g, us, roleOf) ==
  /\ role' = [role EXCEPT ![g] = [u \in User |-> IF u \in us THEN roleOf[u] ELSE @[u]]]
  /\ IncrMembers(g, InOrder(us), "insert")
  /\ IncrJoin(g, us, "insert")

Ordinary(us) == [u \in us |-> "ordinary"]

\* roomFor, after the row of the group was locked.
RoomFor_OneMore(g, us) == Cardinality(Members(g)) < Limit
RoomFor(g, us) == Cardinality(Members(g)) + Cardinality(us) <= Limit

Done(c) == call' = [call EXCEPT ![c] = Idle]
Running(c, tx) == call[c].tx = tx
-----------------------------------------------------------------------------
(***************************************************************************)
(* The store: one transaction per action.                                  *)
(***************************************************************************)
\* CreateGroup: nothing else knows the new id, so reading and writing are one.
CreateGroup(g, owner, others) ==
  /\ status[g] = "none"
  /\ owner \notin others
  /\ Cardinality(others) + 1 <= Limit
  /\ status' = [status EXCEPT ![g] = "ok"]
  /\ InsertMembers(g, others \cup {owner},
                   [u \in others \cup {owner} |-> IF u = owner THEN "owner" ELSE "ordinary"])
  /\ UNCHANGED <<request, call>>

CanAdd(t) == /\ Active(t.g)
             /\ RoomFor(t.g, t.users)
             /\ t.users \cap Members(t.g) = {}

\* Entrants are ordinary members: the webhook before a join, which may name
\* admins but no owner, is left out.
AddMembers(c) ==
  /\ Running(c, "AddMembers")
  /\ CanAdd(call[c])
  /\ InsertMembers(call[c].g, call[c].users, Ordinary(call[c].users))
  /\ Done(c)
  /\ UNCHANGED <<status, request>>

CanRequest(t) == \A u \in t.users : request[t.g][u] # "pending"

CreateRequests(c) ==
  /\ Running(c, "CreateRequests")
  /\ CanRequest(call[c])
  /\ request' = [request EXCEPT ![call[c].g] =
                   [u \in User |-> IF u \in call[c].users THEN "pending" ELSE @[u]]]
  /\ Done(c)
  /\ UNCHANGED <<status, role, joinLog, memberLog>>

CanHandle_AnyResult(t) ==
  t.enter => Active(t.g) /\ RoomFor(t.g, {t.user}) /\ t.user \notin Members(t.g)

\* The group is only looked at when the user is to enter it.
CanHandle(t) ==
  /\ request[t.g][t.user] = "pending"
  /\ t.enter => /\ Active(t.g)
                /\ RoomFor(t.g, {t.user})
                /\ t.user \notin Members(t.g)

HandleRequest(c) ==
  LET t == call[c] IN
  /\ Running(c, "HandleRequest")
  /\ CanHandle(t)
  /\ request' = [request EXCEPT ![t.g][t.user] = t.result]
  /\ IF t.enter THEN InsertMembers(t.g, {t.user}, Ordinary({t.user}))
                ELSE UNCHANGED <<role, joinLog, memberLog>>
  /\ Done(c)
  /\ UNCHANGED status

CanDelete(t) == t.user \in Members(t.g)

\* DeleteMember looks neither at the group nor at the role.
DeleteMember(c) ==
  LET t == call[c] IN
  /\ Running(c, "DeleteMember")
  /\ CanDelete(t)
  /\ role' = [role EXCEPT ![t.g][t.user] = "none"]
  /\ IncrMembers(t.g, <<t.user>>, "delete")
  /\ IncrJoin(t.g, {t.user}, "delete")
  /\ Done(c)
  /\ UNCHANGED <<status, request>>

CanTransfer_Unchecked(t) ==
  /\ Active(t.g)
  /\ {t.old, t.new} \subseteq Members(t.g)

CanTransfer(t) ==
  /\ Active(t.g)
  /\ role[t.g][t.old] = "owner"
  /\ role[t.g][t.new] # "none"

\* The old owner takes the role the new one had.
TransferOwner(c) ==
  LET t == call[c] IN
  /\ Running(c, "TransferOwner")
  /\ CanTransfer(t)
  /\ role' = [role EXCEPT ![t.g][t.old] = role[t.g][t.new], ![t.g][t.new] = "owner"]
  /\ IncrMembers(t.g, <<t.old, t.new, SortRow>>, "update")
  /\ Done(c)
  /\ UNCHANGED <<status, request, joinLog>>

CanUpdate(t) == Active(t.g) /\ t.user \in Members(t.g)

UpdateGroupMembers_WritesAll(c) ==
  LET t == call[c] IN
  /\ Running(c, "UpdateGroupMembers")
  /\ CanUpdate(t)
  /\ IncrMembers(t.g, <<t.user, SortRow>>, "update")
  /\ role' = [role EXCEPT ![t.g][t.user] = t.role]
  /\ Done(c)
  /\ UNCHANGED <<status, request, joinLog>>

\* A patch that names a role writes the sort sentinel as well.  The code takes a
\* batch of patches, also of several groups: here it is one member of one group.
UpdateGroupMembers(c) ==
  LET t == call[c] IN
  /\ Running(c, "UpdateGroupMembers")
  /\ CanUpdate(t)
  /\ IF t.role = "keep"
     THEN /\ IncrMembers(t.g, <<t.user>>, "update")
          /\ UNCHANGED role
     ELSE /\ IncrMembers(t.g, <<t.user, SortRow>>, "update")
          /\ role' = [role EXCEPT ![t.g][t.user] = t.role]
  /\ Done(c)
  /\ UNCHANGED <<status, request, joinLog>>

\* Without lockActiveGroup.
CanMute_AnyStatus(t) == Exists(t.g)
CanMute(t) == Active(t.g)

SetGroupMuted(c) ==
  /\ Running(c, "SetGroupMuted")
  /\ CanMute(call[c])
  /\ status' = [status EXCEPT ![call[c].g] = call[c].status]
  /\ IncrMembers(call[c].g, <<GroupRow>>, "update")
  /\ Done(c)
  /\ UNCHANGED <<role, request, joinLog>>

CanDismiss(t) == Active(t.g)

\* With delete_member the handler goes on to remove the members.
DismissGroup(c) ==
  LET t == call[c] IN
  /\ Running(c, "DismissGroup")
  /\ CanDismiss(t)
  /\ status' = [status EXCEPT ![t.g] = "dismissed"]
  /\ IncrMembers(t.g, <<GroupRow>>, "update")
  /\ call' = [call EXCEPT ![c] = IF t.clear THEN [tx |-> "DeleteGroupMembers", g |-> t.g]
                                 ELSE Idle]
  /\ UNCHANGED <<role, request, joinLog>>

DeleteGroupMembers_Unlogged(c) ==
  LET g == call[c].g IN
  /\ Running(c, "DeleteGroupMembers")
  /\ role' = [role EXCEPT ![g] = [u \in User |-> "none"]]
  /\ Done(c)
  /\ UNCHANGED <<status, request, joinLog, memberLog>>

\* Every member leaves in the logs of the users; the log of the group says nothing.
DeleteGroupMembers(c) ==
  LET g == call[c].g IN
  /\ Running(c, "DeleteGroupMembers")
  /\ Exists(g)
  /\ role' = [role EXCEPT ![g] = [u \in User |-> "none"]]
  /\ IncrJoin(g, Members(g), "delete")
  /\ Done(c)
  /\ UNCHANGED <<status, request, memberLog>>

\* The transaction finds its rows otherwise and rolls back, or the database or
\* the process fails: the handler ends with nothing written.
Refused(c) ==
  /\ call[c] # Idle
  /\ Done(c)
  /\ UNCHANGED <<status, role, request, joinLog, memberLog>>
-----------------------------------------------------------------------------
(***************************************************************************)
(* The handlers up to their transaction.                                   *)
(***************************************************************************)
Free(c, g) == call[c] = Idle /\ memberLog[g].ver < MaxVersion

Ask(c, t) ==
  /\ call' = [call EXCEPT ![c] = t]
  /\ UNCHANGED <<status, role, request, joinLog, memberLog>>

\* InviteUserToGroup: where everything is verified an ordinary member applies
\* for those he invites.
AskInvite(c, g, op, us) ==
  /\ Active(g) /\ op \in Members(g)
  /\ us # {} /\ us \cap Members(g) = {}
  /\ Ask(c, [tx |-> IF Verify[g] = "all" /\ ~ Manager(g, op)
                    THEN "CreateRequests" ELSE "AddMembers",
             g |-> g, users |-> us])

AskJoin(c, g, u) ==
  /\ Active(g) /\ u \notin Members(g)
  /\ Ask(c, [tx |-> IF Verify[g] = "directly" THEN "AddMembers" ELSE "CreateRequests",
             g |-> g, users |-> {u}])

\* GroupApplicationResponse: one who is in already only has the application closed.
AskAnswer(c, g, op, u, result) ==
  /\ Active(g) /\ Manager(g, op)
  /\ request[g][u] = "pending"
  /\ Ask(c, [tx |-> "HandleRequest", g |-> g, user |-> u, result |-> result,
             enter |-> result = "agreed" /\ u \notin Members(g)])

AskKick(c, g, op, u) ==
  /\ Active(g) /\ op # u
  /\ \/ role[g][op] = "owner" /\ role[g][u] \in {"admin", "ordinary"}
     \/ role[g][op] = "admin" /\ role[g][u] = "ordinary"
  /\ Ask(c, [tx |-> "DeleteMember", g |-> g, user |-> u])

\* QuitGroup: also from a dismissed group.
AskQuit(c, g, u) ==
  /\ role[g][u] \in {"admin", "ordinary"}
  /\ Ask(c, [tx |-> "DeleteMember", g |-> g, user |-> u])

AskTransfer(c, g, op, new) ==
  /\ Active(g) /\ op # new
  /\ role[g][op] = "owner" /\ new \in Members(g)
  /\ Ask(c, [tx |-> "TransferOwner", g |-> g, old |-> op, new |-> new])

\* allowRoleChange: only the owner changes the role of another, and an admin may
\* step down.  allowMemberEdit: who may edit whom when the role stays.
MayChangeRole(g, op, u, r) ==
  \/ r = "keep" \/ r = role[g][u]
  \/ role[g][op] = "owner" /\ op # u
  \/ role[g][op] = "admin" /\ op = u /\ r = "ordinary"

MayEdit(g, op, u) ==
  \/ role[g][op] = "owner"
  \/ role[g][op] = "admin" /\ (role[g][u] = "ordinary" \/ op = u)
  \/ role[g][op] = "ordinary" /\ op = u

AskSetMember(c, g, op, u, r) ==
  /\ Active(g) /\ {op, u} \subseteq Members(g)
  /\ MayChangeRole(g, op, u, r) /\ MayEdit(g, op, u)
  /\ Ask(c, [tx |-> "UpdateGroupMembers", g |-> g, user |-> u, role |-> r])

\* MuteGroup and CancelMuteGroup.
AskMute(c, g, op, to) ==
  /\ Active(g) /\ Manager(g, op)
  /\ Ask(c, [tx |-> "SetGroupMuted", g |-> g, status |-> to])

AskDismiss(c, g, op, clear) ==
  /\ Active(g) /\ role[g][op] = "owner"
  /\ Ask(c, [tx |-> "DismissGroup", g |-> g, clear |-> clear])

\* deleteDismissedMembers of a group that is dismissed already.
AskClear(c, g, op) ==
  /\ status[g] = "dismissed"
  /\ Owners(g) \subseteq {op}
  /\ Ask(c, [tx |-> "DeleteGroupMembers", g |-> g])

Handler(c) ==
  \E g \in {h \in GroupID : Free(c, h)}, op \in User :
    \/ \E us \in SUBSET User : AskInvite(c, g, op, us)
    \/ AskJoin(c, g, op)
    \/ AskQuit(c, g, op)
    \/ \E u \in User :
         \/ \E r \in {"agreed", "refused"} : AskAnswer(c, g, op, u, r)
         \/ AskKick(c, g, op, u)
         \/ AskTransfer(c, g, op, u)
         \/ \E r \in {"keep", "ordinary", "admin"} : AskSetMember(c, g, op, u, r)
    \/ \E to \in {"ok", "muted"} : AskMute(c, g, op, to)
    \/ \E clear \in BOOLEAN : AskDismiss(c, g, op, clear)
    \/ AskClear(c, g, op)

Transaction(c) ==
  \/ AddMembers(c) \/ CreateRequests(c) \/ HandleRequest(c)
  \/ DeleteMember(c) \/ TransferOwner(c) \/ UpdateGroupMembers(c)
  \/ SetGroupMuted(c) \/ DismissGroup(c) \/ DeleteGroupMembers(c)

Create == \E g \in GroupID, u \in Founder, us \in SUBSET User : CreateGroup(g, u, us)

Next == Create \/ \E c \in Call : Handler(c) \/ Transaction(c) \/ Refused(c)

Spec == Init /\ [][Next]_vars
-----------------------------------------------------------------------------
TypeOK ==
  /\ status \in [GroupID -> Statuses]
  /\ role \in [GroupID -> [User -> Roles]]
  /\ request \in [GroupID -> [User -> Results]]
  /\ joinLog \in [User -> Logs(GroupID)]
  /\ memberLog \in [GroupID -> Logs(MemberElem)]
  /\ call \in [Call -> Txs]

\* Transfers, role changes and entries that overlap leave at most one owner: the
\* owner is not stored with the group, it is whoever has the role.
OneOwner == \A g \in GroupID : Cardinality(Owners(g)) <= 1

\* Invitations, joins and agreed applications that overlap do not overfill.
WithinLimit == \A g \in GroupID : Cardinality(Members(g)) <= Limit

\* A client that follows the log of a group that is not dismissed ends with its
\* members: every entry and every leave is the last word of a row.
MemberLogTells ==
  \A g \in GroupID : Active(g) =>
    \A u \in User : u \in Members(g) <=> memberLog[g].row[u].state # "delete"

\* A handler that read the group before it was dismissed neither wakes it up nor
\* adds to it afterwards.
DismissedIsFinal ==
  [][\A g \in GroupID : status[g] = "dismissed" =>
       /\ status'[g] = "dismissed"
       /\ Members(g)' \subseteq Members(g)]_vars

\* Two managers who answer one application: the first answer stands until the
\* user applies again.
FirstAnswerStands ==
  [][\A g \in GroupID, u \in User :
       request[g][u] \in {"agreed", "refused"} => request'[g][u] \in {request[g][u], "pending"}]_vars

\* Every user's joined groups are a versioned set: each change of membership, in
\* whatever transaction, is one change of his log.
Joined(u) == INSTANCE VersionedSet WITH
               Elem <- GroupID,
               set <- {g \in GroupID : role[g][u] # "none"},
               log <- joinLog[u]

JoinedSets ==
  /\ \A u \in User : Joined(u)!Init
  /\ [][\A u \in User : [Joined(u)!Next]_(Joined(u)!svars)]_vars
=============================================================================

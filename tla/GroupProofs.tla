---------------------------- MODULE GroupProofs -----------------------------
(***************************************************************************)
(* The group service keeps one owner and its limit, never wakes a          *)
(* dismissed group, honours the first answer to an application, and keeps  *)
(* every user's joined groups as a versioned set: for any users, groups    *)
(* and handlers in progress.                                               *)
(*                                                                         *)
(* Each transaction reads again, under its locks, what it needs, so the    *)
(* invariant says nothing of what a handler read before (GInv): a call is  *)
(* only well typed, and a group that does not exist has no members.        *)
(***************************************************************************)
EXTENDS Group, FiniteSetTheorems, TLAPS

\* OneOwner without counting.
SoleOwner(g) == \A u, v \in User : role[g][u] = "owner" /\ role[g][v] = "owner" => u = v

Small(g) == Cardinality(Members(g)) <= Limit

Unborn(g) == status[g] = "none" => Members(g) = {}

GroupOK(g) == SoleOwner(g) /\ Small(g) /\ Unborn(g)

GInv == TypeOK /\ \A g \in GroupID : GroupOK(g)
-----------------------------------------------------------------------------
(***************************************************************************)
(* What the transactions share.                                            *)
(***************************************************************************)
\* incrVersion keeps a log a log, whatever the batch names.
LEMMA IncrTyped ==
  ASSUME NEW E, NEW l \in Logs(E), NEW S, NEW b \in Seq(S), NEW st \in States
  PROVE  IncrVersion(l, b, st) \in Logs(E)
<1>1. l.ver \in Nat /\ l.row \in [E -> [state : States, ver : Nat]] /\ DOMAIN l.row = E
  BY DEF Logs
<1>2. Len(b) \in Nat /\ DOMAIN b \subseteq Nat
  OBVIOUS
<1> DEFINE Touched(e) == \E i \in DOMAIN b : b[i] = e
           New(e) == IF Touched(e)
                     THEN [state |-> st, ver |-> l.ver + (CHOOSE i \in DOMAIN b : b[i] = e)]
                     ELSE l.row[e]
<1>3. ASSUME NEW e \in E PROVE New(e) \in [state : States, ver : Nat]
  <2>1. CASE Touched(e)
    <3>1. (CHOOSE i \in DOMAIN b : b[i] = e) \in Nat
      BY <2>1, <1>2
    <3> QED
      BY <2>1, <3>1, <1>1
  <2>2. CASE ~ Touched(e)
    BY <2>2, <1>1
  <2> QED
    BY <2>1, <2>2
<1>4. IncrVersion(l, b, st) = [ver |-> l.ver + Len(b), row |-> [e \in E |-> New(e)]]
  BY <1>1 DEF IncrVersion
<1> HIDE DEF New
<1> QED
  BY <1>1, <1>2, <1>3, <1>4 DEF Logs

LEMMA Finite ==
  ASSUME NEW us \in SUBSET User
  PROVE  IsFiniteSet(us) /\ Cardinality(us) \in Nat
  BY GroupAssumption, FS_Subset, FS_CardinalityType

\* A batch of users in order is a sequence.
LEMMA BatchTyped ==
  ASSUME NEW us \in SUBSET User
  PROVE  \E S : InOrder(us) \in Seq(S)
<1> DEFINE n == Cardinality(us)
           S == {InOrder(us)[i] : i \in 1..n}
<1>1. n \in Nat
  BY Finite
<1>2. InOrder(us) \in [1..n -> S]
  BY DEF InOrder
<1>3. InOrder(us) \in Seq(S)
  BY <1>1, <1>2
<1> QED
  BY <1>3

LEMMA InStates == {"insert", "delete", "update"} \subseteq States
  BY DEF States

LEMMA MemberLogTyped ==
  ASSUME TypeOK, NEW g \in GroupID, NEW S, NEW b \in Seq(S), NEW st \in States,
         IncrMembers(g, b, st)
  PROVE  memberLog' \in [GroupID -> Logs(MemberElem)]
<1>1. memberLog[g] \in Logs(MemberElem)
  BY DEF TypeOK
<1>2. IncrVersion(memberLog[g], b, st) \in Logs(MemberElem)
  BY <1>1, IncrTyped
<1> QED
  BY <1>2 DEF TypeOK, IncrMembers

LEMMA JoinLogTyped ==
  ASSUME TypeOK, NEW g \in GroupID, NEW us, NEW st \in States, IncrJoin(g, us, st)
  PROVE  joinLog' \in [User -> Logs(GroupID)]
<1>1. ASSUME NEW u \in User PROVE IncrVersion(joinLog[u], <<g>>, st) \in Logs(GroupID)
  <2>1. <<g>> \in Seq(GroupID)
    OBVIOUS
  <2>2. joinLog[u] \in Logs(GroupID)
    BY DEF TypeOK
  <2> QED
    BY <2>1, <2>2, IncrTyped
<1> QED
  BY <1>1 DEF TypeOK, IncrJoin

\* The fields of the transaction a handler is about to run.
LEMMA TxTyped ==
  ASSUME TypeOK, NEW c \in Call
  PROVE  LET t == call[c] IN
         /\ t.tx \in {"AddMembers", "CreateRequests"} => t.g \in GroupID /\ t.users \in SUBSET User
         /\ t.tx = "HandleRequest" =>
              /\ t.g \in GroupID /\ t.user \in User
              /\ t.result \in {"agreed", "refused"} /\ t.enter \in BOOLEAN
         /\ t.tx = "DeleteMember" => t.g \in GroupID /\ t.user \in User
         /\ t.tx = "TransferOwner" => t.g \in GroupID /\ t.old \in User /\ t.new \in User
         /\ t.tx = "UpdateGroupMembers" =>
              t.g \in GroupID /\ t.user \in User /\ t.role \in {"keep", "ordinary", "admin"}
         /\ t.tx = "SetGroupMuted" => t.g \in GroupID /\ t.status \in {"ok", "muted"}
         /\ t.tx = "DismissGroup" => t.g \in GroupID /\ t.clear \in BOOLEAN
         /\ t.tx = "DeleteGroupMembers" => t.g \in GroupID
<1>1. call[c] \in Txs
  BY DEF TypeOK
<1> QED
  BY <1>1 DEF Txs, Idle

LEMMA DoneTyped ==
  ASSUME TypeOK, NEW c \in Call, Done(c)
  PROVE  call' \in [Call -> Txs]
<1>1. Idle \in Txs
  BY DEF Txs
<1> QED
  BY <1>1 DEF TypeOK, Done

\* One group's roles change: what a transaction must show of the new roles R.
LEMMA RoleStep ==
  ASSUME TypeOK, NEW g \in GroupID, NEW R \in [User -> Roles],
         role' = [role EXCEPT ![g] = R]
  PROVE  /\ role' \in [GroupID -> [User -> Roles]]
         /\ role'[g] = R
         /\ \A h \in GroupID \ {g} : role'[h] = role[h]
  BY DEF TypeOK

\* A group whose roles and status did not change stays as it was.
LEMMA SameGroup ==
  ASSUME GInv, NEW h \in GroupID, role'[h] = role[h],
         status'[h] = status[h] \/ status'[h] # "none"
  PROVE  GroupOK(h)'
<1>1. Members(h)' = Members(h)
  BY DEF Members
<1> QED
  BY <1>1 DEF GInv, GroupOK, SoleOwner, Small, Unborn

\* Fewer members, nobody promoted.
LEMMA FewerMembers ==
  ASSUME GInv, NEW h \in GroupID,
         \A u \in User : role'[h][u] # "none" => role[h][u] # "none",
         \A u \in User : role'[h][u] = "owner" => role[h][u] = "owner",
         status'[h] = status[h] \/ status'[h] # "none"
  PROVE  GroupOK(h)'
<1>1. Members(h)' \subseteq Members(h) /\ Members(h) \in SUBSET User /\ Members(h)' \in SUBSET User
  BY DEF Members
<1>2. Cardinality(Members(h)') <= Cardinality(Members(h))
  BY <1>1, Finite, FS_Subset
<1>3. Cardinality(Members(h)') \in Nat /\ Cardinality(Members(h)) \in Nat /\ Limit \in Nat
  BY <1>1, Finite, GroupAssumption
<1>4. Small(h)'
  BY <1>2, <1>3 DEF GInv, GroupOK, Small
<1>5. SoleOwner(h)' /\ Unborn(h)'
  BY <1>1 DEF GInv, GroupOK, SoleOwner, Unborn
<1> QED
  BY <1>4, <1>5 DEF GroupOK

LEMMA InsertStep ==
  ASSUME TypeOK, NEW g \in GroupID, NEW us \in SUBSET User,
         NEW roleOf \in [us -> Roles \ {"none"}], InsertMembers(g, us, roleOf)
  PROVE  /\ role' \in [GroupID -> [User -> Roles]]
         /\ joinLog' \in [User -> Logs(GroupID)]
         /\ memberLog' \in [GroupID -> Logs(MemberElem)]
         /\ \A u \in User : role'[g][u] = IF u \in us THEN roleOf[u] ELSE role[g][u]
         /\ \A h \in GroupID \ {g} : role'[h] = role[h]
         /\ Members(g)' = Members(g) \cup us
<1> DEFINE R == [u \in User |-> IF u \in us THEN roleOf[u] ELSE role[g][u]]
<1>1. R \in [User -> Roles]
  BY DEF TypeOK
<1>2. role' = [role EXCEPT ![g] = R]
  BY DEF InsertMembers, TypeOK
<1>3. /\ role' \in [GroupID -> [User -> Roles]]
      /\ role'[g] = R
      /\ \A h \in GroupID \ {g} : role'[h] = role[h]
  BY <1>1, <1>2, RoleStep
<1>4. Members(g)' = Members(g) \cup us
  BY <1>3 DEF Members
<1>5. memberLog' \in [GroupID -> Logs(MemberElem)]
  <2>1. PICK S : InOrder(us) \in Seq(S)
    BY BatchTyped
  <2>2. IncrMembers(g, InOrder(us), "insert")
    BY DEF InsertMembers
  <2> QED
    BY <2>1, <2>2, InStates, MemberLogTyped
<1>6. joinLog' \in [User -> Logs(GroupID)]
  <2>1. IncrJoin(g, us, "insert")
    BY DEF InsertMembers
  <2> QED
    BY <2>1, InStates, JoinLogTyped
<1> QED
  BY <1>3, <1>4, <1>5, <1>6

\* Ordinary members enter where there is room for them.
LEMMA EnterStep ==
  ASSUME GInv, NEW g \in GroupID, NEW us \in SUBSET User, Active(g), RoomFor(g, us),
         InsertMembers(g, us, Ordinary(us)), UNCHANGED status
  PROVE  /\ role' \in [GroupID -> [User -> Roles]]
         /\ joinLog' \in [User -> Logs(GroupID)]
         /\ memberLog' \in [GroupID -> Logs(MemberElem)]
         /\ \A h \in GroupID : GroupOK(h)'
<1>1. Ordinary(us) \in [us -> Roles \ {"none"}] /\ \A u \in us : Ordinary(us)[u] = "ordinary"
  BY DEF Ordinary, Roles
<1>2. TypeOK
  BY DEF GInv
<1>3. /\ role' \in [GroupID -> [User -> Roles]]
      /\ joinLog' \in [User -> Logs(GroupID)]
      /\ memberLog' \in [GroupID -> Logs(MemberElem)]
      /\ \A u \in User : role'[g][u] = IF u \in us THEN Ordinary(us)[u] ELSE role[g][u]
      /\ \A h \in GroupID \ {g} : role'[h] = role[h]
      /\ Members(g)' = Members(g) \cup us
  BY <1>1, <1>2, InsertStep
<1>4. SoleOwner(g)'
  BY <1>1, <1>3 DEF GInv, GroupOK, SoleOwner
<1>5. Small(g)'
  <2>1. Members(g) \in SUBSET User
    BY DEF Members
  <2>2. /\ IsFiniteSet(Members(g)) /\ IsFiniteSet(us) /\ IsFiniteSet(Members(g) \cap us)
        /\ Cardinality(Members(g)) \in Nat /\ Cardinality(us) \in Nat
        /\ Cardinality(Members(g) \cap us) \in Nat
    BY <2>1, Finite
  <2>3. Cardinality(Members(g) \cup us) =
          Cardinality(Members(g)) + Cardinality(us) - Cardinality(Members(g) \cap us)
    BY <2>2, FS_Union
  <2>4. Cardinality(Members(g)) + Cardinality(us) <= Limit /\ Limit \in Nat
    BY GroupAssumption DEF RoomFor
  <2>5. Cardinality(Members(g) \cup us) <= Limit
    BY <2>2, <2>3, <2>4
  <2> QED
    BY <1>3, <2>5 DEF Small
<1>6. Unborn(g)'
  BY DEF Unborn, Active
<1>7. ASSUME NEW h \in GroupID \ {g} PROVE GroupOK(h)'
  BY <1>3, SameGroup
<1> QED
  BY <1>3, <1>4, <1>5, <1>6, <1>7 DEF GroupOK
-----------------------------------------------------------------------------
(***************************************************************************)
(* The inductive invariant, transaction by transaction.                    *)
(***************************************************************************)
LEMMA GInvInit == Init => GInv
<1> SUFFICES ASSUME Init PROVE GInv
  OBVIOUS
<1>1. \A E : EmptyLog(E) \in Logs(E)
  BY DEF EmptyLog, Logs, NoRow, States
<1>2. Idle \in Txs
  BY DEF Txs
<1>3. TypeOK
  BY <1>1, <1>2 DEF Init, TypeOK, Statuses, Roles, Results
<1>4. ASSUME NEW g \in GroupID PROVE GroupOK(g)
  <2>1. Members(g) = {}
    BY DEF Init, Members
  <2>2. Cardinality(Members(g)) = 0
    BY <2>1, FS_EmptySet
  <2>3. Small(g)
    <3>1. Limit \in Nat
      BY GroupAssumption
    <3> QED
      BY <2>2, <3>1 DEF Small
  <2>4. SoleOwner(g)
    BY DEF Init, SoleOwner
  <2> QED
    BY <2>1, <2>3, <2>4 DEF GroupOK, Unborn
<1> QED
  BY <1>3, <1>4 DEF GInv

LEMMA CreateStep ==
  ASSUME GInv, NEW g \in GroupID, NEW owner \in User, NEW others \in SUBSET User,
         CreateGroup(g, owner, others)
  PROVE  GInv'
<1> DEFINE us == others \cup {owner}
           roleOf == [u \in us |-> IF u = owner THEN "owner" ELSE "ordinary"]
<1>1. TypeOK /\ Members(g) = {}
  BY DEF GInv, GroupOK, Unborn, CreateGroup
<1>2. us \in SUBSET User /\ roleOf \in [us -> Roles \ {"none"}]
  BY DEF Roles
<1>3. InsertMembers(g, us, roleOf)
  BY DEF CreateGroup
<1>4. \A u \in us : roleOf[u] = "owner" <=> u = owner
  OBVIOUS
<1> HIDE DEF roleOf
<1>5. /\ role' \in [GroupID -> [User -> Roles]]
      /\ joinLog' \in [User -> Logs(GroupID)]
      /\ memberLog' \in [GroupID -> Logs(MemberElem)]
      /\ \A u \in User : role'[g][u] = IF u \in us THEN roleOf[u] ELSE role[g][u]
      /\ \A h \in GroupID \ {g} : role'[h] = role[h]
      /\ Members(g)' = us
  <2> HIDE DEF us
  <2>1. /\ role' \in [GroupID -> [User -> Roles]]
        /\ joinLog' \in [User -> Logs(GroupID)]
        /\ memberLog' \in [GroupID -> Logs(MemberElem)]
        /\ \A u \in User : role'[g][u] = IF u \in us THEN roleOf[u] ELSE role[g][u]
        /\ \A h \in GroupID \ {g} : role'[h] = role[h]
        /\ Members(g)' = Members(g) \cup us
    BY <1>1, <1>2, <1>3, InsertStep
  <2> QED
    BY <1>1, <2>1
<1>6. status' = [status EXCEPT ![g] = "ok"] /\ UNCHANGED <<request, call>>
  BY DEF CreateGroup
<1>7. TypeOK'
  BY <1>1, <1>5, <1>6 DEF TypeOK, Statuses
<1>8. SoleOwner(g)'
  <2>1. \A u \in User : role[g][u] = "none"
    BY <1>1 DEF Members
  <2> QED
    BY <2>1, <1>4, <1>5 DEF SoleOwner
<1>9. Small(g)'
  <2>1. IsFiniteSet(others) /\ Cardinality(others) \in Nat /\ owner \notin others
    BY Finite DEF CreateGroup
  <2>2. Cardinality(us) = Cardinality(others) + 1
    BY <2>1, FS_AddElement
  <2> QED
    BY <1>5, <2>2 DEF Small, CreateGroup
<1>10. Unborn(g)'
  BY <1>1, <1>6 DEF Unborn, TypeOK
<1>11. ASSUME NEW h \in GroupID \ {g} PROVE GroupOK(h)'
  BY <1>1, <1>5, <1>6, SameGroup DEF TypeOK
<1> QED
  BY <1>7, <1>8, <1>9, <1>10, <1>11 DEF GInv, GroupOK

LEMMA AddMembersStep ==
  ASSUME GInv, NEW c \in Call, AddMembers(c)
  PROVE  GInv'
<1>1. TypeOK
  BY DEF GInv
<1>2. call[c].g \in GroupID /\ call[c].users \in SUBSET User
  BY <1>1, TxTyped DEF AddMembers, Running
<1>3. /\ role' \in [GroupID -> [User -> Roles]]
      /\ joinLog' \in [User -> Logs(GroupID)]
      /\ memberLog' \in [GroupID -> Logs(MemberElem)]
      /\ \A h \in GroupID : GroupOK(h)'
  BY <1>2, EnterStep DEF AddMembers, CanAdd
<1>4. call' \in [Call -> Txs]
  BY <1>1, DoneTyped DEF AddMembers
<1> QED
  BY <1>1, <1>3, <1>4 DEF GInv, TypeOK, AddMembers

LEMMA CreateRequestsStep ==
  ASSUME GInv, NEW c \in Call, CreateRequests(c)
  PROVE  GInv'
<1>1. TypeOK
  BY DEF GInv
<1>2. call' \in [Call -> Txs]
  BY <1>1, DoneTyped DEF CreateRequests
<1>3. request' \in [GroupID -> [User -> Results]]
  BY <1>1 DEF TypeOK, CreateRequests, Results
<1>4. TypeOK'
  BY <1>1, <1>2, <1>3 DEF TypeOK, CreateRequests
<1>5. ASSUME NEW h \in GroupID PROVE GroupOK(h)'
  BY SameGroup DEF CreateRequests
<1> QED
  BY <1>4, <1>5 DEF GInv

LEMMA HandleRequestStep ==
  ASSUME GInv, NEW c \in Call, HandleRequest(c)
  PROVE  GInv'
<1> DEFINE t == call[c]
<1>1. TypeOK
  BY DEF GInv
<1>2. t.g \in GroupID /\ t.user \in User /\ t.result \in {"agreed", "refused"}
  BY <1>1, TxTyped DEF HandleRequest, Running
<1>3. /\ call' \in [Call -> Txs] /\ status' = status
  BY <1>1, DoneTyped DEF HandleRequest
<1>4. request' \in [GroupID -> [User -> Results]]
  BY <1>1, <1>2 DEF TypeOK, HandleRequest, Results
<1>5. /\ role' \in [GroupID -> [User -> Roles]]
      /\ joinLog' \in [User -> Logs(GroupID)]
      /\ memberLog' \in [GroupID -> Logs(MemberElem)]
      /\ \A h \in GroupID : GroupOK(h)'
  <2>1. CASE t.enter
    <3>1. {t.user} \in SUBSET User /\ Active(t.g) /\ RoomFor(t.g, {t.user})
      BY <1>2, <2>1 DEF HandleRequest, CanHandle
    <3>2. InsertMembers(t.g, {t.user}, Ordinary({t.user}))
      BY <2>1 DEF HandleRequest
    <3> QED
      BY <1>2, <1>3, <3>1, <3>2, EnterStep
  <2>2. CASE ~ t.enter
    <3>1. UNCHANGED <<role, joinLog, memberLog>>
      BY <2>2 DEF HandleRequest
    <3>2. \A h \in GroupID : GroupOK(h)'
      BY <1>3, <3>1, SameGroup
    <3> QED
      BY <1>1, <3>1, <3>2 DEF TypeOK
  <2> QED
    BY <2>1, <2>2
<1> QED
  BY <1>1, <1>3, <1>4, <1>5 DEF GInv, TypeOK

LEMMA DeleteMemberStep ==
  ASSUME GInv, NEW c \in Call, DeleteMember(c)
  PROVE  GInv'
<1> DEFINE t == call[c]
           R == [role[t.g] EXCEPT ![t.user] = "none"]
<1>1. TypeOK
  BY DEF GInv
<1>2. t.g \in GroupID /\ t.user \in User
  BY <1>1, TxTyped DEF DeleteMember, Running
<1>3. call' \in [Call -> Txs] /\ UNCHANGED <<status, request>>
  BY <1>1, DoneTyped DEF DeleteMember
<1>4. R \in [User -> Roles] /\ \A u \in User : R[u] # "none" => R[u] = role[t.g][u]
  BY <1>1, <1>2 DEF TypeOK, Roles
<1>5. role' = [role EXCEPT ![t.g] = R]
  BY DEF DeleteMember
<1>6. /\ role' \in [GroupID -> [User -> Roles]] /\ role'[t.g] = R
      /\ \A h \in GroupID \ {t.g} : role'[h] = role[h]
  BY <1>1, <1>2, <1>4, <1>5, RoleStep
<1>7. memberLog' \in [GroupID -> Logs(MemberElem)]
  <2>1. <<t.user>> \in Seq(User) /\ IncrMembers(t.g, <<t.user>>, "delete")
    BY <1>2 DEF DeleteMember
  <2> QED
    BY <1>1, <1>2, <2>1, InStates, MemberLogTyped
<1>8. joinLog' \in [User -> Logs(GroupID)]
  BY <1>1, <1>2, InStates, JoinLogTyped DEF DeleteMember
<1>9. TypeOK'
  BY <1>1, <1>3, <1>6, <1>7, <1>8 DEF TypeOK
<1>10. ASSUME NEW h \in GroupID PROVE GroupOK(h)'
  <2>1. CASE h = t.g
    <3>1. /\ \A u \in User : role'[h][u] # "none" => role[h][u] # "none"
          /\ \A u \in User : role'[h][u] = "owner" => role[h][u] = "owner"
      BY <2>1, <1>4, <1>6
    <3> QED
      BY <1>3, <3>1, FewerMembers
  <2>2. CASE h # t.g
    BY <1>3, <1>6, <2>2, SameGroup
  <2> QED
    BY <2>1, <2>2
<1> QED
  BY <1>9, <1>10 DEF GInv

\* The one who gives the role away and the one who gets it are both members, and
\* the one who gives it away was the only owner.
LEMMA TransferOwnerStep ==
  ASSUME GInv, NEW c \in Call, TransferOwner(c)
  PROVE  GInv'
<1> DEFINE t == call[c]
           R == [role[t.g] EXCEPT ![t.old] = role[t.g][t.new], ![t.new] = "owner"]
<1>1. TypeOK
  BY DEF GInv
<1>2. t.g \in GroupID /\ t.old \in User /\ t.new \in User
  BY <1>1, TxTyped DEF TransferOwner, Running
<1>3. call' \in [Call -> Txs] /\ UNCHANGED <<status, request, joinLog>>
  BY <1>1, DoneTyped DEF TransferOwner
<1>4. role[t.g] \in [User -> Roles] /\ role[t.g][t.old] = "owner" /\ role[t.g][t.new] # "none"
  BY <1>1, <1>2 DEF TypeOK, TransferOwner, CanTransfer
<1>5. R \in [User -> Roles]
  BY <1>2, <1>4 DEF Roles
<1>6. role' = [role EXCEPT ![t.g] = R]
  BY <1>1, <1>2 DEF TypeOK, TransferOwner
<1>7. /\ role' \in [GroupID -> [User -> Roles]] /\ role'[t.g] = R
      /\ \A h \in GroupID \ {t.g} : role'[h] = role[h]
  BY <1>1, <1>2, <1>5, <1>6, RoleStep
<1>8. memberLog' \in [GroupID -> Logs(MemberElem)]
  <2>1. SortRow \in MemberElem /\ User \subseteq MemberElem
    BY DEF MemberElem
  <2>2. <<t.old, t.new, SortRow>> \in Seq(MemberElem)
    BY <1>2, <2>1
  <2>3. IncrMembers(t.g, <<t.old, t.new, SortRow>>, "update")
    BY DEF TransferOwner
  <2> QED
    BY <1>1, <1>2, <2>2, <2>3, InStates, MemberLogTyped
<1>9. TypeOK'
  BY <1>1, <1>3, <1>7, <1>8 DEF TypeOK
<1>10. ASSUME NEW h \in GroupID PROVE GroupOK(h)'
  <2>1. CASE h = t.g
    <3>1. SoleOwner(h) /\ Small(h) /\ Unborn(h)
      BY DEF GInv, GroupOK
    <3>2. \A u \in User : role[h][u] = "owner" => u = t.old
      BY <1>2, <1>4, <2>1, <3>1 DEF SoleOwner
    <3>3. \A u \in User : role'[h][u] = "owner" => u = t.new
      BY <1>2, <1>4, <1>7, <2>1, <3>2
    <3>4. \A u \in User : role'[h][u] # "none" <=> role[h][u] # "none"
      BY <1>2, <1>4, <1>7, <2>1
    <3>5. Members(h)' = Members(h)
      BY <3>4 DEF Members
    <3> QED
      BY <1>3, <3>1, <3>3, <3>5 DEF GroupOK, SoleOwner, Small, Unborn
  <2>2. CASE h # t.g
    BY <1>3, <1>7, <2>2, SameGroup
  <2> QED
    BY <2>1, <2>2
<1> QED
  BY <1>9, <1>10 DEF GInv

LEMMA UpdateGroupMembersStep ==
  ASSUME GInv, NEW c \in Call, UpdateGroupMembers(c)
  PROVE  GInv'
<1> DEFINE t == call[c]
<1>1. TypeOK
  BY DEF GInv
<1>2. /\ t.g \in GroupID /\ t.user \in User /\ t.role \in {"keep", "ordinary", "admin"}
      /\ t.user \in Members(t.g)
  BY <1>1, TxTyped DEF UpdateGroupMembers, Running, CanUpdate
<1>3. call' \in [Call -> Txs] /\ UNCHANGED <<status, request, joinLog>>
  BY <1>1, DoneTyped DEF UpdateGroupMembers
<1>4. <<t.user>> \in Seq(MemberElem) /\ <<t.user, SortRow>> \in Seq(MemberElem)
  <2>1. SortRow \in MemberElem /\ t.user \in MemberElem
    BY <1>2 DEF MemberElem
  <2> QED
    BY <2>1
<1>5. CASE t.role = "keep"
  <2>1. IncrMembers(t.g, <<t.user>>, "update") /\ UNCHANGED role
    BY <1>5 DEF UpdateGroupMembers
  <2>2. memberLog' \in [GroupID -> Logs(MemberElem)]
    BY <1>1, <1>2, <1>4, <2>1, InStates, MemberLogTyped
  <2>3. TypeOK'
    BY <1>1, <1>3, <2>1, <2>2 DEF TypeOK
  <2>4. \A h \in GroupID : GroupOK(h)'
    BY <1>3, <2>1, SameGroup
  <2> QED
    BY <2>3, <2>4 DEF GInv
<1>6. CASE t.role # "keep"
  <2> DEFINE R == [role[t.g] EXCEPT ![t.user] = t.role]
  <2>1. IncrMembers(t.g, <<t.user, SortRow>>, "update") /\ role' = [role EXCEPT ![t.g] = R]
    BY <1>6 DEF UpdateGroupMembers
  <2>2. R \in [User -> Roles]
    BY <1>1, <1>2, <1>6 DEF TypeOK, Roles
  <2>3. /\ role' \in [GroupID -> [User -> Roles]] /\ role'[t.g] = R
        /\ \A h \in GroupID \ {t.g} : role'[h] = role[h]
    BY <1>1, <1>2, <2>1, <2>2, RoleStep
  <2>4. memberLog' \in [GroupID -> Logs(MemberElem)]
    BY <1>1, <1>2, <1>4, <2>1, InStates, MemberLogTyped
  <2>5. TypeOK'
    BY <1>1, <1>3, <2>3, <2>4 DEF TypeOK
  <2>6. ASSUME NEW h \in GroupID PROVE GroupOK(h)'
    <3>1. CASE h = t.g
      <4>1. role[h] \in [User -> Roles] /\ role[h][t.user] # "none"
        BY <1>1, <1>2, <3>1 DEF TypeOK, Members
      <4>2. \A u \in User : /\ u # t.user => role'[h][u] = role[h][u]
                            /\ role'[h][t.user] \in {"ordinary", "admin"}
        BY <1>2, <1>6, <2>3, <3>1, <4>1
      <4> QED
        BY <1>3, <4>1, <4>2, FewerMembers
    <3>2. CASE h # t.g
      BY <1>3, <2>3, <3>2, SameGroup
    <3> QED
      BY <3>1, <3>2
  <2> QED
    BY <2>5, <2>6 DEF GInv
<1> QED
  BY <1>5, <1>6

\* The group row of a group that exists, and the log entry it costs.
LEMMA GroupRowTyped ==
  ASSUME TypeOK, NEW g \in GroupID, IncrMembers(g, <<GroupRow>>, "update")
  PROVE  memberLog' \in [GroupID -> Logs(MemberElem)]
<1>1. <<GroupRow>> \in Seq(MemberElem)
  BY DEF MemberElem
<1> QED
  BY <1>1, InStates, MemberLogTyped

LEMMA SetGroupMutedStep ==
  ASSUME GInv, NEW c \in Call, SetGroupMuted(c)
  PROVE  GInv'
<1> DEFINE t == call[c]
<1>1. TypeOK
  BY DEF GInv
<1>2. t.g \in GroupID /\ t.status \in {"ok", "muted"}
  BY <1>1, TxTyped DEF SetGroupMuted, Running
<1>3. call' \in [Call -> Txs] /\ UNCHANGED <<role, request, joinLog>>
  BY <1>1, DoneTyped DEF SetGroupMuted
<1>4. status' = [status EXCEPT ![t.g] = t.status] /\ IncrMembers(t.g, <<GroupRow>>, "update")
  BY DEF SetGroupMuted
<1>5. status' \in [GroupID -> Statuses]
  BY <1>1, <1>2, <1>4 DEF TypeOK, Statuses
<1>6. TypeOK'
  BY <1>1, <1>2, <1>3, <1>4, <1>5, GroupRowTyped DEF TypeOK
<1>7. \A h \in GroupID : status'[h] = status[h] \/ status'[h] # "none"
  BY <1>1, <1>2, <1>4 DEF TypeOK
<1> QED
  BY <1>3, <1>6, <1>7, SameGroup DEF GInv

LEMMA DismissGroupStep ==
  ASSUME GInv, NEW c \in Call, DismissGroup(c)
  PROVE  GInv'
<1> DEFINE t == call[c]
<1>1. TypeOK
  BY DEF GInv
<1>2. t.g \in GroupID
  BY <1>1, TxTyped DEF DismissGroup, Running
<1>3. UNCHANGED <<role, request, joinLog>>
  BY DEF DismissGroup
<1>4. status' = [status EXCEPT ![t.g] = "dismissed"] /\ IncrMembers(t.g, <<GroupRow>>, "update")
  BY DEF DismissGroup
<1>5. call' \in [Call -> Txs]
  <2>1. [tx |-> "DeleteGroupMembers", g |-> t.g] \in Txs /\ Idle \in Txs
    BY <1>2 DEF Txs
  <2>2. \E x \in Txs : call' = [call EXCEPT ![c] = x]
    BY <2>1 DEF DismissGroup
  <2> QED
    BY <1>1, <2>2 DEF TypeOK
<1>6. status' \in [GroupID -> Statuses]
  BY <1>1, <1>2, <1>4 DEF TypeOK, Statuses
<1>7. TypeOK'
  BY <1>1, <1>2, <1>3, <1>4, <1>5, <1>6, GroupRowTyped DEF TypeOK
<1>8. \A h \in GroupID : status'[h] = status[h] \/ status'[h] # "none"
  BY <1>1, <1>2, <1>4 DEF TypeOK
<1> QED
  BY <1>3, <1>7, <1>8, SameGroup DEF GInv

LEMMA DeleteGroupMembersStep ==
  ASSUME GInv, NEW c \in Call, DeleteGroupMembers(c)
  PROVE  GInv'
<1> DEFINE g == call[c].g
           R == [u \in User |-> "none"]
<1>1. TypeOK
  BY DEF GInv
<1>2. g \in GroupID
  BY <1>1, TxTyped DEF DeleteGroupMembers, Running
<1>3. call' \in [Call -> Txs] /\ UNCHANGED <<status, request, memberLog>>
  BY <1>1, DoneTyped DEF DeleteGroupMembers
<1>4. R \in [User -> Roles] /\ role' = [role EXCEPT ![g] = R]
  BY DEF Roles, DeleteGroupMembers
<1>5. /\ role' \in [GroupID -> [User -> Roles]] /\ role'[g] = R
      /\ \A h \in GroupID \ {g} : role'[h] = role[h]
  BY <1>1, <1>2, <1>4, RoleStep
<1>6. joinLog' \in [User -> Logs(GroupID)]
  BY <1>1, <1>2, InStates, JoinLogTyped DEF DeleteGroupMembers
<1>7. TypeOK'
  BY <1>1, <1>3, <1>5, <1>6 DEF TypeOK
<1>8. ASSUME NEW h \in GroupID PROVE GroupOK(h)'
  <2>1. CASE h = g
    BY <1>3, <1>5, <2>1, FewerMembers
  <2>2. CASE h # g
    BY <1>3, <1>5, <2>2, SameGroup
  <2> QED
    BY <2>1, <2>2
<1> QED
  BY <1>7, <1>8 DEF GInv

\* The reading part of a handler only decides which transaction it will run, and
\* only one who finds the group dismissed removes all its members.
ClearsLate(t) == t.tx = "DeleteGroupMembers" => status[t.g] = "dismissed"

LEMMA HandlerAsks ==
  ASSUME NEW c \in Call, Handler(c)
  PROVE  \E t \in Txs : Ask(c, t) /\ ClearsLate(t)
<1>1. PICK g \in GroupID, op \in User :
        \/ \E us \in SUBSET User : AskInvite(c, g, op, us)
        \/ AskJoin(c, g, op)
        \/ AskQuit(c, g, op)
        \/ \E u \in User :
             \/ \E r \in {"agreed", "refused"} : AskAnswer(c, g, op, u, r)
             \/ AskKick(c, g, op, u)
             \/ AskTransfer(c, g, op, u)
             \/ \E r \in {"keep", "ordinary", "admin"} : AskSetMember(c, g, op, u, r)
        \/ \E to \in {"ok", "muted"} : AskMute(c, g, op, to)
        \/ \E clear \in BOOLEAN : AskDismiss(c, g, op, clear)
        \/ AskClear(c, g, op)
  BY DEF Handler
<1>2. ASSUME NEW us \in SUBSET User, AskInvite(c, g, op, us) PROVE \E t \in Txs : Ask(c, t) /\ ClearsLate(t)
  <2>1. PICK tx \in {"AddMembers", "CreateRequests"} : Ask(c, [tx |-> tx, g |-> g, users |-> us])
    BY <1>2 DEF AskInvite
  <2> QED
    BY <2>1 DEF Txs, ClearsLate
<1>3. CASE AskJoin(c, g, op)
  <2>1. PICK tx \in {"AddMembers", "CreateRequests"} : Ask(c, [tx |-> tx, g |-> g, users |-> {op}])
    BY <1>3 DEF AskJoin
  <2> QED
    BY <2>1 DEF Txs, ClearsLate
<1>4. CASE AskQuit(c, g, op)
  BY <1>4 DEF AskQuit, Txs, ClearsLate
<1>5. ASSUME NEW u \in User, NEW r \in {"agreed", "refused"}, AskAnswer(c, g, op, u, r)
      PROVE  \E t \in Txs : Ask(c, t) /\ ClearsLate(t)
  <2>1. PICK b \in BOOLEAN :
          Ask(c, [tx |-> "HandleRequest", g |-> g, user |-> u, result |-> r, enter |-> b])
    <3>1. (r = "agreed" /\ u \notin Members(g)) \in BOOLEAN
      OBVIOUS
    <3> QED
      BY <3>1, <1>5 DEF AskAnswer
  <2> QED
    BY <2>1 DEF Txs, ClearsLate
<1>6. ASSUME NEW u \in User, AskKick(c, g, op, u) PROVE \E t \in Txs : Ask(c, t) /\ ClearsLate(t)
  BY <1>6 DEF AskKick, Txs, ClearsLate
<1>7. ASSUME NEW u \in User, AskTransfer(c, g, op, u) PROVE \E t \in Txs : Ask(c, t) /\ ClearsLate(t)
  BY <1>7 DEF AskTransfer, Txs, ClearsLate
<1>8. ASSUME NEW u \in User, NEW r \in {"keep", "ordinary", "admin"}, AskSetMember(c, g, op, u, r)
      PROVE  \E t \in Txs : Ask(c, t) /\ ClearsLate(t)
  BY <1>8 DEF AskSetMember, Txs, ClearsLate
<1>9. ASSUME NEW to \in {"ok", "muted"}, AskMute(c, g, op, to) PROVE \E t \in Txs : Ask(c, t) /\ ClearsLate(t)
  BY <1>9 DEF AskMute, Txs, ClearsLate
<1>10. ASSUME NEW clear \in BOOLEAN, AskDismiss(c, g, op, clear) PROVE \E t \in Txs : Ask(c, t) /\ ClearsLate(t)
  BY <1>10 DEF AskDismiss, Txs, ClearsLate
<1>11. CASE AskClear(c, g, op)
  BY <1>11 DEF AskClear, Txs, ClearsLate
<1> QED
  BY <1>1, <1>2, <1>3, <1>4, <1>5, <1>6, <1>7, <1>8, <1>9, <1>10, <1>11

\* A handler that reads, or gives up, changes nothing but its own call.
LEMMA CallStep ==
  ASSUME GInv, NEW c \in Call, Handler(c) \/ Refused(c)
  PROVE  GInv' /\ UNCHANGED <<status, role, request, joinLog, memberLog>>
<1>1. TypeOK
  BY DEF GInv
<1>2. call' \in [Call -> Txs] /\ UNCHANGED <<status, role, request, joinLog, memberLog>>
  <2>1. CASE Handler(c)
    BY <1>1, <2>1, HandlerAsks DEF Ask, TypeOK
  <2>2. CASE Refused(c)
    BY <1>1, <2>2, DoneTyped DEF Refused
  <2> QED
    BY <2>1, <2>2
<1>3. TypeOK'
  BY <1>1, <1>2 DEF TypeOK
<1>4. \A h \in GroupID : GroupOK(h)'
  BY <1>2, SameGroup
<1> QED
  BY <1>2, <1>3, <1>4 DEF GInv

LEMMA CreateIs ==
  ASSUME Create
  PROVE  \E g \in GroupID, u \in User, us \in SUBSET User : CreateGroup(g, u, us)
  BY GroupAssumption DEF Create

LEMMA GInvNext ==
  ASSUME GInv, [Next]_vars
  PROVE  GInv'
<1>1. CASE Create
  BY <1>1, CreateIs, CreateStep
<1>2. ASSUME NEW c \in Call, Transaction(c) PROVE GInv'
  BY <1>2, AddMembersStep, CreateRequestsStep, HandleRequestStep, DeleteMemberStep,
     TransferOwnerStep, UpdateGroupMembersStep, SetGroupMutedStep, DismissGroupStep,
     DeleteGroupMembersStep DEF Transaction
<1>3. ASSUME NEW c \in Call, Handler(c) \/ Refused(c) PROVE GInv'
  BY <1>3, CallStep
<1>4. CASE UNCHANGED vars
  <2>1. TypeOK'
    BY <1>4 DEF GInv, TypeOK, vars
  <2>2. \A h \in GroupID : GroupOK(h)'
    BY <1>4, SameGroup DEF vars
  <2> QED
    BY <2>1, <2>2 DEF GInv
<1> QED
  BY <1>1, <1>2, <1>3, <1>4 DEF Next

\* The handlers, transactions and logs stay within their types.
THEOREM GroupTypeOK == Spec => []TypeOK
<1>1. GInv => TypeOK
  BY DEF GInv
<1> QED
  BY <1>1, GInvInit, GInvNext, PTL DEF Spec

\* However transfers, role changes, entries and leaves overlap, a group has at
\* most one owner.
THEOREM GroupOneOwner == Spec => []OneOwner
<1>1. ASSUME NEW g \in GroupID, SoleOwner(g) PROVE Cardinality(Owners(g)) <= 1
  <2>1. CASE Owners(g) = {}
    BY <2>1, FS_EmptySet
  <2>2. CASE Owners(g) # {}
    <3>1. PICK u \in User : u \in Owners(g)
      BY <2>2 DEF Owners
    <3>2. \A v \in Owners(g) : v = u
      BY <1>1, <3>1 DEF SoleOwner, Owners
    <3>3. Owners(g) = {u}
      BY <3>1, <3>2
    <3>4. Cardinality(Owners(g)) = 1
      BY <3>3, FS_Singleton
    <3> QED
      BY <3>4
  <2> QED
    BY <2>1, <2>2
<1>2. GInv => OneOwner
  BY <1>1 DEF GInv, GroupOK, OneOwner
<1> QED
  BY <1>2, GInvInit, GInvNext, PTL DEF Spec

\* Invitations, joins and agreed applications that overlap never overfill a group.
THEOREM GroupWithinLimit == Spec => []WithinLimit
<1>1. GInv => WithinLimit
  BY DEF GInv, GroupOK, Small, WithinLimit
<1> QED
  BY <1>1, GInvInit, GInvNext, PTL DEF Spec
-----------------------------------------------------------------------------
(***************************************************************************)
(* What no step may do.                                                    *)
(***************************************************************************)
\* Only a batch of applications reopens an answered one, and it asks again.
LEMMA AnswerStep ==
  ASSUME GInv, [Next]_vars, NEW g \in GroupID, NEW u \in User,
         request[g][u] \in {"agreed", "refused"}
  PROVE  request'[g][u] \in {request[g][u], "pending"}
<1>1. TypeOK
  BY DEF GInv
<1>2. CASE request' = request
  BY <1>2
<1>3. ASSUME NEW c \in Call, CreateRequests(c) PROVE request'[g][u] \in {request[g][u], "pending"}
  BY <1>1, <1>3 DEF TypeOK, CreateRequests
<1>4. ASSUME NEW c \in Call, HandleRequest(c) PROVE request'[g][u] \in {request[g][u], "pending"}
  <2>1. call[c].g \in GroupID /\ call[c].user \in User /\ request[call[c].g][call[c].user] = "pending"
    BY <1>1, <1>4, TxTyped DEF HandleRequest, CanHandle, Running
  <2>2. ~ (call[c].g = g /\ call[c].user = u)
    BY <2>1
  <2>3. request' = [request EXCEPT ![call[c].g][call[c].user] = call[c].result]
    BY <1>4 DEF HandleRequest
  <2>4. request[g] \in [User -> Results] /\ request[call[c].g] \in [User -> Results]
    BY <1>1, <2>1 DEF TypeOK
  <2> QED
    BY <1>1, <2>1, <2>2, <2>3, <2>4 DEF TypeOK
<1>5. CASE Create
  BY <1>2, <1>5, CreateIs DEF CreateGroup
<1>6. ASSUME NEW c \in Call, Handler(c) \/ Refused(c) PROVE request' = request
  BY <1>6, CallStep
<1>7. ASSUME NEW c \in Call, Transaction(c), ~ CreateRequests(c), ~ HandleRequest(c)
      PROVE  request' = request
  BY <1>7 DEF Transaction, AddMembers, DeleteMember, TransferOwner, UpdateGroupMembers,
              SetGroupMuted, DismissGroup, DeleteGroupMembers
<1> QED
  BY <1>2, <1>3, <1>4, <1>5, <1>6, <1>7 DEF Next, vars

\* Of two managers who answer one application the first one decides.
THEOREM GroupFirstAnswerStands == Spec => FirstAnswerStands
<1> DEFINE A == \A g \in GroupID, u \in User :
                  request[g][u] \in {"agreed", "refused"} =>
                    request'[g][u] \in {request[g][u], "pending"}
<1>1. GInv /\ [Next]_vars => [A]_vars
  BY AnswerStep
<1>2. Spec => [][A]_vars
  BY <1>1, GInvInit, GInvNext, PTL DEF Spec
<1> QED
  BY <1>2 DEF FirstAnswerStands

LEMMA DismissedStep ==
  ASSUME GInv, [Next]_vars, NEW g \in GroupID, status[g] = "dismissed"
  PROVE  status'[g] = "dismissed" /\ Members(g)' \subseteq Members(g)
<1>1. TypeOK
  BY DEF GInv
<1>2. ASSUME role'[g] = role[g] PROVE Members(g)' \subseteq Members(g)
  BY <1>2 DEF Members
<1>3. CASE Create
  <2>1. PICK h \in GroupID, u \in User, us \in SUBSET User : CreateGroup(h, u, us)
    BY <1>3, CreateIs
  <2>2. h # g /\ status' = [status EXCEPT ![h] = "ok"]
    BY <2>1 DEF CreateGroup
  <2>3. role'[g] = role[g]
    BY <1>1, <2>1, <2>2 DEF CreateGroup, InsertMembers, TypeOK
  <2> QED
    BY <1>1, <1>2, <2>2, <2>3 DEF TypeOK
<1>4. ASSUME NEW c \in Call, AddMembers(c)
      PROVE  status'[g] = "dismissed" /\ Members(g)' \subseteq Members(g)
  <2>1. call[c].g # g /\ status' = status
    BY <1>4 DEF AddMembers, CanAdd, Active
  <2>2. role'[g] = role[g]
    BY <1>1, <1>4, <2>1 DEF AddMembers, InsertMembers, TypeOK
  <2> QED
    BY <1>2, <2>1, <2>2
<1>5. ASSUME NEW c \in Call, CreateRequests(c) \/ Handler(c) \/ Refused(c)
      PROVE  status'[g] = "dismissed" /\ Members(g)' \subseteq Members(g)
  <2>1. status' = status /\ role' = role
    BY <1>5, CallStep DEF CreateRequests
  <2> QED
    BY <1>2, <2>1
<1>6. ASSUME NEW c \in Call, HandleRequest(c)
      PROVE  status'[g] = "dismissed" /\ Members(g)' \subseteq Members(g)
  <2>1. status' = status
    BY <1>6 DEF HandleRequest
  <2>2. CASE call[c].enter
    <3>1. call[c].g # g
      BY <1>6, <2>2 DEF HandleRequest, CanHandle, Active
    <3>2. role'[g] = role[g]
      BY <1>1, <1>6, <2>2, <3>1 DEF HandleRequest, InsertMembers, TypeOK
    <3> QED
      BY <1>2, <2>1, <3>2
  <2>3. CASE ~ call[c].enter
    BY <1>2, <1>6, <2>1, <2>3 DEF HandleRequest
  <2> QED
    BY <2>2, <2>3
<1>7. ASSUME NEW c \in Call, DeleteMember(c)
      PROVE  status'[g] = "dismissed" /\ Members(g)' \subseteq Members(g)
  <2>1. status' = status /\ call[c].g \in GroupID /\ call[c].user \in User
    BY <1>1, <1>7, TxTyped DEF DeleteMember, Running
  <2>2. role' = [role EXCEPT ![call[c].g] = [role[call[c].g] EXCEPT ![call[c].user] = "none"]]
    BY <1>7 DEF DeleteMember
  <2>3. \A u \in User : role'[g][u] = role[g][u] \/ role'[g][u] = "none"
    BY <1>1, <2>1, <2>2 DEF TypeOK
  <2> QED
    BY <2>1, <2>3 DEF Members
<1>8. ASSUME NEW c \in Call, TransferOwner(c) \/ UpdateGroupMembers(c)
      PROVE  status'[g] = "dismissed" /\ Members(g)' \subseteq Members(g)
  <2>1. call[c].g # g /\ status' = status
    BY <1>8 DEF TransferOwner, CanTransfer, UpdateGroupMembers, CanUpdate, Active
  <2>2. role'[g] = role[g]
    BY <1>1, <1>8, <2>1 DEF TransferOwner, UpdateGroupMembers, TypeOK
  <2> QED
    BY <1>2, <2>1, <2>2
<1>9. ASSUME NEW c \in Call, SetGroupMuted(c) \/ DismissGroup(c)
      PROVE  status'[g] = "dismissed" /\ Members(g)' \subseteq Members(g)
  <2>1. call[c].g # g /\ role' = role
    BY <1>9 DEF SetGroupMuted, CanMute, DismissGroup, CanDismiss, Active
  <2>2. status'[g] = status[g]
    BY <1>1, <1>9, <2>1 DEF SetGroupMuted, DismissGroup, TypeOK
  <2> QED
    BY <1>2, <2>1, <2>2
<1>10. ASSUME NEW c \in Call, DeleteGroupMembers(c)
       PROVE  status'[g] = "dismissed" /\ Members(g)' \subseteq Members(g)
  <2>1. status' = status /\ call[c].g \in GroupID
    BY <1>1, <1>10, TxTyped DEF DeleteGroupMembers, Running
  <2>2. role' = [role EXCEPT ![call[c].g] = [u \in User |-> "none"]]
    BY <1>10 DEF DeleteGroupMembers
  <2>3. \A u \in User : role'[g][u] = role[g][u] \/ role'[g][u] = "none"
    BY <1>1, <2>1, <2>2 DEF TypeOK
  <2> QED
    BY <2>1, <2>3 DEF Members
<1>11. CASE UNCHANGED vars
  BY <1>2, <1>11 DEF vars
<1> QED
  BY <1>3, <1>4, <1>5, <1>6, <1>7, <1>8, <1>9, <1>10, <1>11 DEF Next, Transaction

\* Whatever handlers read before a dismissal, the group stays dismissed and gets
\* no new member.
THEOREM GroupDismissedIsFinal == Spec => DismissedIsFinal
<1> DEFINE A == \A g \in GroupID : status[g] = "dismissed" =>
                  /\ status'[g] = "dismissed"
                  /\ Members(g)' \subseteq Members(g)
<1>1. GInv /\ [Next]_vars => [A]_vars
  BY DismissedStep
<1>2. Spec => [][A]_vars
  BY <1>1, GInvInit, GInvNext, PTL DEF Spec
<1> QED
  BY <1>2 DEF DismissedIsFinal
-----------------------------------------------------------------------------
(***************************************************************************)
(* Every user's joined groups implement VersionedSet.                      *)
(***************************************************************************)
JoinedOf(u) == {g \in GroupID : role[g][u] # "none"}

LogIn(u, g) == /\ g \notin JoinedOf(u)
               /\ JoinedOf(u)' = JoinedOf(u) \cup {g}
               /\ joinLog'[u] = IncrVersion(joinLog[u], <<g>>, "insert")

LogOut(u, g) == /\ g \in JoinedOf(u)
                /\ JoinedOf(u)' = JoinedOf(u) \ {g}
                /\ joinLog'[u] = IncrVersion(joinLog[u], <<g>>, "delete")

LogStays(u) == JoinedOf(u)' = JoinedOf(u) /\ joinLog'[u] = joinLog[u]

LogStep(u) == LogStays(u) \/ \E g \in GroupID : LogIn(u, g) \/ LogOut(u, g)

\* One change in the sense of VersionedSet.
LEMMA LogStepMaps ==
  ASSUME NEW u \in User, LogStep(u)
  PROVE  [Joined(u)!Next]_(Joined(u)!svars)
<1>1. CASE LogStays(u)
  BY <1>1 DEF LogStays, JoinedOf, Joined!svars
<1>2. ASSUME NEW g \in GroupID, LogIn(u, g) PROVE Joined(u)!Insert(g)
  BY <1>2 DEF LogIn, JoinedOf, Joined!Insert, IncrVersion, Joined!IncrVersion
<1>3. ASSUME NEW g \in GroupID, LogOut(u, g) PROVE Joined(u)!Delete(g)
  BY <1>3 DEF LogOut, JoinedOf, Joined!Delete, IncrVersion, Joined!IncrVersion
<1> QED
  BY <1>1, <1>2, <1>3 DEF LogStep, Joined!Next

LEMMA NobodyMoves ==
  ASSUME UNCHANGED joinLog, NEW u \in User,
         \A g \in GroupID : role'[g][u] # "none" <=> role[g][u] # "none"
  PROVE  LogStep(u)
  BY DEF LogStep, LogStays, JoinedOf

\* Those who enter were out, and each has the entry logged.
LEMMA EnterLogs ==
  ASSUME TypeOK, NEW g \in GroupID, NEW us \in SUBSET User,
         NEW roleOf \in [us -> Roles \ {"none"}], InsertMembers(g, us, roleOf),
         us \cap Members(g) = {}, NEW u \in User
  PROVE  LogStep(u)
<1>1. /\ \A v \in User : role'[g][v] = IF v \in us THEN roleOf[v] ELSE role[g][v]
      /\ \A h \in GroupID \ {g} : role'[h] = role[h]
  BY InsertStep
<1>2. joinLog'[u] = IF u \in us THEN IncrVersion(joinLog[u], <<g>>, "insert") ELSE joinLog[u]
  BY DEF InsertMembers, IncrJoin
<1>3. CASE u \in us
  <2>1. role[g][u] = "none" /\ role'[g][u] # "none"
    BY <1>1, <1>3 DEF Members
  <2> QED
    BY <1>1, <1>2, <1>3, <2>1 DEF LogStep, LogIn, JoinedOf
<1>4. CASE u \notin us
  <2>1. \A h \in GroupID : role'[h][u] = role[h][u]
    BY <1>1, <1>4
  <2> QED
    BY <1>2, <1>4, <2>1 DEF LogStep, LogStays, JoinedOf
<1> QED
  BY <1>3, <1>4

\* Those who leave were in, and each has the departure logged.
LEMMA LeaveLogs ==
  ASSUME NEW g \in GroupID, NEW us \in SUBSET Members(g), IncrJoin(g, us, "delete"),
         \A v \in User : role'[g][v] = IF v \in us THEN "none" ELSE role[g][v],
         \A h \in GroupID \ {g} : role'[h] = role[h],
         NEW u \in User
  PROVE  LogStep(u)
<1>1. joinLog'[u] = IF u \in us THEN IncrVersion(joinLog[u], <<g>>, "delete") ELSE joinLog[u]
  BY DEF IncrJoin
<1>2. CASE u \in us
  <2>1. role[g][u] # "none" /\ role'[g][u] = "none"
    BY <1>2 DEF Members
  <2> QED
    BY <1>1, <1>2, <2>1 DEF LogStep, LogOut, JoinedOf
<1>3. CASE u \notin us
  <2>1. \A h \in GroupID : role'[h][u] = role[h][u]
    BY <1>3
  <2> QED
    BY <1>1, <1>3, <2>1 DEF LogStep, LogStays, JoinedOf
<1> QED
  BY <1>2, <1>3

LEMMA OrdinaryRoles ==
  ASSUME NEW us PROVE Ordinary(us) \in [us -> Roles \ {"none"}]
  BY DEF Ordinary, Roles

LEMMA JoinedStep ==
  ASSUME GInv, [Next]_vars, NEW u \in User
  PROVE  LogStep(u)
<1>1. TypeOK
  BY DEF GInv
<1>2. CASE Create
  <2>1. PICK g \in GroupID, o \in User, us \in SUBSET User : CreateGroup(g, o, us)
    BY <1>2, CreateIs
  <2> DEFINE all == us \cup {o}
             roleOf == [v \in all |-> IF v = o THEN "owner" ELSE "ordinary"]
  <2>2. roleOf \in [all -> Roles \ {"none"}] /\ all \in SUBSET User
    BY DEF Roles
  <2>3. InsertMembers(g, all, roleOf)
    BY <2>1 DEF CreateGroup
  <2>4. Members(g) = {}
    BY <2>1 DEF GInv, GroupOK, Unborn, CreateGroup
  <2> HIDE DEF roleOf, all
  <2> QED
    BY <1>1, <2>2, <2>3, <2>4, EnterLogs
<1>3. ASSUME NEW c \in Call, AddMembers(c) PROVE LogStep(u)
  <2>1. call[c].g \in GroupID /\ call[c].users \in SUBSET User
    BY <1>1, <1>3, TxTyped DEF AddMembers, Running
  <2>2. call[c].users \cap Members(call[c].g) = {}
    BY <1>3 DEF AddMembers, CanAdd
  <2> QED
    BY <1>1, <1>3, <2>1, <2>2, OrdinaryRoles, EnterLogs DEF AddMembers
<1>4. ASSUME NEW c \in Call, HandleRequest(c) PROVE LogStep(u)
  <2>1. call[c].g \in GroupID /\ call[c].user \in User
    BY <1>1, <1>4, TxTyped DEF HandleRequest, Running
  <2>2. CASE call[c].enter
    <3>1. {call[c].user} \cap Members(call[c].g) = {} /\ {call[c].user} \in SUBSET User
      BY <1>4, <2>1, <2>2 DEF HandleRequest, CanHandle
    <3>2. InsertMembers(call[c].g, {call[c].user}, Ordinary({call[c].user}))
      BY <1>4, <2>2 DEF HandleRequest
    <3> QED
      BY <1>1, <2>1, <3>1, <3>2, OrdinaryRoles, EnterLogs
  <2>3. CASE ~ call[c].enter
    BY <1>4, <2>3, NobodyMoves DEF HandleRequest
  <2> QED
    BY <2>2, <2>3
<1>5. ASSUME NEW c \in Call, DeleteMember(c) PROVE LogStep(u)
  <2> DEFINE g == call[c].g
             us == {call[c].user}
  <2>1. g \in GroupID /\ call[c].user \in User /\ us \in SUBSET Members(g)
    BY <1>1, <1>5, TxTyped DEF DeleteMember, Running, CanDelete
  <2>2. role' = [role EXCEPT ![g] = [role[g] EXCEPT ![call[c].user] = "none"]]
    BY <1>5 DEF DeleteMember
  <2>3. /\ \A v \in User : role'[g][v] = IF v \in us THEN "none" ELSE role[g][v]
        /\ \A h \in GroupID \ {g} : role'[h] = role[h]
    BY <1>1, <2>1, <2>2 DEF TypeOK
  <2>4. IncrJoin(g, us, "delete")
    BY <1>5 DEF DeleteMember
  <2> HIDE DEF g, us
  <2> QED
    BY <2>1, <2>3, <2>4, LeaveLogs
<1>6. ASSUME NEW c \in Call, DeleteGroupMembers(c) PROVE LogStep(u)
  <2> DEFINE g == call[c].g
  <2>1. g \in GroupID
    BY <1>1, <1>6, TxTyped DEF DeleteGroupMembers, Running
  <2>2. role' = [role EXCEPT ![g] = [v \in User |-> "none"]]
    BY <1>6 DEF DeleteGroupMembers
  <2>3. /\ \A v \in User : role'[g][v] = IF v \in Members(g) THEN "none" ELSE role[g][v]
        /\ \A h \in GroupID \ {g} : role'[h] = role[h]
    BY <1>1, <2>1, <2>2 DEF TypeOK, Members
  <2>4. IncrJoin(g, Members(g), "delete")
    BY <1>6 DEF DeleteGroupMembers
  <2> HIDE DEF g
  <2> QED
    BY <2>1, <2>3, <2>4, LeaveLogs
<1>7. ASSUME NEW c \in Call, TransferOwner(c) PROVE LogStep(u)
  <2>1. call[c].g \in GroupID /\ call[c].old \in User /\ call[c].new \in User
    BY <1>1, <1>7, TxTyped DEF TransferOwner, Running
  <2>2. \A g \in GroupID : role'[g][u] # "none" <=> role[g][u] # "none"
    <3> DEFINE t == call[c]
    <3>1. /\ role' = [role EXCEPT ![t.g] =
                        [role[t.g] EXCEPT ![t.old] = role[t.g][t.new], ![t.new] = "owner"]]
          /\ role[t.g][t.old] = "owner" /\ role[t.g][t.new] # "none"
      BY <1>1, <1>7, <2>1 DEF TransferOwner, CanTransfer, TypeOK
    <3>2. role[t.g] \in [User -> Roles] /\ DOMAIN role = GroupID
      BY <1>1, <2>1 DEF TypeOK
    <3> QED
      BY <2>1, <3>1, <3>2
  <2> QED
    BY <1>7, <2>2, NobodyMoves DEF TransferOwner
<1>8. ASSUME NEW c \in Call, UpdateGroupMembers(c) PROVE LogStep(u)
  <2>1. /\ call[c].g \in GroupID /\ call[c].user \in Members(call[c].g)
        /\ call[c].role \in {"keep", "ordinary", "admin"}
    BY <1>1, <1>8, TxTyped DEF UpdateGroupMembers, Running, CanUpdate
  <2>2. \A g \in GroupID : role'[g][u] # "none" <=> role[g][u] # "none"
    <3>1. role[call[c].g] \in [User -> Roles] /\ DOMAIN role = GroupID
      BY <1>1, <2>1 DEF TypeOK
    <3> QED
      BY <1>8, <2>1, <3>1 DEF UpdateGroupMembers, Members
  <2> QED
    BY <1>8, <2>2, NobodyMoves DEF UpdateGroupMembers
<1>9. ASSUME UNCHANGED <<role, joinLog>> PROVE LogStep(u)
  BY <1>9, NobodyMoves
<1>10. ASSUME NEW c \in Call,
              CreateRequests(c) \/ SetGroupMuted(c) \/ DismissGroup(c) \/ Handler(c) \/ Refused(c)
       PROVE  LogStep(u)
  BY <1>9, <1>10, CallStep DEF CreateRequests, SetGroupMuted, DismissGroup
<1> QED
  BY <1>2, <1>3, <1>4, <1>5, <1>6, <1>7, <1>8, <1>9, <1>10 DEF Next, Transaction, vars

\* Whatever the transaction, each change of a user's memberships is one change of
\* his log: with SetLogTellsSet, a client that follows the log ends with the groups.
THEOREM GroupJoinedSets == Spec => JoinedSets
<1> DEFINE A == \A u \in User : [Joined(u)!Next]_(Joined(u)!svars)
<1>1. Init => \A u \in User : Joined(u)!Init
  <2> SUFFICES ASSUME Init, NEW u \in User PROVE Joined(u)!Init
    OBVIOUS
  <2>1. {g \in GroupID : role[g][u] # "none"} = {}
    BY DEF Init
  <2>2. joinLog[u] = EmptyLog(GroupID)
    BY DEF Init
  <2> QED
    BY <2>1, <2>2 DEF Joined!Init, EmptyLog, Joined!EmptyLog, NoRow, Joined!NoRow
<1>2. GInv /\ [Next]_vars => [A]_vars
  BY JoinedStep, LogStepMaps
<1>3. Spec => [][A]_vars
  BY <1>2, GInvInit, GInvNext, PTL DEF Spec
<1>4. Spec => \A u \in User : Joined(u)!Init
  BY <1>1 DEF Spec
<1> QED
  BY <1>3, <1>4 DEF JoinedSets
-----------------------------------------------------------------------------
(***************************************************************************)
(* The log of a group tells its members until the group is dismissed.  The *)
(* strengthening: only a dismissed group is about to lose all its members  *)
(* without a word in its log.                                              *)
(***************************************************************************)
Tells(g) == \A u \in User : u \in Members(g) <=> memberLog[g].row[u].state # "delete"

MInv ==
  /\ GInv
  /\ \A g \in GroupID : status[g] # "dismissed" => Tells(g)
  /\ \A c \in Call : Running(c, "DeleteGroupMembers") => status[call[c].g] = "dismissed"

Named(b, u) == \E i \in DOMAIN b : b[i] = u

\* A batch in order names the users of the batch and nobody else: as many ranks
\* as users, so every rank is taken.
LEMMA OrderNames ==
  ASSUME NEW us \in SUBSET User, NEW u
  PROVE  Named(InOrder(us), u) <=> u \in us
<1> DEFINE n == Cardinality(us)
           Below(v) == {w \in us : w < v}
           rank == [v \in us |-> Cardinality(Below(v)) + 1]
<1>1. us \subseteq Nat /\ IsFiniteSet(us) /\ n \in Nat
  BY Finite, GroupAssumption
<1>2. ASSUME NEW v \in us
      PROVE  /\ IsFiniteSet(Below(v)) /\ Cardinality(Below(v)) \in Nat
             /\ Cardinality(Below(v)) < n
  <2>1. Below(v) \in SUBSET us /\ v \notin Below(v)
    BY <1>1
  <2>2. IsFiniteSet(Below(v)) /\ Cardinality(Below(v)) \in Nat
    BY <2>1, <1>1, FS_Subset, FS_CardinalityType
  <2>3. Cardinality(Below(v)) <= n /\ Cardinality(Below(v)) # n
    BY <2>1, <1>1, FS_Subset
  <2> QED
    BY <2>2, <2>3, <1>1
<1>3. ASSUME NEW v \in us, NEW w \in us, v < w
      PROVE  Cardinality(Below(v)) # Cardinality(Below(w))
  <2>1. Below(v) \in SUBSET Below(w) /\ v \in Below(w) /\ v \notin Below(v)
    <3>1. v \in Nat /\ w \in Nat
      BY <1>1
    <3>2. ASSUME NEW x \in us, x < v PROVE x < w
      BY <3>1, <3>2, <1>1, <1>3
    <3>3. v \in Below(w) /\ v \notin Below(v)
      BY <3>1, <1>3
    <3> QED
      BY <3>2, <3>3
  <2>2. IsFiniteSet(Below(w)) /\ Below(v) # Below(w)
    BY <2>1, <1>2
  <2> HIDE DEF Below
  <2> QED
    BY <2>1, <2>2, FS_Subset
<1>4. rank \in Injection(us, 1..n)
  <2>1. rank \in [us -> 1..n]
    BY <1>1, <1>2
  <2>2. ASSUME NEW v \in us, NEW w \in us, v # w PROVE rank[v] # rank[w]
    <3>1. v < w \/ w < v
      BY <1>1, <2>2
    <3>2. Cardinality(Below(v)) # Cardinality(Below(w))
      BY <3>1, <1>3
    <3> QED
      BY <3>2, <1>2
  <2> QED
    BY <2>1, <2>2 DEF Injection, IsInjective
<1>5. IsFiniteSet(1..n) /\ Cardinality(1..n) = n
  BY <1>1, FS_Interval
<1>6. rank \in Surjection(us, 1..n)
  BY <1>4, <1>5, FS_Injection
<1>7. \A i \in 1..n : \E v \in us : rank[v] = i
  BY <1>6 DEF Surjection
<1>8. \A i \in 1..n : InOrder(us)[i] = (CHOOSE v \in us : Cardinality(Below(v)) = i - 1)
  BY DEF InOrder
<1>9. DOMAIN InOrder(us) = 1..n
  BY DEF InOrder
<1>10. ASSUME NEW i \in 1..n
       PROVE  InOrder(us)[i] \in us /\ Cardinality(Below(InOrder(us)[i])) = i - 1
  <2>1. PICK v \in us : rank[v] = i
    BY <1>7
  <2>2. Cardinality(Below(v)) = i - 1
    <3>1. Cardinality(Below(v)) + 1 = i
      BY <2>1
    <3>2. Cardinality(Below(v)) \in Nat
      BY <1>2
    <3> HIDE DEF Below
    <3> QED
      BY <3>1, <3>2
  <2>3. InOrder(us)[i] = (CHOOSE w \in us : Cardinality(Below(w)) = i - 1)
    BY <1>8
  <2> HIDE DEF Below
  <2> QED
    BY <2>2, <2>3
<1>11. ASSUME u \in us PROVE Named(InOrder(us), u)
  <2>1. rank[u] \in 1..n
    BY <1>11, <1>1, <1>2
  <2>2. Cardinality(Below(InOrder(us)[rank[u]])) = Cardinality(Below(u)) /\ InOrder(us)[rank[u]] \in us
    BY <2>1, <1>10, <1>11, <1>2
  <2>3. ~ (InOrder(us)[rank[u]] < u) /\ ~ (u < InOrder(us)[rank[u]])
    BY <2>2, <1>3, <1>11
  <2>4. InOrder(us)[rank[u]] = u
    <3>1. u \in Nat /\ InOrder(us)[rank[u]] \in Nat
      BY <2>2, <1>1, <1>11
    <3> HIDE DEF rank
    <3> QED
      BY <2>3, <3>1
  <2> QED
    BY <2>1, <2>4, <1>9 DEF Named
<1>12. ASSUME Named(InOrder(us), u) PROVE u \in us
  BY <1>12, <1>9, <1>10 DEF Named
<1> QED
  BY <1>11, <1>12

\* The row of an element after a batch.
LEMMA RowAfter ==
  ASSUME NEW E, NEW l \in Logs(E), NEW b, NEW st, NEW e \in E
  PROVE  IncrVersion(l, b, st).row[e].state = IF Named(b, e) THEN st ELSE l.row[e].state
<1>1. DOMAIN l.row = E
  BY DEF Logs
<1> QED
  BY <1>1 DEF IncrVersion, Named

\* A batch that names exactly those it moves, in the direction it moves them,
\* keeps the log of its group telling and the other logs as they are.
LEMMA TellsStep ==
  ASSUME TypeOK, NEW g \in GroupID, NEW b, NEW st, IncrMembers(g, b, st),
         status[g] # "dismissed" => Tells(g),
         \A u \in User : u \in Members(g)' <=> IF Named(b, u) THEN st # "delete"
                                                              ELSE u \in Members(g)
  PROVE  /\ status[g] # "dismissed" => Tells(g)'
         /\ \A h \in GroupID \ {g} : memberLog'[h] = memberLog[h]
<1>1. memberLog[g] \in Logs(MemberElem) /\ User \subseteq MemberElem
  BY DEF TypeOK, MemberElem
<1>2. /\ memberLog'[g] = IncrVersion(memberLog[g], b, st)
      /\ \A h \in GroupID \ {g} : memberLog'[h] = memberLog[h]
  BY DEF TypeOK, IncrMembers
<1>3. ASSUME NEW u \in User
      PROVE  memberLog'[g].row[u].state =
               IF Named(b, u) THEN st ELSE memberLog[g].row[u].state
  BY <1>1, <1>2, RowAfter
<1> QED
  BY <1>2, <1>3 DEF Tells

\* A group whose roles and log did not change tells what it told.
LEMMA TellsSame ==
  ASSUME NEW h \in GroupID, role'[h] = role[h], memberLog'[h] = memberLog[h], Tells(h)
  PROVE  Tells(h)'
  BY DEF Tells, Members

LEMMA NotUsers == ASSUME NEW u \in User PROVE u # GroupRow /\ u # SortRow
<1>1. u \in Nat
  BY GroupAssumption
<1> QED
  BY <1>1 DEF GroupRow, SortRow

TellAll == \A g \in GroupID : status[g] # "dismissed" => Tells(g)

LEMMA EnterTells ==
  ASSUME TypeOK, TellAll, NEW g \in GroupID, NEW us \in SUBSET User,
         NEW roleOf \in [us -> Roles \ {"none"}], InsertMembers(g, us, roleOf),
         \A h \in GroupID : status'[h] # "dismissed" => status[h] # "dismissed"
  PROVE  TellAll'
<1>1. /\ \A h \in GroupID \ {g} : role'[h] = role[h]
      /\ Members(g)' = Members(g) \cup us
  BY InsertStep
<1>2. \A u \in User : u \in Members(g)' <=> IF Named(InOrder(us), u) THEN "insert" # "delete"
                                                                     ELSE u \in Members(g)
  BY <1>1, OrderNames
<1>3. IncrMembers(g, InOrder(us), "insert")
  BY DEF InsertMembers
<1>4. /\ status[g] # "dismissed" => Tells(g)'
      /\ \A h \in GroupID \ {g} : memberLog'[h] = memberLog[h]
  BY <1>2, <1>3, TellsStep DEF TellAll
<1> QED
  BY <1>1, <1>4, TellsSame DEF TellAll

LEMMA LogStepTells ==
  ASSUME TypeOK, TellAll, NEW g \in GroupID, NEW b, NEW st, IncrMembers(g, b, st),
         \A u \in User : u \in Members(g)' <=> IF Named(b, u) THEN st # "delete"
                                                              ELSE u \in Members(g),
         \A h \in GroupID \ {g} : role'[h] = role[h],
         \A h \in GroupID : status'[h] # "dismissed" => status[h] # "dismissed"
  PROVE  TellAll'
<1>1. /\ status[g] # "dismissed" => Tells(g)'
      /\ \A h \in GroupID \ {g} : memberLog'[h] = memberLog[h]
  BY TellsStep DEF TellAll
<1> QED
  BY <1>1, TellsSame DEF TellAll

LEMMA TellAllNext ==
  ASSUME MInv, [Next]_vars
  PROVE  TellAll'
<1>1. TypeOK /\ TellAll /\ GInv
  BY DEF MInv, GInv, TellAll
<1>2. \A h \in GroupID : status'[h] # "dismissed" => status[h] # "dismissed"
  BY <1>1, DismissedStep
<1>3. ASSUME UNCHANGED <<role, memberLog>> PROVE TellAll'
  BY <1>1, <1>2, <1>3, TellsSame DEF TellAll
<1>4. CASE Create
  <2>1. PICK g \in GroupID, o \in User, us \in SUBSET User : CreateGroup(g, o, us)
    BY <1>4, CreateIs
  <2> DEFINE all == us \cup {o}
             roleOf == [v \in all |-> IF v = o THEN "owner" ELSE "ordinary"]
  <2>2. roleOf \in [all -> Roles \ {"none"}] /\ all \in SUBSET User
    BY DEF Roles
  <2>3. InsertMembers(g, all, roleOf)
    BY <2>1 DEF CreateGroup
  <2> HIDE DEF roleOf, all
  <2> QED
    BY <1>1, <1>2, <2>2, <2>3, EnterTells
<1>5. ASSUME NEW c \in Call, AddMembers(c) PROVE TellAll'
  <2>1. call[c].g \in GroupID /\ call[c].users \in SUBSET User
    BY <1>1, <1>5, TxTyped DEF AddMembers, Running
  <2> QED
    BY <1>1, <1>2, <1>5, <2>1, OrdinaryRoles, EnterTells DEF AddMembers
<1>6. ASSUME NEW c \in Call, HandleRequest(c) PROVE TellAll'
  <2>1. call[c].g \in GroupID /\ {call[c].user} \in SUBSET User
    BY <1>1, <1>6, TxTyped DEF HandleRequest, Running
  <2>2. CASE call[c].enter
    <3>1. InsertMembers(call[c].g, {call[c].user}, Ordinary({call[c].user}))
      BY <1>6, <2>2 DEF HandleRequest
    <3> QED
      BY <1>1, <1>2, <2>1, <3>1, OrdinaryRoles, EnterTells
  <2>3. CASE ~ call[c].enter
    BY <1>3, <1>6, <2>3 DEF HandleRequest
  <2> QED
    BY <2>2, <2>3
<1>7. ASSUME NEW c \in Call, DeleteMember(c) PROVE TellAll'
  <2> PICK g, out : g = call[c].g /\ out = call[c].user
    OBVIOUS
  <2>1. g \in GroupID /\ out \in User
    BY <1>1, <1>7, TxTyped DEF DeleteMember, Running
  <2>2. role' = [role EXCEPT ![g] = [role[g] EXCEPT ![out] = "none"]]
        /\ IncrMembers(g, <<out>>, "delete")
    BY <1>7 DEF DeleteMember
  <2>3. /\ \A u \in User : role'[g][u] = IF u = out THEN "none" ELSE role[g][u]
        /\ \A h \in GroupID \ {g} : role'[h] = role[h]
    BY <1>1, <2>1, <2>2 DEF TypeOK
  <2>4. \A u \in User : Named(<<out>>, u) <=> u = out
    BY DEF Named
  <2>5. \A u \in User : u \in Members(g)' <=> IF Named(<<out>>, u) THEN "delete" # "delete"
                                                                  ELSE u \in Members(g)
    BY <2>3, <2>4 DEF Members
  <2> QED
    BY <1>1, <1>2, <2>1, <2>2, <2>3, <2>5, LogStepTells
<1>8. ASSUME NEW c \in Call, TransferOwner(c) PROVE TellAll'
  <2> PICK g, a, z : g = call[c].g /\ a = call[c].old /\ z = call[c].new
    OBVIOUS
  <2>1. g \in GroupID /\ a \in User /\ z \in User
    BY <1>1, <1>8, TxTyped DEF TransferOwner, Running
  <2>2. role' = [role EXCEPT ![g] = [role[g] EXCEPT ![a] = role[g][z], ![z] = "owner"]]
        /\ IncrMembers(g, <<a, z, SortRow>>, "update")
        /\ role[g][a] = "owner" /\ role[g][z] # "none"
    BY <1>1, <1>8, <2>1 DEF TransferOwner, CanTransfer, TypeOK
  <2>3. role[g] \in [User -> Roles] /\ DOMAIN role = GroupID
    BY <1>1, <2>1 DEF TypeOK
  <2>4. /\ \A u \in User : role'[g][u] # "none" <=> role[g][u] # "none"
        /\ \A h \in GroupID \ {g} : role'[h] = role[h]
    BY <2>1, <2>2, <2>3
  <2>5. \A u \in User : Named(<<a, z, SortRow>>, u) <=> u = a \/ u = z
    <3>1. DOMAIN <<a, z, SortRow>> = {1, 2, 3}
      OBVIOUS
    <3> QED
      BY <3>1, NotUsers DEF Named
  <2>6. \A u \in User : u \in Members(g)' <=>
          IF Named(<<a, z, SortRow>>, u) THEN "update" # "delete" ELSE u \in Members(g)
    BY <2>2, <2>4, <2>5 DEF Members
  <2> QED
    BY <1>1, <1>2, <2>1, <2>2, <2>4, <2>6, LogStepTells
<1>9. ASSUME NEW c \in Call, UpdateGroupMembers(c) PROVE TellAll'
  <2> PICK g, z : g = call[c].g /\ z = call[c].user
    OBVIOUS
  <2>1. /\ g \in GroupID /\ z \in Members(g) /\ z \in User
        /\ call[c].role \in {"keep", "ordinary", "admin"}
    BY <1>1, <1>9, TxTyped DEF UpdateGroupMembers, Running, CanUpdate
  <2>2. PICK b \in {<<z>>, <<z, SortRow>>} : IncrMembers(g, b, "update")
    BY <1>9 DEF UpdateGroupMembers
  <2>3. \/ role' = role
        \/ /\ role' = [role EXCEPT ![g] = [role[g] EXCEPT ![z] = call[c].role]]
           /\ call[c].role # "none"
    BY <1>9, <2>1 DEF UpdateGroupMembers
  <2>4. role[g] \in [User -> Roles] /\ DOMAIN role = GroupID /\ role[g][z] # "none"
    BY <1>1, <2>1 DEF TypeOK, Members
  <2>5. /\ \A u \in User : role'[g][u] # "none" <=> role[g][u] # "none"
        /\ \A h \in GroupID \ {g} : role'[h] = role[h]
    BY <2>1, <2>3, <2>4
  <2>6. \A u \in User : Named(b, u) <=> u = z
    <3>1. DOMAIN <<z, SortRow>> = {1, 2} /\ DOMAIN <<z>> = {1}
      OBVIOUS
    <3>2. CASE b = <<z>>
      BY <3>1, <3>2 DEF Named
    <3>3. CASE b = <<z, SortRow>>
      BY <3>1, <3>3, NotUsers DEF Named
    <3> QED
      BY <3>2, <3>3
  <2>7. \A u \in User : u \in Members(g)' <=> IF Named(b, u) THEN "update" # "delete"
                                                            ELSE u \in Members(g)
    BY <2>1, <2>4, <2>5, <2>6 DEF Members
  <2> QED
    BY <1>1, <1>2, <2>1, <2>2, <2>5, <2>7, LogStepTells
<1>10. ASSUME NEW c \in Call, SetGroupMuted(c) \/ DismissGroup(c) PROVE TellAll'
  <2> PICK g : g = call[c].g
    OBVIOUS
  <2>1. g \in GroupID /\ role' = role /\ IncrMembers(g, <<GroupRow>>, "update")
    BY <1>1, <1>10, TxTyped DEF SetGroupMuted, DismissGroup, Running
  <2>2. \A u \in User : ~ Named(<<GroupRow>>, u)
    BY NotUsers DEF Named
  <2>3. \A u \in User : u \in Members(g)' <=> IF Named(<<GroupRow>>, u) THEN "update" # "delete"
                                                                        ELSE u \in Members(g)
    BY <2>1, <2>2 DEF Members
  <2> QED
    BY <1>1, <1>2, <2>1, <2>3, LogStepTells
<1>11. ASSUME NEW c \in Call, DeleteGroupMembers(c) PROVE TellAll'
  <2>1. call[c].g \in GroupID /\ status[call[c].g] = "dismissed"
    BY <1>1, <1>11, TxTyped DEF MInv, DeleteGroupMembers, Running
  <2>2. \A h \in GroupID \ {call[c].g} : role'[h] = role[h] /\ memberLog'[h] = memberLog[h]
    BY <1>1, <1>11, <2>1 DEF DeleteGroupMembers, TypeOK
  <2> QED
    BY <1>1, <1>2, <2>1, <2>2, TellsSame DEF TellAll
<1>12. ASSUME NEW c \in Call, CreateRequests(c) \/ Handler(c) \/ Refused(c) PROVE TellAll'
  BY <1>1, <1>3, <1>12, CallStep DEF CreateRequests
<1> QED
  BY <1>3, <1>4, <1>5, <1>6, <1>7, <1>8, <1>9, <1>10, <1>11, <1>12 DEF Next, Transaction, vars

\* Only the dismissal itself, or one who finds the group dismissed, goes on to
\* remove all members.
ClearsDismissed ==
  \A c \in Call : Running(c, "DeleteGroupMembers") => status[call[c].g] = "dismissed"

LEMMA ClearsDismissedNext ==
  ASSUME MInv, [Next]_vars
  PROVE  ClearsDismissed'
<1>1. TypeOK /\ GInv /\ ClearsDismissed
  BY DEF MInv, GInv, ClearsDismissed
<1>2. ASSUME NEW d \in Call, call'[d].tx = "DeleteGroupMembers", call'[d] = call[d]
      PROVE  status'[call'[d].g] = "dismissed"
  <2>1. call[d].g \in GroupID /\ status[call[d].g] = "dismissed"
    BY <1>1, <1>2, TxTyped DEF ClearsDismissed, Running
  <2> QED
    BY <1>1, <1>2, <2>1, DismissedStep
<1>3. CASE Create \/ UNCHANGED vars
  <2>1. call' = call
    BY <1>3, CreateIs DEF CreateGroup, vars
  <2> QED
    BY <1>2, <2>1 DEF ClearsDismissed, Running
<1>4. ASSUME NEW c \in Call, \E x : call' = [call EXCEPT ![c] = x] /\
                (x.tx = "DeleteGroupMembers" => status'[x.g] = "dismissed")
      PROVE  ClearsDismissed'
  <2>1. PICK x : call' = [call EXCEPT ![c] = x] /\
                (x.tx = "DeleteGroupMembers" => status'[x.g] = "dismissed")
    BY <1>4
  <2>2. DOMAIN call = Call
    BY <1>1 DEF TypeOK
  <2>3. ASSUME NEW d \in Call, call'[d].tx = "DeleteGroupMembers"
        PROVE  status'[call'[d].g] = "dismissed"
    BY <2>1, <2>2, <2>3, <1>2
  <2> QED
    BY <2>3 DEF ClearsDismissed, Running
<1>5. ASSUME NEW c \in Call, Done(c) PROVE ClearsDismissed'
  <2>1. Idle.tx # "DeleteGroupMembers" /\ call' = [call EXCEPT ![c] = Idle]
    BY <1>5 DEF Idle, Done
  <2> QED
    BY <2>1, <1>4
<1>6. ASSUME NEW c \in Call, DismissGroup(c) PROVE ClearsDismissed'
  <2>1. call[c].g \in GroupID /\ status' = [status EXCEPT ![call[c].g] = "dismissed"]
    BY <1>1, <1>6, TxTyped DEF DismissGroup, Running
  <2>2. status'[call[c].g] = "dismissed"
    BY <1>1, <2>1 DEF TypeOK
  <2>3. \/ call' = [call EXCEPT ![c] = [tx |-> "DeleteGroupMembers", g |-> call[c].g]]
        \/ call' = [call EXCEPT ![c] = Idle]
    BY <1>6 DEF DismissGroup
  <2>4. Idle.tx # "DeleteGroupMembers"
    BY DEF Idle
  <2> QED
    BY <2>2, <2>3, <2>4, <1>4
<1>7. ASSUME NEW c \in Call, Handler(c) PROVE ClearsDismissed'
  <2>1. PICK t \in Txs : Ask(c, t) /\ ClearsLate(t)
    BY <1>7, HandlerAsks
  <2>2. status' = status
    BY <1>1, <1>7, CallStep
  <2> QED
    BY <2>1, <2>2, <1>4 DEF Ask, ClearsLate
<1>8. ASSUME NEW c \in Call, Transaction(c) \/ Refused(c), ~ DismissGroup(c) PROVE Done(c)
  BY <1>8 DEF Transaction, Refused, AddMembers, CreateRequests, HandleRequest, DeleteMember,
              TransferOwner, UpdateGroupMembers, SetGroupMuted, DeleteGroupMembers
<1> QED
  BY <1>3, <1>5, <1>6, <1>7, <1>8 DEF Next

\* A client that follows the log of a group ends with its members, for as long as
\* the group is not dismissed.
THEOREM GroupMemberLogTells == Spec => []MemberLogTells
<1>1. Init => MInv
  <2> SUFFICES ASSUME Init PROVE MInv
    OBVIOUS
  <2>1. ASSUME NEW g \in GroupID PROVE Tells(g)
    <3>1. Members(g) = {} /\ memberLog[g] = EmptyLog(MemberElem)
      BY DEF Init, Members
    <3>2. \A u \in User : memberLog[g].row[u].state = "delete"
      BY <3>1 DEF EmptyLog, NoRow, MemberElem
    <3> QED
      BY <3>1, <3>2 DEF Tells
  <2>2. \A c \in Call : ~ Running(c, "DeleteGroupMembers")
    BY DEF Init, Running, Idle
  <2> QED
    BY <2>1, <2>2, GInvInit DEF MInv
<1>2. MInv /\ [Next]_vars => MInv'
  <2> SUFFICES ASSUME MInv, [Next]_vars PROVE MInv'
    OBVIOUS
  <2>1. GInv'
    BY GInvNext DEF MInv
  <2>2. TellAll' /\ ClearsDismissed'
    BY TellAllNext, ClearsDismissedNext
  <2> QED
    BY <2>1, <2>2 DEF MInv, TellAll, ClearsDismissed
<1>3. MInv => MemberLogTells
  BY DEF MInv, MemberLogTells, Tells, Active
<1> QED
  BY <1>1, <1>2, <1>3, PTL DEF Spec
=============================================================================

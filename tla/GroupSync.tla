----------------------------- MODULE GroupSync ------------------------------
(***************************************************************************)
(* The joined groups of one user as the gateways keep them: a record in    *)
(* Redis with the version it was built at, brought forward by concurrent   *)
(* HTTP requests (msggateway/internal/ws/group_sync.go).  The user's       *)
(* memberships are the versioned set the group service maintains; a        *)
(* request reads them through several calls with changes in between.       *)
(***************************************************************************)
EXTENDS VersionedSet, FiniteSets

CONSTANTS
  Sync,              \* requests of the user, possibly on different gateways
  PageLimit,         \* pageLimit: groups per page of the full list
  SyncLimit,         \* syncLimit: changes the service is willing to send
  MaxVersion         \* bound: memberships change until the log is this long

\* What the theorems assume of the constants.
SyncAssumption ==
  /\ IsFiniteSet(Elem)
  /\ PageLimit \in Nat \ {0}
  /\ SyncLimit \in Nat \ {0}
  /\ MaxVersion \in Nat

VARIABLES
  record,            \* GroupSyncRecord of the user; version 0 when there is none
  sync               \* per request: its stage and what it holds

vars == <<set, log, record, sync>>

Records == [version : Nat, groups : SUBSET Elem]
NoRecord == [version |-> 0, groups |-> {}]

\* current: the record as loaded.  next: the one to save.  offset: where the
\* next page starts.  total: the count read before the page.
Idle == [at |-> "idle", current |-> NoRecord, next |-> NoRecord, offset |-> 0, total |-> 0]

SyncInit ==
  /\ Init
  /\ record = NoRecord
  /\ sync = [s \in Sync |-> Idle]

\* The group service adds or removes the user: one transaction each.
Membership ==
  /\ log.ver < MaxVersion
  /\ \E e \in Elem : Insert(e) \/ Delete(e)
  /\ UNCHANGED <<record, sync>>

\* syncLog.Load.
Load(s) ==
  /\ sync[s].at = "idle"
  /\ sync' = [sync EXCEPT ![s] = [Idle EXCEPT !.at = "head", !.current = record]]
  /\ UNCHANGED <<set, log, record>>

\* GetIncrementalJoinGroups: JoinVersion, needFull, and the early return when
\* nothing is newer.  The saved version is always the head read here.
ReadHead(s) ==
  /\ sync[s].at = "head"
  /\ LET cur == sync[s].current
         at  == IF cur.version = 0 THEN "count"
                ELSE IF log.ver <= cur.version THEN "save" ELSE "changes"
     IN sync' = [sync EXCEPT ![s].at = at,
                             ![s].next = [version |-> log.ver,
                                          groups |-> IF at = "save" THEN cur.groups ELSE {}]]
  /\ UNCHANGED <<set, log, record>>

\* applyJoinedGroups: deletions, then what is not there yet is added.
ApplyJoined(groups, ids) == (groups \ Deleted(log, ids)) \cup Present(log, ids)

\* JoinChanges, after the head: a reader may see rows newer than the head it
\* returns.  Too many rows mean a full list, at the head already read.
ReadChanges(s) ==
  /\ sync[s].at = "changes"
  /\ LET ids == Changes(log, sync[s].current.version)
     IN sync' = [sync EXCEPT ![s] =
          IF Cardinality(ids) >= SyncLimit
          THEN [@ EXCEPT !.at = "count"]
          ELSE [@ EXCEPT !.at = "save",
                         !.next.groups = ApplyJoined(sync[s].current.groups, ids)]]
  /\ UNCHANGED <<set, log, record>>

\* JoinedGroupIDs counts, then selects ORDER BY join_time DESC LIMIT OFFSET.  The
\* row version of a joined group is the version at which the user joined it.
Newer(e) == {f \in set : log.row[f].ver > log.row[e].ver}
Page(offset) ==
  {e \in set : Cardinality(Newer(e)) \in offset..(offset + PageLimit - 1)}

Count(s) ==
  /\ sync[s].at = "count"
  /\ sync' = [sync EXCEPT ![s].at = "page", ![s].total = Cardinality(set)]
  /\ UNCHANGED <<set, log, record>>

\* One round of ListJoined: stop at the total or at an empty page.
ReadPage(s) ==
  /\ sync[s].at = "page"
  /\ LET page == Page(sync[s].offset)
         last == \/ sync[s].offset + Cardinality(page) >= sync[s].total
                 \/ page = {}
     IN sync' = [sync EXCEPT ![s].at = IF last THEN "save" ELSE "count",
                             ![s].offset = @ + PageLimit,
                             ![s].next.groups = @ \cup page]
  /\ UNCHANGED <<set, log, record>>

\* syncLog.Save: a plain SET, whatever another request saved meanwhile.
Save(s) ==
  /\ sync[s].at = "save"
  /\ record' = sync[s].next
  /\ sync' = [sync EXCEPT ![s] = Idle]
  /\ UNCHANGED <<set, log>>

\* A call fails: the request ends and nothing is saved.
Fail(s) ==
  /\ sync[s].at # "idle"
  /\ sync' = [sync EXCEPT ![s] = Idle]
  /\ UNCHANGED <<set, log, record>>

SyncStep(s) ==
  \/ Load(s) \/ ReadHead(s) \/ ReadChanges(s)
  \/ Count(s) \/ ReadPage(s) \/ Save(s) \/ Fail(s)

SyncNext == Membership \/ \E s \in Sync : SyncStep(s)

SyncSpec == SyncInit /\ [][SyncNext]_vars
-----------------------------------------------------------------------------
\* The record agrees with the memberships about every group that did not change
\* after the record's version.  What it has wrong must be in the changes the
\* next request is sent; what is wrong and older is wrong for ever, because the
\* record never expires.
Settled(rec, e) == rec.version > 0 /\ log.row[e].ver <= rec.version

\* Every group the user left by the record's version is gone from it.
NothingLeftBehind == \A e \in record.groups : Settled(record, e) => e \in set

\* "ListJoined pages every group the user still belongs to"
\* (msggateway/internal/rpc/client.go:90): every group the user was in at the
\* record's version, and is still in, is listed.
NothingMissing == \A e \in set : Settled(record, e) => e \in record.groups
=============================================================================

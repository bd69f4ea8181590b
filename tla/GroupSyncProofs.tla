-------------------------- MODULE GroupSyncProofs ---------------------------
(***************************************************************************)
(* What the record of the gateways keeps of the version log: nothing the   *)
(* user left stays in it, whatever the page size, and nothing is missing   *)
(* from it while the full list fits one page.                              *)
(***************************************************************************)
EXTENDS GroupSync, VersionedSetProofs, FiniteSetTheorems

\* A record is right about the groups that did not change after its version: it
\* holds none the user left (NoExtra) and lacks none the user is in (Complete).
NoExtra(rec) == \A e \in rec.groups : log.row[e].ver <= rec.version => e \in set
Complete(rec) == \A e \in set : log.row[e].ver <= rec.version => e \in rec.groups

Requests == [at : {"idle", "head", "changes", "count", "page", "save"},
             current : Records, next : Records, offset : Nat, total : Nat]

Known(rec) == rec.version <= log.ver

SyncTypeOK ==
  /\ TypeOK
  /\ record \in Records
  /\ sync \in [Sync -> Requests]

\* Every record at rest or in flight was built from what the head had reached.
SyncInv ==
  /\ SyncTypeOK
  /\ LogTellsSet
  /\ Known(record) /\ NoExtra(record)
  /\ \A s \in Sync : /\ Known(sync[s].current) /\ NoExtra(sync[s].current)
                     /\ Known(sync[s].next) /\ NoExtra(sync[s].next)

\* A change of membership raises the row it touches above every known version.
LEMMA ChangeKeeps ==
  ASSUME TypeOK, NEW e \in Elem, Changed(e), NEW rec \in Records, Known(rec)
  PROVE  /\ Known(rec)'
         /\ NoExtra(rec) => NoExtra(rec)'
         /\ Complete(rec) /\ set' \subseteq Elem => Complete(rec)'
<1>1. /\ log.ver \in Nat /\ log.row \in [Elem -> [state : States, ver : Nat]]
      /\ rec.version \in Nat /\ rec.groups \subseteq Elem
  BY DEF TypeOK, Logs, Records
<1>2. log'.ver = log.ver + 1 /\ log'.row[e].ver = log.ver + 1
  BY <1>1 DEF Changed
<1>3. \A f \in Elem \ {e} : log'.row[f] = log.row[f] /\ (f \in set' <=> f \in set)
  BY <1>1 DEF Changed
<1>4. \A f \in Elem : log'.row[f].ver <= rec.version => f # e
  BY <1>1, <1>2 DEF Known
<1>5. Known(rec)'
  BY <1>1, <1>2 DEF Known
<1>6. NoExtra(rec) => NoExtra(rec)'
  BY <1>1, <1>3, <1>4 DEF NoExtra
<1>7. Complete(rec) /\ set' \subseteq Elem => Complete(rec)'
  BY <1>1, <1>3, <1>4 DEF Complete
<1> QED
  BY <1>5, <1>6, <1>7

LEMMA MembershipChanges ==
  ASSUME TypeOK, LogTellsSet, Membership
  PROVE  /\ TypeOK' /\ LogTellsSet'
         /\ \E e \in Elem : Changed(e)
         /\ record' = record /\ sync' = sync
BY ChangeOfOne DEF Membership

RequestInv(r) == /\ r \in Requests
                 /\ Known(r.current) /\ NoExtra(r.current)
                 /\ Known(r.next) /\ NoExtra(r.next)

\* One step of a request: memberships stand still and the request stays right.
LEMMA RequestStep ==
  ASSUME SyncAssumption, SyncInv, NEW s \in Sync, SyncStep(s)
  PROVE  /\ UNCHANGED <<set, log>>
         /\ \E r \in Requests : sync' = [sync EXCEPT ![s] = r] /\ RequestInv(r)
         /\ record' = record \/ (record' = sync[s].next /\ sync[s].at = "save")
<1> DEFINE q == sync[s]
           To(r) == sync' = [sync EXCEPT ![s] = r] /\ RequestInv(r)
<1>1. /\ q \in Requests /\ RequestInv(q) /\ record \in Records
      /\ Known(record) /\ NoExtra(record)
  BY DEF SyncInv, SyncTypeOK, RequestInv
<1>2. /\ log.ver \in Nat /\ log.row \in [Elem -> [state : States, ver : Nat]]
      /\ set \subseteq Elem /\ LogTellsSet
  BY DEF SyncInv, SyncTypeOK, TypeOK, Logs
<1>3. PageLimit \in Nat /\ sync \in [Sync -> Requests]
  BY DEF SyncAssumption, SyncInv, SyncTypeOK
<1>4. RequestInv(Idle)
  BY <1>2 DEF RequestInv, Idle, NoRecord, Requests, Records, Known, NoExtra
<1>5. CASE Load(s)
  <2>1. To([Idle EXCEPT !.at = "head", !.current = record])
    BY <1>5, <1>1, <1>4 DEF Load, Idle, RequestInv, Requests
  <2> QED
    BY <2>1, <1>5 DEF Load, RequestInv
<1>6. CASE ReadHead(s)
  <2> DEFINE at == IF q.current.version = 0 THEN "count"
                   ELSE IF log.ver <= q.current.version THEN "save" ELSE "changes"
             nx == [version |-> log.ver,
                    groups |-> IF at = "save" THEN q.current.groups ELSE {}]
             r == [q EXCEPT !.at = at, !.next = nx]
  <2>1. sync' = [sync EXCEPT ![s] = r]
    BY <1>6, <1>3 DEF ReadHead
  <2>2. nx \in Records /\ Known(nx)
    BY <1>1, <1>2 DEF Records, Requests, Known
  <2>3. NoExtra(nx)
    <3>1. CASE at = "save"
      <4>1. q.current.version = log.ver
        <5>1. q.current \in Records
          BY <1>1 DEF Requests
        <5>2. q.current.version \in Nat
          BY <5>1 DEF Records
        <5>3. q.current.version <= log.ver
          BY <1>1 DEF RequestInv, Known
        <5>4. log.ver <= q.current.version
          BY <3>1
        <5> QED
          BY <5>2, <5>3, <5>4, <1>2
      <4>2. nx.version = q.current.version /\ nx.groups = q.current.groups
        BY <4>1, <3>1
      <4>3. NoExtra(q.current)
        BY <1>1 DEF RequestInv
      <4> QED
        BY <4>2, <4>3 DEF NoExtra
    <3>2. CASE at # "save"
      BY <3>2 DEF NoExtra
    <3> QED
      BY <3>1, <3>2
  <2>4. r \in Requests /\ r.current = q.current /\ r.next = nx
    BY <1>1, <2>2 DEF Requests
  <2>5. RequestInv(r)
    BY <2>2, <2>3, <2>4, <1>1 DEF RequestInv
  <2> QED
    BY <2>1, <2>4, <2>5, <1>6 DEF ReadHead
<1>7. CASE ReadChanges(s)
  <2> DEFINE ids == Changes(log, q.current.version)
             full == [q EXCEPT !.at = "count"]
             part == [q EXCEPT !.at = "save", !.next.groups = ApplyJoined(q.current.groups, ids)]
  <2>1. \/ sync' = [sync EXCEPT ![s] = full]
        \/ sync' = [sync EXCEPT ![s] = part]
    BY <1>7, <1>3 DEF ReadChanges
  <2>2. full \in Requests /\ full.current = q.current /\ full.next = q.next
    BY <1>1 DEF Requests
  <2>3. RequestInv(full)
    BY <2>2, <1>1 DEF RequestInv
  <2>4. ids \subseteq Elem
    BY <1>2 DEF Changes
  <2>5. ApplyJoined(q.current.groups, ids) \subseteq Elem
    BY <2>4, <1>1 DEF ApplyJoined, Present, Requests, Records
  <2>6. /\ part \in Requests /\ part.current = q.current
        /\ part.next = [version |-> q.next.version, groups |-> ApplyJoined(q.current.groups, ids)]
    BY <2>5, <1>1 DEF Requests, Records
  <2>7. NoExtra(part.next)
    <3> SUFFICES ASSUME NEW e \in ApplyJoined(q.current.groups, ids) PROVE e \in set
      BY <2>6 DEF NoExtra
    <3>1. CASE e \in ids
      <4>1. e \notin Deleted(log, ids)
        BY <3>1 DEF ApplyJoined, Present
      <4> QED
        BY <4>1, <3>1, <2>4, <1>2 DEF Deleted, LogTellsSet
    <3>2. CASE e \notin ids
      <4>1. e \in q.current.groups /\ e \in Elem
        BY <3>2, <2>5 DEF ApplyJoined, Present
      <4>2. log.row[e].ver <= q.current.version
        BY <4>1, <3>2, <1>1, <1>2 DEF Changes, Requests, Records
      <4> QED
        BY <4>1, <4>2, <1>1 DEF RequestInv, NoExtra
    <3> QED
      BY <3>1, <3>2
  <2>8. RequestInv(part)
    <3>1. part.next.version = q.next.version
      BY <2>6
    <3> QED
      BY <3>1, <2>6, <2>7, <1>1 DEF RequestInv, Known
  <2> QED
    BY <2>1, <2>2, <2>3, <2>6, <2>8, <1>7 DEF ReadChanges
<1>8. CASE Count(s)
  <2> DEFINE r == [q EXCEPT !.at = "page", !.total = Cardinality(set)]
  <2>1. Cardinality(set) \in Nat
    BY <1>2, FS_Subset, FS_CardinalityType DEF SyncAssumption
  <2>2. r \in Requests /\ r.current = q.current /\ r.next = q.next
    BY <2>1, <1>1 DEF Requests
  <2>3. sync' = [sync EXCEPT ![s] = r]
    BY <1>8, <1>3 DEF Count
  <2>4. RequestInv(r)
    BY <2>2, <1>1 DEF RequestInv
  <2> QED
    BY <2>2, <2>3, <2>4, <1>8 DEF Count
<1>9. CASE ReadPage(s)
  <2> DEFINE page == Page(q.offset)
             last == q.offset + Cardinality(page) >= q.total \/ page = {}
             r == [q EXCEPT !.at = IF last THEN "save" ELSE "count",
                            !.offset = @ + PageLimit,
                            !.next.groups = @ \cup page]
  <2>1. sync' = [sync EXCEPT ![s] = r]
    BY <1>9, <1>3 DEF ReadPage
  <2>2. page \subseteq set
    BY DEF Page
  <2>3. /\ r \in Requests /\ r.current = q.current
        /\ r.next = [version |-> q.next.version, groups |-> q.next.groups \cup page]
    <3>1. q.next.groups \cup page \in SUBSET Elem /\ q.next.version \in Nat
      BY <2>2, <1>1, <1>2 DEF Requests, Records
    <3>2. q.offset + PageLimit \in Nat
      BY <1>1, <1>3 DEF Requests
    <3> HIDE DEF page, last
    <3>3. r.next = [version |-> q.next.version, groups |-> q.next.groups \cup page]
      BY <1>1 DEF Requests, Records
    <3> QED
      BY <3>1, <3>2, <3>3, <1>1 DEF Requests, Records
  <2>4. NoExtra(r.next) /\ Known(r.next)
    BY <2>2, <2>3, <1>1 DEF RequestInv, NoExtra, Known
  <2>5. RequestInv(r)
    BY <2>3, <2>4, <1>1 DEF RequestInv
  <2> QED
    BY <2>1, <2>3, <2>5, <1>9 DEF ReadPage
<1>10. CASE Save(s)
  <2>1. To(Idle)
    BY <1>10, <1>4 DEF Save
  <2> QED
    BY <2>1, <1>10 DEF Save, RequestInv
<1>11. CASE Fail(s)
  <2>1. To(Idle)
    BY <1>11, <1>4 DEF Fail
  <2> QED
    BY <2>1, <1>11 DEF Fail, RequestInv
<1> QED
  BY <1>5, <1>6, <1>7, <1>8, <1>9, <1>10, <1>11 DEF SyncStep

LEMMA SyncInit_Inv == SyncAssumption /\ SyncInit => SyncInv
<1> SUFFICES ASSUME SyncInit PROVE SyncInv
  OBVIOUS
<1>1. TypeOK /\ LogTellsSet
  BY DEF SyncInit, Init, TypeOK, LogTellsSet, EmptyLog, Logs, NoRow, States
<1>2. NoRecord \in Records /\ Known(NoRecord) /\ NoExtra(NoRecord)
  BY <1>1 DEF TypeOK, Logs, NoRecord, Records, Known, NoExtra
<1>3. Idle \in Requests
  BY <1>2 DEF Idle, Requests
<1> QED
  BY <1>1, <1>2, <1>3 DEF SyncInit, SyncInv, SyncTypeOK, Idle

LEMMA SyncNext_Inv ==
  ASSUME SyncAssumption, SyncInv, [SyncNext]_vars
  PROVE  SyncInv'
<1>1. CASE Membership
  <2>1. TypeOK /\ LogTellsSet /\ record \in Records /\ sync \in [Sync -> Requests]
    BY DEF SyncInv, SyncTypeOK
  <2>2. PICK e \in Elem : Changed(e)
    BY <1>1, <2>1, MembershipChanges
  <2>3. /\ TypeOK' /\ LogTellsSet'
        /\ record' = record /\ sync' = sync
    BY <1>1, <2>1, MembershipChanges
  <2>4. ASSUME NEW rec \in Records, Known(rec), NoExtra(rec)
        PROVE  Known(rec)' /\ NoExtra(rec)'
    BY <2>1, <2>2, <2>4, ChangeKeeps
  <2>5. (Known(record) /\ NoExtra(record))'
    BY <2>1, <2>3, <2>4 DEF SyncInv, Known, NoExtra
  <2>6. ASSUME NEW s \in Sync
        PROVE  (/\ Known(sync[s].current) /\ NoExtra(sync[s].current)
                /\ Known(sync[s].next) /\ NoExtra(sync[s].next))'
    <3>1. sync[s].current \in Records /\ sync[s].next \in Records
      BY <2>1 DEF Requests
    <3>2. /\ Known(sync[s].current) /\ NoExtra(sync[s].current)
          /\ Known(sync[s].next) /\ NoExtra(sync[s].next)
      BY DEF SyncInv
    <3> QED
      BY <3>1, <3>2, <2>3, <2>4 DEF Known, NoExtra
  <2> QED
    BY <2>1, <2>3, <2>5, <2>6 DEF SyncInv, SyncTypeOK
<1>2. ASSUME NEW s \in Sync, SyncStep(s)
      PROVE  SyncInv'
  <2>1. /\ set' = set /\ log' = log
        /\ record' = record \/ record' = sync[s].next
    BY <1>2, RequestStep
  <2>2. PICK r \in Requests : sync' = [sync EXCEPT ![s] = r] /\ RequestInv(r)
    BY <1>2, RequestStep
  <2>3. sync \in [Sync -> Requests] /\ record \in Records
    BY DEF SyncInv, SyncTypeOK
  <2>4. sync' \in [Sync -> Requests]
    BY <2>2, <2>3
  <2>5. ASSUME NEW t \in Sync
        PROVE  (/\ Known(sync[t].current) /\ NoExtra(sync[t].current)
                /\ Known(sync[t].next) /\ NoExtra(sync[t].next))'
    <3>1. sync'[t] = IF t = s THEN r ELSE sync[t]
      BY <2>2, <2>3
    <3> QED
      BY <3>1, <2>1, <2>2 DEF SyncInv, RequestInv, Known, NoExtra
  <2>6. record' \in Records /\ (Known(record) /\ NoExtra(record))'
    <3>1. sync[s].next \in Records
      BY <2>3 DEF Requests
    <3> QED
      BY <3>1, <2>1, <2>3 DEF SyncInv, Known, NoExtra
  <2>7. TypeOK' /\ LogTellsSet'
    BY <2>1 DEF SyncInv, SyncTypeOK, TypeOK, LogTellsSet
  <2> QED
    BY <2>4, <2>5, <2>6, <2>7 DEF SyncInv, SyncTypeOK
<1>3. CASE UNCHANGED vars
  BY <1>3 DEF vars, SyncInv, SyncTypeOK, TypeOK, LogTellsSet, Known, NoExtra
<1> QED
  BY <1>1, <1>2, <1>3 DEF SyncNext

\* A gateway's record never keeps a group the user left by the record's
\* version, whatever the page size, the change limit and the races of requests.
THEOREM SyncNothingLeftBehind == SyncAssumption => (SyncSpec => []NothingLeftBehind)
<1> SUFFICES ASSUME SyncAssumption PROVE SyncSpec => []NothingLeftBehind
  OBVIOUS
<1>1. SyncInit => SyncInv
  BY SyncInit_Inv
<1>2. SyncInv /\ [SyncNext]_vars => SyncInv'
  BY SyncNext_Inv
<1>3. SyncInv => NothingLeftBehind
  BY DEF SyncInv, NothingLeftBehind, NoExtra, Settled
<1> QED
  BY <1>1, <1>2, <1>3, PTL DEF SyncSpec
-----------------------------------------------------------------------------
\* The full list of a user fits one page.
OnePage == Cardinality(Elem) <= PageLimit

LEMMA FirstPageIsAll ==
  ASSUME SyncAssumption, OnePage, set \subseteq Elem,
         log.row \in [Elem -> [state : States, ver : Nat]]
  PROVE  Page(0) = set
<1> SUFFICES ASSUME NEW e \in set
             PROVE  Cardinality(Newer(e)) \in 0..(0 + PageLimit - 1)
  BY DEF Page
<1>1. IsFiniteSet(Elem) /\ Cardinality(Elem) \in Nat /\ PageLimit \in Nat
  BY FS_CardinalityType DEF SyncAssumption
<1>2. Newer(e) \subseteq Elem \ {e}
  <2>1. log.row[e].ver \in Nat
    OBVIOUS
  <2> QED
    BY <2>1 DEF Newer
<1>3. IsFiniteSet(Elem \ {e}) /\ Cardinality(Elem \ {e}) = Cardinality(Elem) - 1
  BY <1>1, FS_RemoveElement
<1>4. Cardinality(Newer(e)) <= Cardinality(Elem) - 1 /\ Cardinality(Newer(e)) \in Nat
  BY <1>2, <1>3, FS_Subset, FS_CardinalityType
<1> QED
  BY <1>1, <1>4 DEF OnePage

\* A request that has begun to save, or has read its first page, holds it all.
Holds(r) ==
  /\ r.current.version > 0 => Complete(r.current)
  /\ r.at = "changes" => r.current.version > 0
  /\ r.at \in {"head", "changes", "idle"} => r.offset = 0
  /\ /\ r.next.version > 0
     /\ r.at = "save" \/ (r.at \in {"count", "page"} /\ r.offset > 0)
     => Complete(r.next)

PageInv ==
  /\ record.version > 0 => Complete(record)
  /\ \A s \in Sync : Holds(sync[s])

LEMMA IdleHolds == Holds(Idle)
BY DEF Holds, Idle, NoRecord

LEMMA RequestHolds ==
  ASSUME SyncAssumption, OnePage, SyncInv, PageInv, NEW s \in Sync, SyncStep(s)
  PROVE  /\ \E r \in Requests : sync' = [sync EXCEPT ![s] = r] /\ Holds(r)
         /\ record'.version > 0 => Complete(record')
<1> DEFINE q == sync[s]
<1>1. /\ q \in Requests /\ Holds(q) /\ sync \in [Sync -> Requests]
      /\ record \in Records /\ (record.version > 0 => Complete(record))
  BY DEF SyncInv, SyncTypeOK, PageInv
<1>2. /\ log.ver \in Nat /\ log.row \in [Elem -> [state : States, ver : Nat]]
      /\ set \subseteq Elem /\ LogTellsSet
  BY DEF SyncInv, SyncTypeOK, TypeOK, Logs
<1>3. PageLimit \in Nat /\ PageLimit > 0
  BY DEF SyncAssumption
<1>4. /\ q.current \in Records /\ q.current.version \in Nat
      /\ q.next \in Records /\ q.next.version \in Nat /\ q.offset \in Nat
  BY <1>1 DEF Requests, Records
<1>5. CASE Load(s)
  <2> DEFINE r == [Idle EXCEPT !.at = "head", !.current = record]
  <2>1. r \in Requests /\ r.current = record /\ r.at = "head" /\ r.offset = 0
    BY <1>1 DEF Idle, Requests, NoRecord, Records
  <2>2. Holds(r)
    BY <2>1, <1>1 DEF Holds
  <2> QED
    BY <2>1, <2>2, <1>1, <1>5 DEF Load
<1>6. CASE ReadHead(s)
  <2> DEFINE at == IF q.current.version = 0 THEN "count"
                   ELSE IF log.ver <= q.current.version THEN "save" ELSE "changes"
             nx == [version |-> log.ver,
                    groups |-> IF at = "save" THEN q.current.groups ELSE {}]
             r == [q EXCEPT !.at = at, !.next = nx]
  <2>1. sync' = [sync EXCEPT ![s] = r]
    BY <1>6, <1>1 DEF ReadHead
  <2>2. nx \in Records
    BY <1>2, <1>4 DEF Records
  <2>3. /\ r \in Requests /\ r.current = q.current /\ r.next = nx
        /\ r.at = at /\ r.offset = q.offset
    BY <1>1, <2>2 DEF Requests
  <2>4. q.offset = 0
    BY <1>1, <1>6 DEF ReadHead, Holds
  <2>5. at = "save" => Complete(nx)
    <3> SUFFICES ASSUME at = "save" PROVE Complete(nx)
      OBVIOUS
    <3>1. q.current.version > 0 /\ log.ver <= q.current.version
      BY <1>4
    <3>2. q.current.version <= log.ver
      BY DEF SyncInv, Known
    <3>3. nx.version = q.current.version /\ nx.groups = q.current.groups
      BY <3>1, <3>2, <1>2, <1>4
    <3>4. Complete(q.current)
      BY <3>1, <1>1 DEF Holds
    <3> QED
      BY <3>3, <3>4 DEF Complete
  <2>6. at = "changes" => q.current.version > 0
    BY <1>4
  <2>7. Holds(r)
    <3> HIDE DEF nx
    <3> QED
      BY <2>3, <2>4, <2>5, <2>6, <1>1 DEF Holds
  <2> QED
    BY <2>1, <2>3, <2>7, <1>1, <1>6 DEF ReadHead
<1>7. CASE ReadChanges(s)
  <2> DEFINE ids == Changes(log, q.current.version)
             full == [q EXCEPT !.at = "count"]
             part == [q EXCEPT !.at = "save", !.next.groups = ApplyJoined(q.current.groups, ids)]
  <2>1. \/ sync' = [sync EXCEPT ![s] = full]
        \/ sync' = [sync EXCEPT ![s] = part]
    BY <1>7, <1>1 DEF ReadChanges
  <2>2. /\ full \in Requests /\ full.current = q.current
        /\ full.at = "count" /\ full.offset = q.offset
    BY <1>1 DEF Requests
  <2>3. q.offset = 0
    BY <1>1, <1>7 DEF ReadChanges, Holds
  <2>4. Holds(full)
    BY <2>2, <2>3, <1>1 DEF Holds
  <2>5. ids \subseteq Elem
    BY <1>2 DEF Changes
  <2>6. ApplyJoined(q.current.groups, ids) \subseteq Elem
    BY <2>5, <1>4 DEF ApplyJoined, Present, Records
  <2>7. /\ part \in Requests /\ part.current = q.current /\ part.at = "save"
        /\ part.next = [version |-> q.next.version, groups |-> ApplyJoined(q.current.groups, ids)]
    BY <2>6, <1>1 DEF Requests, Records
  <2>8. Complete(part.next)
    <3> SUFFICES ASSUME NEW e \in set PROVE e \in ApplyJoined(q.current.groups, ids)
      BY <2>7 DEF Complete
    <3>1. CASE e \in ids
      BY <3>1, <1>2 DEF ApplyJoined, Present, Deleted, LogTellsSet
    <3>2. CASE e \notin ids
      <4>1. log.row[e].ver <= q.current.version
        BY <3>2, <1>2, <1>4 DEF Changes
      <4>2. Complete(q.current)
        <5>1. q.current.version > 0
          BY <1>1, <1>7 DEF Holds, ReadChanges
        <5> QED
          BY <5>1, <1>1 DEF Holds
      <4> QED
        BY <4>1, <4>2, <3>2, <2>5 DEF Complete, ApplyJoined, Deleted
    <3> QED
      BY <3>1, <3>2
  <2>9. Holds(part)
    BY <2>7, <2>8, <1>1 DEF Holds
  <2> QED
    BY <2>1, <2>2, <2>4, <2>7, <2>9, <1>1, <1>7 DEF ReadChanges
<1>8. CASE Count(s)
  <2> DEFINE r == [q EXCEPT !.at = "page", !.total = Cardinality(set)]
  <2>1. Cardinality(set) \in Nat
    BY <1>2, FS_Subset, FS_CardinalityType DEF SyncAssumption
  <2>2. /\ r \in Requests /\ r.current = q.current /\ r.next = q.next
        /\ r.at = "page" /\ r.offset = q.offset
    BY <2>1, <1>1 DEF Requests
  <2>3. sync' = [sync EXCEPT ![s] = r]
    BY <1>8, <1>1 DEF Count
  <2>4. Holds(r)
    BY <2>2, <1>1, <1>8 DEF Holds, Count
  <2> QED
    BY <2>2, <2>3, <2>4, <1>1, <1>8 DEF Count
<1>9. CASE ReadPage(s)
  <2> DEFINE page == Page(q.offset)
             last == q.offset + Cardinality(page) >= q.total \/ page = {}
             r == [q EXCEPT !.at = IF last THEN "save" ELSE "count",
                            !.offset = @ + PageLimit,
                            !.next.groups = @ \cup page]
  <2>1. sync' = [sync EXCEPT ![s] = r]
    BY <1>9, <1>1 DEF ReadPage
  <2>2. page \subseteq set /\ q.next.groups \cup page \in SUBSET Elem
    BY <1>2, <1>4 DEF Page, Records
  <2>3. q.offset + PageLimit \in Nat /\ q.offset + PageLimit > 0
    BY <1>3, <1>4
  <2>4. q.offset = 0 => page = set
    BY <1>2, FirstPageIsAll
  <2>5. q.at = "page"
    BY <1>9 DEF ReadPage
  <2> HIDE DEF page, last
  <2>6. r.next = [version |-> q.next.version, groups |-> q.next.groups \cup page]
    BY <1>1 DEF Requests, Records
  <2>7. /\ r \in Requests /\ r.current = q.current
        /\ r.offset = q.offset + PageLimit
        /\ r.at \in {"save", "count"}
    BY <2>2, <2>3, <2>6, <1>1, <1>4 DEF Requests, Records
  <2>8. r.next.version > 0 => Complete(r.next)
    <3>1. CASE q.offset = 0
      BY <3>1, <2>4, <2>6 DEF Complete
    <3>2. CASE q.offset > 0
      <4>1. q.next.version > 0 => Complete(q.next)
        BY <3>2, <2>5, <1>1 DEF Holds
      <4>2. r.next.version = q.next.version /\ q.next.groups \subseteq r.next.groups
        BY <2>6
      <4> HIDE DEF r
      <4> QED
        BY <4>1, <4>2 DEF Complete
    <3> QED
      BY <3>1, <3>2, <1>4
  <2>9. Holds(r)
    <3> HIDE DEF r
    <3> QED
      BY <2>7, <2>8, <1>1 DEF Holds
  <2> QED
    BY <2>1, <2>7, <2>9, <1>1, <1>9 DEF ReadPage
<1>10. CASE Save(s)
  <2>1. sync' = [sync EXCEPT ![s] = Idle] /\ Idle \in Requests
    BY <1>10 DEF Save, Idle, Requests, NoRecord, Records
  <2>2. record' = q.next /\ q.at = "save"
    BY <1>10 DEF Save
  <2> QED
    BY <2>1, <2>2, <1>1, IdleHolds DEF Holds
<1>11. CASE Fail(s)
  <2>1. sync' = [sync EXCEPT ![s] = Idle] /\ Idle \in Requests
    BY <1>11 DEF Fail, Idle, Requests, NoRecord, Records
  <2> QED
    BY <2>1, <1>1, <1>11, IdleHolds DEF Fail
<1> QED
  BY <1>5, <1>6, <1>7, <1>8, <1>9, <1>10, <1>11 DEF SyncStep

LEMMA SyncNext_PageInv ==
  ASSUME SyncAssumption, OnePage, SyncInv, PageInv, [SyncNext]_vars
  PROVE  PageInv'
<1>0. /\ TypeOK /\ LogTellsSet /\ record \in Records /\ sync \in [Sync -> Requests]
      /\ Known(record)
  BY DEF SyncInv, SyncTypeOK
<1>1. CASE Membership
  <2>1. PICK e \in Elem : Changed(e)
    BY <1>0, <1>1, MembershipChanges
  <2>2. set' \subseteq Elem /\ record' = record /\ sync' = sync
    BY <1>0, <1>1, MembershipChanges DEF TypeOK
  <2>3. ASSUME NEW rec \in Records, Known(rec), Complete(rec)
        PROVE  Complete(rec)'
    BY <1>0, <2>1, <2>2, <2>3, ChangeKeeps
  <2>4. (record.version > 0 => Complete(record))'
    BY <1>0, <2>2, <2>3 DEF PageInv, Complete
  <2>5. ASSUME NEW s \in Sync PROVE Holds(sync[s])'
    <3>1. /\ sync[s].current \in Records /\ sync[s].next \in Records
          /\ Known(sync[s].current) /\ Known(sync[s].next) /\ Holds(sync[s])
      BY <1>0 DEF Requests, SyncInv, PageInv
    <3> QED
      BY <3>1, <2>2, <2>3 DEF Holds, Complete
  <2> QED
    BY <2>4, <2>5 DEF PageInv
<1>2. ASSUME NEW s \in Sync, SyncStep(s)
      PROVE  PageInv'
  <2>1. set' = set /\ log' = log
    BY <1>2, RequestStep
  <2>2. PICK r \in Requests : sync' = [sync EXCEPT ![s] = r] /\ Holds(r)
    BY <1>2, RequestHolds
  <2>3. record'.version > 0 => Complete(record')
    BY <1>2, RequestHolds
  <2>4. (record.version > 0 => Complete(record))'
    BY <2>1, <2>3 DEF Complete
  <2>5. ASSUME NEW t \in Sync PROVE Holds(sync[t])'
    <3>1. sync'[t] = IF t = s THEN r ELSE sync[t]
      BY <2>2, <1>0
    <3> QED
      BY <3>1, <2>1, <2>2 DEF PageInv, Holds, Complete
  <2> QED
    BY <2>4, <2>5 DEF PageInv
<1>3. CASE UNCHANGED vars
  BY <1>3 DEF vars, PageInv, Holds, Complete
<1> QED
  BY <1>1, <1>2, <1>3 DEF SyncNext

\* While the user's groups fit one page, nothing is missing from the record
\* either; the run group_sync_paging shows that two pages are enough to lose one.
THEOREM SyncNothingMissing ==
  SyncAssumption /\ OnePage => (SyncSpec => []NothingMissing)
<1> SUFFICES ASSUME SyncAssumption, OnePage PROVE SyncSpec => []NothingMissing
  OBVIOUS
<1> DEFINE I == SyncInv /\ PageInv
<1>1. SyncInit => I
  <2>1. SyncInit => SyncInv
    BY SyncInit_Inv
  <2>2. SyncInit => PageInv
    BY IdleHolds DEF SyncInit, PageInv, NoRecord
  <2> QED
    BY <2>1, <2>2
<1>2. I /\ [SyncNext]_vars => I'
  BY SyncNext_Inv, SyncNext_PageInv
<1>3. I => NothingMissing
  BY DEF PageInv, NothingMissing, Complete, Settled
<1> QED
  BY <1>1, <1>2, <1>3, PTL DEF SyncSpec
=============================================================================

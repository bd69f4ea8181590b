-------------------------- MODULE FriendSyncProofs --------------------------
(***************************************************************************)
(* A device that is right about its friends stays right while it is told   *)
(* increments, for any number of friends, devices, writers and instances.  *)
(*                                                                         *)
(* The inductive invariant says that no head, in a cache, on its way from  *)
(* one or in a device, is newer than the log (HeadsPast), and that what a  *)
(* device is about to be sent still tells every row up to the head of the  *)
(* answer (RowsTell).                                                      *)
(***************************************************************************)
EXTENDS FriendSync, VersionedSetProofs

\* What a key may hold.  An old value is always allowed, a newer one never.
Values == {<<>>} \cup {<<n>> : n \in Nat} \cup {<<s>> : s \in SUBSET Elem}

Fits(k, v) == v # <<>> => IF k = "head" THEN v[1] \in Nat /\ v[1] <= log.ver
                                        ELSE v[1] \in SUBSET Elem

ReadAt == {"idle", "redis", "mysql", "set", "wait", "done"}
Reads == [at : ReadAt, on : Instance \cup {"nowhere"}, key : Keys, value : Values,
          own : BOOLEAN, filler : Device \cup {"nobody"}]
DeviceAt == {"idle", "head", "changes", "rows", "full", "fullHead", "fullIDs"}
Devices == [at : DeviceAt, ver : Nat, ids : SUBSET Elem, head : Nat,
            gone : SUBSET Elem, there : SUBSET Elem]

CachesFit ==
  /\ redis \in [Keys -> Values]
  /\ \A k \in Keys : Fits(k, redis[k])
  /\ local \in [Instance -> [Keys -> Values]]
  /\ \A i \in Instance, k \in Keys : Fits(k, local[i][k])

ReadFits(r) ==
  /\ Fits(r.key, r.value)
  /\ r.at \in {"set", "done"} => r.value # <<>>
  /\ r.at # "idle" => r.on \in Instance

ReadsFit ==
  /\ read \in [Device -> Reads]
  /\ \A d \in Device : ReadFits(read[d])

\* A device gets the key it asked for.
Asked ==
  \A d \in Device :
    /\ device[d].at \in {"head", "fullHead"} => read[d].key = "head"
    /\ device[d].at = "fullIDs" => read[d].key = "ids"

Past(x) == x.ver <= log.ver /\ x.head <= log.ver

HeadsPast ==
  /\ device \in [Device -> Devices]
  /\ \A d \in Device : Past(device[d])

\* Of a device that waits for its rows, every row up to the head of its answer:
\* what changed since the device's version is among the changes, as it is.
Told(x) ==
  /\ x.ver > 0
  /\ \A e \in Elem : log.row[e].ver <= x.head =>
       IF log.row[e].ver > x.ver
       THEN /\ e \in x.gone <=> log.row[e].state = "delete"
            /\ e \in x.there <=> log.row[e].state # "delete"
       ELSE e \notin x.gone /\ e \notin x.there

RowsTell ==
  \A d \in Device :
    /\ device[d].at \in {"changes", "rows"} => device[d].ver > 0
    /\ device[d].at = "rows" => Told(device[d])

FInv == TypeOK /\ LogTellsSet /\ CachesFit /\ ReadsFit /\ Asked /\ HeadsPast /\ RowsTell

Right(x) == x.ver > 0 =>
              \A e \in Elem : log.row[e].ver <= x.ver => (e \in x.ids <=> e \in set)

LEMMA LogTyped ==
  ASSUME TypeOK
  PROVE  /\ log.ver \in Nat
         /\ log.row \in [Elem -> [state : States, ver : Nat]]
         /\ \A e \in Elem : log.row[e].ver \in Nat
  BY DEF TypeOK, Logs

LEMMA FInvInit == SyncInit => FInv
<1> SUFFICES ASSUME SyncInit PROVE FInv
  OBVIOUS
<1>1. TypeOK /\ LogTellsSet
  BY DEF SyncInit, Init, TypeOK, LogTellsSet, EmptyLog, Logs, NoRow, States
<1>2. <<>> \in Values
  BY DEF Values
<1>3. CachesFit
  BY <1>2 DEF SyncInit, CachesFit, NoValue, Fits
<1>4. NoRead \in Reads /\ ReadFits(NoRead)
  BY <1>2 DEF NoRead, Reads, ReadAt, Keys, ReadFits, Fits
<1>5. ReadsFit
  BY <1>4 DEF SyncInit, ReadsFit
<1>6. /\ device \in [Device -> Devices]
      /\ \A d \in Device : device[d] = NewDevice
  BY DEF SyncInit, NewDevice, Devices, DeviceAt
<1>7. log.ver \in Nat
  BY <1>1, LogTyped
<1>8. Asked /\ HeadsPast /\ RowsTell
  BY <1>6, <1>7 DEF Asked, HeadsPast, RowsTell, Past, NewDevice
<1> QED
  BY <1>1, <1>3, <1>5, <1>8 DEF FInv
-----------------------------------------------------------------------------
(***************************************************************************)
(* A change: the head grows and one row moves beyond every old head.       *)
(***************************************************************************)
LEMMA CommitStep ==
  ASSUME FInv, NEW w \in Writer, NEW i \in Instance, Commit(w, i)
  PROVE  FInv' /\ \A d \in Device : Right(device[d]) => Right(device[d])'
<1>1. PICK e \in Elem : Insert(e) \/ Renew(e) \/ Delete(e) \/ Update(e)
  BY DEF Commit
<1>2. TypeOK' /\ LogTellsSet' /\ Changed(e)
  BY <1>1, ChangeOfOne DEF FInv
<1>3. UNCHANGED <<redis, local, read, device>>
  BY DEF Commit, caches
<1>4. /\ log.ver \in Nat /\ log'.ver = log.ver + 1
      /\ log.row \in [Elem -> [state : States, ver : Nat]]
      /\ log'.row[e].ver = log.ver + 1
      /\ \A f \in Elem \ {e} : log'.row[f] = log.row[f] /\ (f \in set' <=> f \in set)
      /\ \A f \in Elem : log.row[f].ver \in Nat
  <2>1. log.ver \in Nat /\ log.row \in [Elem -> [state : States, ver : Nat]]
    BY LogTyped DEF FInv
  <2>2. /\ log'.ver = log.ver + 1
        /\ log'.row = [log.row EXCEPT ![e] = [state |-> log'.row[e].state, ver |-> log.ver + 1]]
        /\ \A f \in Elem \ {e} : f \in set' <=> f \in set
    BY <1>2 DEF Changed
  <2> QED
    BY <2>1, <2>2
<1>5. \A k \in Keys, v \in Values : Fits(k, v) => Fits(k, v)'
  BY <1>4 DEF Fits
<1>6. CachesFit'
  BY <1>3, <1>5 DEF FInv, CachesFit
<1>7. ReadsFit'
  <2>1. read' = read /\ read \in [Device -> Reads]
    BY <1>3 DEF FInv, ReadsFit
  <2>2. ASSUME NEW d \in Device PROVE ReadFits(read[d])'
    <3>1. read[d].key \in Keys /\ read[d].value \in Values
      BY <2>1 DEF Reads
    <3>2. ReadFits(read[d])
      BY DEF FInv, ReadsFit
    <3>3. Fits(read[d].key, read[d].value)'
      BY <3>1, <3>2, <2>1, <1>4 DEF ReadFits, Fits
    <3> QED
      BY <3>2, <3>3, <2>1 DEF ReadFits
  <2> QED
    BY <2>1, <2>2 DEF ReadsFit
<1>8. Asked'
  BY <1>3 DEF FInv, Asked
<1>9. ASSUME NEW d \in Device
      PROVE  /\ device[d] \in Devices /\ device'[d] = device[d]
             /\ device[d].ver \in Nat /\ device[d].head \in Nat
             /\ device[d].ver <= log.ver /\ device[d].head <= log.ver
  <2>1. device[d] \in Devices /\ Past(device[d])
    BY DEF FInv, HeadsPast
  <2> QED
    BY <2>1, <1>3 DEF Devices, Past
<1>10. HeadsPast'
  <2>1. \A d \in Device : Past(device[d])'
    BY <1>3, <1>4, <1>9 DEF Past
  <2> QED
    BY <2>1, <1>3 DEF FInv, HeadsPast
<1>11. ASSUME NEW d \in Device, Told(device[d])
       PROVE  Told(device[d])'
  <2>1. ASSUME NEW f \in Elem, log'.row[f].ver <= device[d].head
        PROVE  f # e /\ log'.row[f] = log.row[f] /\ log.row[f].ver <= device[d].head
    BY <2>1, <1>4, <1>9
  <2>2. device' = device
    BY <1>3
  <2> QED
    BY <1>11, <2>1, <2>2 DEF Told
<1>12. RowsTell'
  BY <1>3, <1>11 DEF FInv, RowsTell
<1>13. ASSUME NEW d \in Device, Right(device[d])
       PROVE  Right(device[d])'
  <2>1. ASSUME NEW f \in Elem, log'.row[f].ver <= device[d].ver
        PROVE  f # e /\ log'.row[f] = log.row[f] /\ log.row[f].ver <= device[d].ver
    BY <2>1, <1>4, <1>9
  <2> QED
    BY <1>13, <2>1, <1>3, <1>4 DEF Right
<1> QED
  BY <1>2, <1>6, <1>7, <1>8, <1>10, <1>12, <1>13 DEF FInv
-----------------------------------------------------------------------------
(***************************************************************************)
(* Steps of writers, subscribers and caches: the devices do not move.      *)
(***************************************************************************)
SameKeys == \A d \in Device : read'[d].key = read[d].key

LEMMA QuietStep ==
  ASSUME FInv, UNCHANGED <<set, log, device>>, CachesFit', ReadsFit', SameKeys
  PROVE  FInv' /\ \A d \in Device : Right(device[d]) => Right(device[d])'
<1>1. Asked'
  BY DEF FInv, Asked, SameKeys
<1>2. TypeOK' /\ LogTellsSet'
  BY DEF FInv, TypeOK, LogTellsSet
<1>3. HeadsPast' /\ RowsTell'
  BY DEF FInv, HeadsPast, Past, RowsTell, Told
<1>4. \A d \in Device : Right(device[d]) => Right(device[d])'
  BY DEF Right
<1> QED
  BY <1>1, <1>2, <1>3, <1>4 DEF FInv

\* Emptying a cache leaves only what fits.
LEMMA EmptyFits == <<>> \in Values /\ NoValue \in [Keys -> Values] /\ \A k \in Keys : NoValue[k] = <<>>
  BY DEF Values, NoValue

LEMMA DropLocalFits ==
  ASSUME FInv, NEW i, DropLocal(i), UNCHANGED <<log, redis>>
  PROVE  CachesFit' /\ ReadsFit' /\ SameKeys
<1>1. \A j \in Instance : local'[j] = local[j] \/ local'[j] = NoValue
  BY DEF FInv, CachesFit, DropLocal
<1>2. local' \in [Instance -> [Keys -> Values]]
  BY EmptyFits DEF FInv, CachesFit, DropLocal
<1>3. CachesFit'
  BY <1>1, <1>2, EmptyFits DEF FInv, CachesFit, Fits
<1>4. ASSUME NEW d \in Device
      PROVE  read'[d] \in Reads /\ ReadFits(read[d])' /\ read'[d].key = read[d].key
  <2>1. read[d] \in Reads /\ ReadFits(read[d])
    BY DEF FInv, ReadsFit
  <2>2. PICK b \in BOOLEAN : read'[d] = [read[d] EXCEPT !.own = b]
    <3>1. read'[d] = [read[d] EXCEPT !.own = FALSE] \/ read'[d] = read[d]
      BY DEF DropLocal
    <3>2. read[d] = [read[d] EXCEPT !.own = read[d].own] /\ read[d].own \in BOOLEAN
      BY <2>1 DEF Reads
    <3> QED
      BY <3>1, <3>2
  <2> QED
    BY <2>1, <2>2 DEF Reads, ReadFits, Fits
<1>5. read' = [d \in Device |-> read'[d]]
  BY DEF DropLocal
<1> QED
  BY <1>3, <1>4, <1>5 DEF ReadsFit, SameKeys

LEMMA FilledFits ==
  ASSUME FInv, NEW d \in Device, NEW v \in Values, v # <<>>,
         read[d].at \in {"redis", "set"}, Fits(read[d].key, v), Filled(d, v),
         UNCHANGED log, redis' \in [Keys -> Values], \A k \in Keys : Fits(k, redis'[k])
  PROVE  CachesFit' /\ ReadsFit' /\ SameKeys
<1>1. /\ read \in [Device -> Reads]
      /\ local \in [Instance -> [Keys -> Values]]
      /\ \A i \in Instance, k \in Keys : Fits(k, local[i][k])
      /\ \A q \in Device : ReadFits(read[q])
  BY DEF FInv, ReadsFit, CachesFit
<1>2. read[d].key \in Keys
  BY <1>1 DEF Reads
<1>3. ASSUME NEW i \in Instance
      PROVE  \/ local'[i] = local[i]
             \/ local'[i] = [local[i] EXCEPT ![read[d].key] = v]
  BY <1>1 DEF Filled
<1>4. local' \in [Instance -> [Keys -> Values]]
  <2>1. CASE local' = local
    BY <2>1, <1>1
  <2>2. CASE local' = [local EXCEPT ![read[d].on][read[d].key] = v]
    BY <2>2, <1>1, <1>2
  <2> QED
    BY <2>1, <2>2 DEF Filled
<1>5. ASSUME NEW i \in Instance, NEW k \in Keys
      PROVE  Fits(k, local'[i][k])
  <2>1. local[i] \in [Keys -> Values]
    BY <1>1
  <2>2. CASE local'[i] = local[i]
    BY <2>2, <1>1
  <2>3. CASE local'[i] = [local[i] EXCEPT ![read[d].key] = v]
    BY <2>1, <2>3, <1>1
  <2> QED
    BY <2>2, <2>3, <1>3
<1>6. CachesFit'
  BY <1>4, <1>5 DEF CachesFit, Fits
<1>7. ASSUME NEW q \in Device
      PROVE  read'[q] \in Reads /\ ReadFits(read[q])' /\ read'[q].key = read[q].key
  <2>1. read[q] \in Reads /\ ReadFits(read[q]) /\ read[d] \in Reads /\ ReadFits(read[d])
    BY <1>1
  <2>2. CASE q = d \/ WaitsFor(q, d)
    <3>1. read[q].key = read[d].key /\ read[q].at # "idle"
      BY <2>2 DEF WaitsFor
    <3>2. read'[q] = [read[q] EXCEPT !.at = "done", !.value = v, !.own = FALSE]
      BY <2>2 DEF Filled
    <3>3. /\ read'[q] \in Reads
          /\ read'[q].key = read[q].key /\ read'[q].on = read[q].on /\ read'[q].value = v
      BY <2>1, <3>2 DEF Reads, ReadAt
    <3> QED
      BY <2>1, <3>1, <3>3 DEF ReadFits, Fits
  <2>3. CASE ~ (q = d \/ WaitsFor(q, d))
    <3>1. read'[q] = read[q]
      BY <2>3 DEF Filled
    <3> QED
      BY <3>1, <2>1 DEF ReadFits, Fits
  <2> QED
    BY <2>2, <2>3
<1>8. read' = [q \in Device |-> read'[q]]
  BY DEF Filled
<1> QED
  BY <1>6, <1>7, <1>8 DEF ReadsFit, SameKeys

\* The steps that neither change the friends nor move a device.
QuietNext ==
  \/ \E w \in Writer : DeleteKeys(w) \/ Publish(w) \/ DropOwn(w)
  \/ \E i \in Instance : Deliver(i) \/ \E k \in Keys : ExpireLocal(i, k)
  \/ \E k \in Keys : ExpireRedis(k)
  \/ \E d \in Device : LoadRedis(d) \/ Fetch(d) \/ StoreRedis(d)

LEMMA QuietFits ==
  ASSUME FInv, QuietNext
  PROVE  UNCHANGED <<set, log, device>> /\ CachesFit' /\ ReadsFit' /\ SameKeys
<1>1. ASSUME UNCHANGED <<log, read>> PROVE ReadsFit' /\ SameKeys
  BY <1>1 DEF FInv, ReadsFit, ReadFits, Fits, SameKeys
<1>2. /\ redis \in [Keys -> Values] /\ \A k \in Keys : Fits(k, redis[k])
      /\ local \in [Instance -> [Keys -> Values]]
      /\ \A i \in Instance, k \in Keys : Fits(k, local[i][k])
  BY DEF FInv, CachesFit
<1>3. ASSUME NEW w \in Writer, DeleteKeys(w)
      PROVE  UNCHANGED <<set, log, device>> /\ CachesFit' /\ ReadsFit' /\ SameKeys
  <2>1. redis' \in [Keys -> Values] /\ \A k \in Keys : Fits(k, redis'[k])
    BY <1>2, <1>3, EmptyFits DEF DeleteKeys, Fits
  <2>2. CachesFit'
    BY <1>2, <1>3, <2>1 DEF DeleteKeys, CachesFit, Fits
  <2> QED
    BY <1>1, <1>3, <2>2 DEF DeleteKeys
<1>4. ASSUME NEW w \in Writer, Publish(w)
      PROVE  UNCHANGED <<set, log, device>> /\ CachesFit' /\ ReadsFit' /\ SameKeys
  BY <1>1, <1>2, <1>4 DEF Publish, CachesFit, Fits
<1>5. ASSUME NEW w \in Writer, DropOwn(w)
      PROVE  UNCHANGED <<set, log, device>> /\ CachesFit' /\ ReadsFit' /\ SameKeys
  BY <1>5, DropLocalFits DEF DropOwn
<1>6. ASSUME NEW i \in Instance, Deliver(i)
      PROVE  UNCHANGED <<set, log, device>> /\ CachesFit' /\ ReadsFit' /\ SameKeys
  BY <1>6, DropLocalFits DEF Deliver
<1>7. ASSUME NEW i \in Instance, NEW k \in Keys, ExpireLocal(i, k)
      PROVE  UNCHANGED <<set, log, device>> /\ CachesFit' /\ ReadsFit' /\ SameKeys
  <2>1. local' = [local EXCEPT ![i] = [local[i] EXCEPT ![k] = <<>>]]
    BY <1>2, <1>7 DEF ExpireLocal
  <2>2. [local[i] EXCEPT ![k] = <<>>] \in [Keys -> Values]
    BY <1>2, EmptyFits
  <2>3. local' \in [Instance -> [Keys -> Values]]
    BY <1>2, <2>1, <2>2
  <2>4. \A j \in Instance, l \in Keys : local'[j][l] = local[j][l] \/ local'[j][l] = <<>>
    BY <1>2, <2>1
  <2>5. CachesFit'
    BY <1>2, <1>7, <2>3, <2>4 DEF ExpireLocal, CachesFit, Fits
  <2> QED
    BY <1>1, <1>7, <2>5 DEF ExpireLocal
<1>8. ASSUME NEW k \in Keys, ExpireRedis(k)
      PROVE  UNCHANGED <<set, log, device>> /\ CachesFit' /\ ReadsFit' /\ SameKeys
  <2>1. redis' \in [Keys -> Values] /\ \A l \in Keys : Fits(l, redis'[l])
    BY <1>2, <1>8, EmptyFits DEF ExpireRedis, Fits
  <2>2. CachesFit'
    BY <1>2, <1>8, <2>1 DEF ExpireRedis, CachesFit, Fits
  <2> QED
    BY <1>1, <1>8, <2>2 DEF ExpireRedis
<1>9. ASSUME NEW d \in Device
      PROVE  read[d] \in Reads /\ ReadFits(read[d]) /\ read[d].key \in Keys
  <2>1. read[d] \in Reads /\ ReadFits(read[d])
    BY DEF FInv, ReadsFit
  <2> QED
    BY <2>1 DEF Reads
<1>10. ASSUME NEW d \in Device, LoadRedis(d)
       PROVE  UNCHANGED <<set, log, device>> /\ CachesFit' /\ ReadsFit' /\ SameKeys
  <2>1. UNCHANGED <<set, log, device, redis>> /\ read[d].at = "redis"
    BY <1>10 DEF LoadRedis
  <2>2. CASE redis[read[d].key] # <<>> /\ Filled(d, redis[read[d].key])
    BY <2>1, <2>2, <1>2, <1>9, FilledFits
  <2>3. CASE read' = [read EXCEPT ![d].at = "mysql"] /\ UNCHANGED local
    <3>1. read' = [read EXCEPT ![d] = [read[d] EXCEPT !.at = "mysql"]]
      BY <2>3
    <3>2. DEFINE r == [read[d] EXCEPT !.at = "mysql"]
    <3>3. /\ r \in Reads
          /\ r.key = read[d].key /\ r.value = read[d].value /\ r.on = read[d].on /\ r.at = "mysql"
      BY <1>9 DEF Reads, ReadAt
    <3>4. ReadFits(r)
      BY <1>9, <2>1, <3>3 DEF ReadFits
    <3> HIDE DEF r
    <3>5. read' \in [Device -> Reads] /\ \A q \in Device : ReadFits(read'[q]) /\ read'[q].key = read[q].key
      BY <3>1, <3>3, <3>4, <1>9 DEF FInv, ReadsFit, r
    <3>6. CachesFit'
      BY <2>1, <2>3, <1>2 DEF CachesFit, Fits
    <3> QED
      BY <2>1, <3>5, <3>6 DEF ReadsFit, ReadFits, Fits, SameKeys
  <2> QED
    BY <1>10, <2>2, <2>3 DEF LoadRedis
<1>11. ASSUME NEW d \in Device, Fetch(d)
       PROVE  UNCHANGED <<set, log, device>> /\ CachesFit' /\ ReadsFit' /\ SameKeys
  <2>1. UNCHANGED <<set, log, device, redis, local>> /\ read[d].at = "mysql"
    BY <1>11 DEF Fetch, caches
  <2>2. DEFINE v == Stored(read[d].key)
               r == [read[d] EXCEPT !.at = "set", !.value = v]
  <2>3. read' = [read EXCEPT ![d] = r]
    BY <1>9, <1>11 DEF Fetch, FInv, ReadsFit
  <2>4. log.ver \in Nat /\ set \in SUBSET Elem
    BY LogTyped DEF FInv, TypeOK
  <2>5. v \in Values /\ v # <<>> /\ Fits(read[d].key, v)
    BY <2>4, <1>9 DEF Stored, Values, Fits, Keys
  <2> HIDE DEF v
  <2>6. /\ r \in Reads
        /\ r.key = read[d].key /\ r.value = v /\ r.on = read[d].on /\ r.at = "set"
    BY <1>9, <2>5 DEF Reads, ReadAt
  <2>7. ReadFits(r)
    BY <1>9, <2>1, <2>5, <2>6 DEF ReadFits
  <2>8. read' \in [Device -> Reads] /\ \A q \in Device : ReadFits(read'[q]) /\ read'[q].key = read[q].key
    BY <2>3, <2>6, <2>7, <1>9 DEF FInv, ReadsFit
  <2>9. CachesFit'
    BY <2>1, <1>2 DEF CachesFit, Fits
  <2> QED
    BY <2>1, <2>8, <2>9 DEF ReadsFit, ReadFits, Fits, SameKeys
<1>12. ASSUME NEW d \in Device, StoreRedis(d)
       PROVE  UNCHANGED <<set, log, device>> /\ CachesFit' /\ ReadsFit' /\ SameKeys
  <2>1. /\ UNCHANGED <<set, log, device>> /\ read[d].at = "set"
        /\ Filled(d, read[d].value)
        /\ redis' = [redis EXCEPT ![read[d].key] = read[d].value] \/ redis' = redis
    BY <1>12 DEF StoreRedis
  <2>2. read[d].value \in Values /\ read[d].value # <<>> /\ Fits(read[d].key, read[d].value)
    BY <1>9, <2>1 DEF Reads, ReadFits
  <2>3. redis' \in [Keys -> Values] /\ \A k \in Keys : Fits(k, redis'[k])
    BY <2>1, <2>2, <1>2, <1>9
  <2> QED
    BY <2>1, <2>2, <2>3, FilledFits
<1> QED
  BY <1>3, <1>4, <1>5, <1>6, <1>7, <1>8, <1>10, <1>11, <1>12 DEF QuietNext
-----------------------------------------------------------------------------
(***************************************************************************)
(* Steps of one device.                                                    *)
(***************************************************************************)
\* Beginning a read leaves the other reads alone and asks for its own key.
LEMMA BeginFits ==
  ASSUME FInv, NEW d \in Device, NEW i \in Instance, NEW k \in Keys, Begin(d, i, k)
  PROVE  \E r \in Reads : ReadFits(r) /\ r.key = k /\ read' = [read EXCEPT ![d] = r]
<1>1. PICK r \in Lookup(i, k) : read' = [read EXCEPT ![d] = r]
  BY DEF Begin
<1>2. local[i][k] \in Values /\ Fits(k, local[i][k])
  BY DEF FInv, CachesFit
<1>3. CASE local[i][k] # <<>>
  <2>1. r = [NoRead EXCEPT !.on = i, !.key = k, !.at = "done", !.value = local[i][k]]
    BY <1>1, <1>3 DEF Lookup
  <2> QED
    BY <1>1, <1>2, <1>3, <2>1 DEF NoRead, Reads, ReadAt, ReadFits
<1>4. CASE local[i][k] = <<>> /\ \E q \in Device : Filling(q, i, k)
  <2>1. PICK q \in Device : r = [NoRead EXCEPT !.on = i, !.key = k, !.at = "wait", !.filler = q]
    BY <1>1, <1>4 DEF Lookup
  <2> QED
    BY <1>1, <2>1, EmptyFits DEF NoRead, Reads, ReadAt, ReadFits, Fits
<1>5. CASE local[i][k] = <<>> /\ ~ \E q \in Device : Filling(q, i, k)
  <2>1. r = [NoRead EXCEPT !.on = i, !.key = k, !.at = "redis", !.own = TRUE]
    BY <1>1, <1>5 DEF Lookup
  <2> QED
    BY <1>1, <2>1, EmptyFits DEF NoRead, Reads, ReadAt, ReadFits, Fits
<1> QED
  BY <1>3, <1>4, <1>5

\* What a step of a device must show of its new state x and its new read r.
DeviceOK(x, r) ==
  /\ x \in Devices /\ Past(x)
  /\ x.at \in {"head", "fullHead"} => r.key = "head"
  /\ x.at = "fullIDs" => r.key = "ids"
  /\ x.at \in {"changes", "rows"} => x.ver > 0
  /\ x.at = "rows" => Told(x)

LEMMA DeviceStep ==
  ASSUME FInv, NEW d \in Device, NEW x, NEW r \in Reads, ReadFits(r), DeviceOK(x, r),
         UNCHANGED <<set, log, redis, local>>,
         device' = [device EXCEPT ![d] = x],
         read' = [read EXCEPT ![d] = r],
         Right(device[d]) => Right(x) \/ TakeFull(d)
  PROVE  /\ FInv'
         /\ \A q \in Device : Right(device[q]) /\ ~ TakeFull(q) => Right(device[q])'
<1>1. device \in [Device -> Devices] /\ read \in [Device -> Reads]
  BY DEF FInv, HeadsPast, ReadsFit
<1>2. device' \in [Device -> Devices] /\ read' \in [Device -> Reads]
  BY <1>1 DEF DeviceOK
<1>3. TypeOK' /\ LogTellsSet' /\ CachesFit'
  BY DEF FInv, TypeOK, LogTellsSet, CachesFit, Fits
<1>4. ASSUME NEW q \in Device
      PROVE  /\ ReadFits(read[q])' /\ Past(device[q])'
             /\ device'[q].at \in {"head", "fullHead"} => read'[q].key = "head"
             /\ device'[q].at = "fullIDs" => read'[q].key = "ids"
             /\ device'[q].at \in {"changes", "rows"} => device'[q].ver > 0
             /\ device'[q].at = "rows" => Told(device[q])'
  <2>1. CASE q = d
    <3>1. device'[q] = x /\ read'[q] = r
      BY <1>1, <2>1
    <3> QED
      BY <3>1 DEF DeviceOK, ReadFits, Fits, Past, Told
  <2>2. CASE q # d
    <3>1. device'[q] = device[q] /\ read'[q] = read[q]
      BY <1>1, <2>2
    <3>2. ReadFits(read[q]) /\ Past(device[q])
      BY DEF FInv, ReadsFit, HeadsPast
    <3>3. /\ device[q].at \in {"head", "fullHead"} => read[q].key = "head"
          /\ device[q].at = "fullIDs" => read[q].key = "ids"
          /\ device[q].at \in {"changes", "rows"} => device[q].ver > 0
          /\ device[q].at = "rows" => Told(device[q])
      BY DEF FInv, Asked, RowsTell
    <3> QED
      BY <3>1, <3>2, <3>3 DEF ReadFits, Fits, Past, Told
  <2> QED
    BY <2>1, <2>2
<1>5. FInv'
  BY <1>2, <1>3, <1>4 DEF FInv, ReadsFit, HeadsPast, Asked, RowsTell
<1>6. ASSUME NEW q \in Device, Right(device[q]), ~ TakeFull(q)
      PROVE  Right(device[q])'
  <2>1. CASE q = d
    BY <1>1, <1>6, <2>1 DEF Right
  <2>2. CASE q # d
    BY <1>1, <1>6, <2>2 DEF Right
  <2> QED
    BY <2>1, <2>2
<1> QED
  BY <1>5, <1>6

LEMMA DeviceTyped ==
  ASSUME FInv, NEW d \in Device
  PROVE  /\ device[d] \in Devices
         /\ device[d].ver \in Nat /\ device[d].head \in Nat
         /\ device[d].ids \in SUBSET Elem
         /\ device[d].gone \in SUBSET Elem /\ device[d].there \in SUBSET Elem
         /\ device[d].ver <= log.ver /\ device[d].head <= log.ver
         /\ read[d] \in Reads /\ ReadFits(read[d])
<1>1. device[d] \in Devices /\ Past(device[d]) /\ read[d] \in Reads /\ ReadFits(read[d])
  BY DEF FInv, HeadsPast, ReadsFit
<1> QED
  BY <1>1 DEF Devices, Past

LEMMA IdleFits == NoRead \in Reads /\ ReadFits(NoRead) /\ NoRead.key = "head"
  BY EmptyFits DEF NoRead, Reads, ReadAt, Keys, ReadFits, Fits

\* A head that was asked for and has come.
LEMMA HeadCame ==
  ASSUME FInv, NEW d \in Device, read[d].at = "done", read[d].key = "head"
  PROVE  Value(d) \in Nat /\ Value(d) <= log.ver
  BY DeviceTyped DEF ReadFits, Fits, Value

LEMMA AskStep ==
  ASSUME FInv, NEW d \in Device, NEW i \in Instance, AskChanges(d, i) \/ AskFull(d, i)
  PROVE  /\ FInv'
         /\ \A q \in Device : Right(device[q]) /\ ~ TakeFull(q) => Right(device[q])'
<1>1. PICK at \in {"head", "fullHead"} : device' = [device EXCEPT ![d] = [device[d] EXCEPT !.at = at]]
  BY DEF AskChanges, AskFull, Now
<1>2. Begin(d, i, "head") /\ UNCHANGED <<set, log, redis, local>>
  BY DEF AskChanges, AskFull, caches
<1>3. PICK r \in Reads : ReadFits(r) /\ r.key = "head" /\ read' = [read EXCEPT ![d] = r]
  BY <1>2, BeginFits DEF Keys
<1> DEFINE x == [device[d] EXCEPT !.at = at]
<1>4. /\ x \in Devices /\ x.at = at
      /\ x.ver = device[d].ver /\ x.head = device[d].head /\ x.ids = device[d].ids
  BY DeviceTyped DEF Devices, DeviceAt
<1>5. DeviceOK(x, r)
  BY <1>3, <1>4, DeviceTyped DEF DeviceOK, Past
<1>6. Right(device[d]) => Right(x)
  BY <1>4 DEF Right
<1>7. device' = [device EXCEPT ![d] = x]
  BY <1>1
<1> HIDE DEF x
<1> QED
  BY <1>2, <1>3, <1>5, <1>6, <1>7, DeviceStep

LEMMA TakeHeadStep ==
  ASSUME FInv, NEW d \in Device, TakeHead(d)
  PROVE  /\ FInv'
         /\ \A q \in Device : Right(device[q]) /\ ~ TakeFull(q) => Right(device[q])'
<1> DEFINE x == IF device[d].ver = 0 \/ Value(d) = 0 THEN [device[d] EXCEPT !.at = "full"]
                ELSE IF Value(d) <= device[d].ver
                THEN [device[d] EXCEPT !.at = "idle", !.ver = Value(d)]
                ELSE [device[d] EXCEPT !.at = "changes", !.head = Value(d)]
<1>1. /\ device' = [device EXCEPT ![d] = x] /\ read' = [read EXCEPT ![d] = NoRead]
      /\ UNCHANGED <<set, log, redis, local>>
  BY DEF TakeHead, Now, caches
<1>2. Value(d) \in Nat /\ Value(d) <= log.ver
  <2>1. read[d].at = "done" /\ device[d].at = "head"
    BY DEF TakeHead, Got
  <2>2. read[d].key = "head"
    BY <2>1 DEF FInv, Asked
  <2> QED
    BY <2>1, <2>2, HeadCame
<1>3. /\ x \in Devices /\ x.at \in {"full", "idle", "changes"}
      /\ x.at = "changes" => x.ver > 0
      /\ x.ids = device[d].ids
      /\ x.ver \in Nat /\ x.ver <= device[d].ver /\ x.head \in {device[d].head, Value(d)}
      /\ x.ver > 0 => device[d].ver > 0
  <2>1. CASE device[d].ver = 0 \/ Value(d) = 0
    <3>1. x = [device[d] EXCEPT !.at = "full"]
      BY <2>1
    <3> HIDE DEF x
    <3> QED
      BY <3>1, DeviceTyped DEF Devices, DeviceAt
  <2>2. CASE ~ (device[d].ver = 0 \/ Value(d) = 0) /\ Value(d) <= device[d].ver
    <3>1. x = [device[d] EXCEPT !.at = "idle", !.ver = Value(d)]
      BY <2>2
    <3> HIDE DEF x
    <3>2. /\ x \in Devices /\ x.at = "idle" /\ x.ver = Value(d)
          /\ x.ids = device[d].ids /\ x.head = device[d].head
      BY <3>1, <1>2, DeviceTyped DEF Devices, DeviceAt
    <3>3. device[d].ver > 0
      BY <2>2, DeviceTyped
    <3> QED
      BY <3>2, <3>3, <2>2, <1>2
  <2>3. CASE ~ (device[d].ver = 0 \/ Value(d) = 0) /\ ~ (Value(d) <= device[d].ver)
    <3>1. x = [device[d] EXCEPT !.at = "changes", !.head = Value(d)]
      BY <2>3
    <3> HIDE DEF x
    <3>2. /\ x \in Devices /\ x.at = "changes" /\ x.head = Value(d)
          /\ x.ids = device[d].ids /\ x.ver = device[d].ver
      BY <3>1, <1>2, DeviceTyped DEF Devices, DeviceAt
    <3>3. device[d].ver > 0
      BY <2>3, DeviceTyped
    <3> QED
      BY <3>2, <3>3, DeviceTyped
  <2> QED
    BY <2>1, <2>2, <2>3
<1>4. log.ver \in Nat /\ \A e \in Elem : log.row[e].ver \in Nat
  BY LogTyped DEF FInv
<1> HIDE DEF x
<1>5. DeviceOK(x, NoRead)
  BY <1>2, <1>3, <1>4, DeviceTyped DEF DeviceOK, Past
<1>6. Right(device[d]) => Right(x)
  BY <1>3, <1>4, DeviceTyped DEF Right
<1> QED
  BY <1>1, <1>5, <1>6, IdleFits, DeviceStep

LEMMA ReadChangesStep ==
  ASSUME FInv, NEW d \in Device, ReadChanges(d)
  PROVE  /\ FInv'
         /\ \A q \in Device : Right(device[q]) /\ ~ TakeFull(q) => Right(device[q])'
<1> DEFINE ids == Changes(log, device[d].ver)
           rows == [device[d] EXCEPT !.at = "rows", !.gone = Deleted(log, ids),
                                     !.there = Present(log, ids)]
           full == [device[d] EXCEPT !.at = "full"]
<1>1. /\ device' = [device EXCEPT ![d] = full] \/ device' = [device EXCEPT ![d] = rows]
      /\ UNCHANGED <<set, log, redis, local, read>>
      /\ device[d].at = "changes"
  BY DEF ReadChanges, Now, caches
<1>2. /\ ids \subseteq Elem /\ DOMAIN log.row = Elem
      /\ log.ver \in Nat /\ \A e \in Elem : log.row[e].ver \in Nat
  BY LogTyped DEF FInv, Changes
<1>3. Deleted(log, ids) \in SUBSET Elem /\ Present(log, ids) \in SUBSET Elem
  BY <1>2 DEF Deleted, Present
<1>4. device[d].ver > 0
  BY <1>1 DEF FInv, RowsTell
<1>5. read' = [read EXCEPT ![d] = read[d]]
  BY <1>1 DEF FInv, ReadsFit
<1>6. CASE device' = [device EXCEPT ![d] = full]
  <2>1. /\ full \in Devices /\ full.at = "full"
        /\ full.ver = device[d].ver /\ full.head = device[d].head /\ full.ids = device[d].ids
    BY DeviceTyped DEF Devices, DeviceAt
  <2> HIDE DEF full
  <2>2. DeviceOK(full, read[d]) /\ (Right(device[d]) => Right(full))
    BY <2>1, DeviceTyped DEF DeviceOK, Past, Right
  <2> QED
    BY <1>1, <1>5, <1>6, <2>2, DeviceTyped, DeviceStep
<1>7. CASE device' = [device EXCEPT ![d] = rows]
  <2>1. /\ rows \in Devices /\ rows.at = "rows"
        /\ rows.ver = device[d].ver /\ rows.head = device[d].head /\ rows.ids = device[d].ids
        /\ rows.gone = Deleted(log, ids) /\ rows.there = Present(log, ids)
    BY <1>3, DeviceTyped DEF Devices, DeviceAt
  <2>2. Told(rows)
    <3>1. \A e \in Elem : e \in ids <=> log.row[e].ver > device[d].ver
      BY <1>2 DEF Changes
    <3> QED
      BY <1>4, <2>1, <3>1 DEF Told, Deleted, Present
  <2> HIDE DEF rows
  <2>3. DeviceOK(rows, read[d]) /\ (Right(device[d]) => Right(rows))
    BY <1>4, <2>1, <2>2, DeviceTyped DEF DeviceOK, Past, Right
  <2> QED
    BY <1>1, <1>5, <1>7, <2>3, DeviceTyped, DeviceStep
<1> QED
  BY <1>1, <1>6, <1>7

\* The answer is right up to its head: about what did not change because the
\* device was, about what changed because the row is read as it stands.
LEMMA TakeChangesStep ==
  ASSUME FInv, NEW d \in Device, TakeChanges(d)
  PROVE  /\ FInv'
         /\ \A q \in Device : Right(device[q]) /\ ~ TakeFull(q) => Right(device[q])'
<1> DEFINE x == [NewDevice EXCEPT !.ver = device[d].head, !.ids = Merged(device[d])]
<1>1. /\ device' = [device EXCEPT ![d] = x]
      /\ UNCHANGED <<set, log, redis, local, read>>
      /\ device[d].at = "rows"
  BY DEF TakeChanges, Now, caches
<1>2. read' = [read EXCEPT ![d] = read[d]]
  BY <1>1 DEF FInv, ReadsFit
<1>3. /\ log.ver \in Nat /\ \A e \in Elem : log.row[e].ver \in Nat
      /\ set \subseteq Elem
  BY LogTyped DEF FInv, TypeOK
<1>4. Merged(device[d]) \in SUBSET Elem
  BY <1>3, DeviceTyped DEF Merged
<1>5. /\ x \in Devices /\ x.at = "idle" /\ x.head = 0
      /\ x.ver = device[d].head /\ x.ids = Merged(device[d])
  BY <1>4, DeviceTyped DEF NewDevice, Devices, DeviceAt
<1>6. Told(device[d])
  BY <1>1 DEF FInv, RowsTell
<1> HIDE DEF x
<1>7. DeviceOK(x, read[d])
  BY <1>3, <1>5, DeviceTyped DEF DeviceOK, Past
<1>8. ASSUME Right(device[d])
      PROVE  Right(x)
  <2> SUFFICES ASSUME NEW e \in Elem, log.row[e].ver <= device[d].head
               PROVE  e \in Merged(device[d]) <=> e \in set
    BY <1>5 DEF Right
  <2>1. e \in set <=> log.row[e].state # "delete"
    BY DEF FInv, LogTellsSet
  <2>2. CASE log.row[e].ver > device[d].ver
    BY <1>6, <2>1, <2>2 DEF Told, Merged
  <2>3. CASE ~ (log.row[e].ver > device[d].ver)
    <3>1. e \notin device[d].gone /\ e \notin device[d].there /\ device[d].ver > 0
      BY <1>6, <2>3 DEF Told
    <3>2. log.row[e].ver <= device[d].ver
      BY <2>3, <1>3, DeviceTyped
    <3>3. e \in device[d].ids <=> e \in set
      BY <1>8, <3>1, <3>2 DEF Right
    <3> QED
      BY <3>1, <3>3 DEF Merged
  <2> QED
    BY <2>2, <2>3
<1> QED
  BY <1>1, <1>2, <1>7, <1>8, DeviceTyped, DeviceStep

LEMMA FullStep ==
  ASSUME FInv, NEW d \in Device, AskFullIDs(d) \/ TakeFull(d)
  PROVE  /\ FInv'
         /\ \A q \in Device : Right(device[q]) /\ ~ TakeFull(q) => Right(device[q])'
<1>1. read[d].at = "done" /\ UNCHANGED <<set, log, redis, local>>
  BY DEF AskFullIDs, TakeFull, Got, caches
<1>2. CASE AskFullIDs(d)
  <2> DEFINE x == [device[d] EXCEPT !.at = "fullIDs", !.head = Value(d)]
  <2>1. device[d].at = "fullHead" /\ device' = [device EXCEPT ![d] = x]
        /\ Begin(d, read[d].on, "ids")
    BY <1>2 DEF AskFullIDs, Got, Now
  <2>2. Value(d) \in Nat /\ Value(d) <= log.ver
    BY <1>1, <2>1, HeadCame DEF FInv, Asked
  <2>3. read[d].on \in Instance
    BY <1>1, DeviceTyped DEF ReadFits
  <2>4. PICK r \in Reads : ReadFits(r) /\ r.key = "ids" /\ read' = [read EXCEPT ![d] = r]
    BY <2>1, <2>3, BeginFits DEF Keys
  <2>5. /\ x \in Devices /\ x.at = "fullIDs"
        /\ x.ver = device[d].ver /\ x.head = Value(d) /\ x.ids = device[d].ids
    BY <2>2, DeviceTyped DEF Devices, DeviceAt
  <2> HIDE DEF x
  <2>6. DeviceOK(x, r) /\ (Right(device[d]) => Right(x))
    BY <2>2, <2>4, <2>5, DeviceTyped DEF DeviceOK, Past, Right
  <2> QED
    BY <1>1, <2>1, <2>4, <2>6, DeviceStep
<1>3. CASE TakeFull(d)
  <2> DEFINE x == [NewDevice EXCEPT !.ver = device[d].head, !.ids = Value(d)]
  <2>1. /\ device[d].at = "fullIDs" /\ device' = [device EXCEPT ![d] = x]
        /\ read' = [read EXCEPT ![d] = NoRead]
    BY <1>3 DEF TakeFull, Got, Now
  <2>2. read[d].key = "ids"
    BY <2>1 DEF FInv, Asked
  <2>3. Value(d) \in SUBSET Elem
    BY <1>1, <2>2, DeviceTyped DEF ReadFits, Fits, Value
  <2>4. /\ x \in Devices /\ x.at = "idle" /\ x.head = 0 /\ x.ver = device[d].head
    BY <2>3, DeviceTyped DEF NewDevice, Devices, DeviceAt
  <2>5. log.ver \in Nat
    BY LogTyped DEF FInv
  <2> HIDE DEF x
  <2>6. DeviceOK(x, NoRead)
    BY <2>4, <2>5, DeviceTyped DEF DeviceOK, Past
  <2> QED
    BY <1>1, <1>3, <2>1, <2>6, IdleFits, DeviceStep
<1> QED
  BY <1>2, <1>3
-----------------------------------------------------------------------------
LEMMA FInvNext ==
  ASSUME FInv, [SyncNext]_vars
  PROVE  /\ FInv'
         /\ \A d \in Device : Right(device[d]) /\ ~ TakeFull(d) => Right(device[d])'
<1>1. ASSUME NEW w \in Writer, NEW i \in Instance, Commit(w, i)
      PROVE  /\ FInv'
             /\ \A d \in Device : Right(device[d]) /\ ~ TakeFull(d) => Right(device[d])'
  BY <1>1, CommitStep
<1>2. CASE QuietNext
  BY <1>2, QuietFits, QuietStep
<1>3. ASSUME NEW d \in Device,
             \/ \E i \in Instance : AskChanges(d, i) \/ AskFull(d, i)
             \/ TakeHead(d) \/ ReadChanges(d) \/ TakeChanges(d) \/ AskFullIDs(d) \/ TakeFull(d)
      PROVE  /\ FInv'
             /\ \A q \in Device : Right(device[q]) /\ ~ TakeFull(q) => Right(device[q])'
  BY <1>3, AskStep, TakeHeadStep, ReadChangesStep, TakeChangesStep, FullStep
<1>4. CASE UNCHANGED vars
  <2>1. UNCHANGED <<set, log, device>> /\ CachesFit' /\ ReadsFit' /\ SameKeys
    BY <1>4 DEF vars, caches, FInv, CachesFit, ReadsFit, ReadFits, Fits, SameKeys
  <2> QED
    BY <2>1, QuietStep
<1>5. SyncNext => \/ QuietNext
                  \/ \E w \in Writer, i \in Instance : Commit(w, i)
                  \/ \E d \in Device :
                       \/ \E i \in Instance : AskChanges(d, i) \/ AskFull(d, i)
                       \/ TakeHead(d) \/ ReadChanges(d) \/ TakeChanges(d)
                       \/ AskFullIDs(d) \/ TakeFull(d)
  BY DEF SyncNext, QuietNext, Writing, Answering
<1> QED
  BY <1>1, <1>2, <1>3, <1>4, <1>5

\* However old the heads and lists in the caches, whatever was lost on the way
\* and however requests and changes overlap, increments and changes leave a right
\* device right.
THEOREM FriendIncrementsKeepRight == SyncSpec => IncrementsKeepRight
<1> DEFINE A == \A d \in Device : DeviceRight(d) /\ ~ TakeFull(d) => DeviceRight(d)'
<1>1. SyncInit => FInv
  BY FInvInit
<1>2. FInv /\ [SyncNext]_vars => FInv'
  BY FInvNext
<1>3. FInv /\ [SyncNext]_vars => [A]_vars
  <2>1. \A d \in Device : DeviceRight(d) <=> Right(device[d])
    BY DEF DeviceRight, Right
  <2>2. \A d \in Device : DeviceRight(d)' <=> Right(device[d])'
    BY DEF DeviceRight, Right
  <2> QED
    BY <2>1, <2>2, FInvNext
<1>4. SyncSpec => [][A]_vars
  BY <1>1, <1>2, <1>3, PTL DEF SyncSpec
<1> QED
  BY <1>4 DEF IncrementsKeepRight

\* No head is ever newer than the friends it describes, so no device believes to
\* be further than it can be.
THEOREM FriendHeadsPast == SyncSpec => [](HeadsPast /\ LogTellsSet)
<1>1. SyncInit => FInv
  BY FInvInit
<1>2. FInv /\ [SyncNext]_vars => FInv'
  BY FInvNext
<1>3. FInv => HeadsPast /\ LogTellsSet
  BY DEF FInv
<1> QED
  BY <1>1, <1>2, <1>3, PTL DEF SyncSpec

-----------------------------------------------------------------------------
(***************************************************************************)
(* Type correctness.  What is left to FInv: the messages on their way to   *)
(* the instances, and where each change is after its commit.               *)
(***************************************************************************)
WriteAt == {"idle", "delete", "publish", "drop"}
Writes == [at : WriteAt, on : Instance \cup {"nowhere"}]
WritesTyped == inbox \in [Instance -> Nat] /\ write \in [Writer -> Writes]

LEMMA WritesTypedInit == SyncInit => WritesTyped
BY DEF SyncInit, WritesTyped, Writes, WriteAt, NoWrite

LEMMA WritesTypedNext ==
  ASSUME WritesTyped, [SyncNext]_vars
  PROVE  WritesTyped'
<1>1. ASSUME NEW w \in Writer, NEW i \in Instance, Commit(w, i)
      PROVE  WritesTyped'
  BY <1>1 DEF Commit, WritesTyped, Writes, WriteAt, caches
<1>2. ASSUME NEW w \in Writer, DeleteKeys(w)
      PROVE  WritesTyped'
  BY <1>2 DEF DeleteKeys, WritesTyped, Writes, WriteAt
<1>3. ASSUME NEW w \in Writer, Publish(w)
      PROVE  WritesTyped'
  <2>1. inbox' \in [Instance -> Nat]
    BY <1>3 DEF Publish, WritesTyped
  <2> QED
    BY <1>3, <2>1 DEF Publish, WritesTyped, Writes, WriteAt
<1>4. ASSUME NEW w \in Writer, DropOwn(w)
      PROVE  WritesTyped'
  BY <1>4 DEF DropOwn, WritesTyped, Writes, WriteAt, NoWrite
<1>5. ASSUME NEW i \in Instance, Deliver(i)
      PROVE  WritesTyped'
  BY <1>5 DEF Deliver, WritesTyped
<1>6. ASSUME NEW k \in Keys,
             ExpireRedis(k) \/ \E i \in Instance : ExpireLocal(i, k)
      PROVE  WritesTyped'
  BY <1>6 DEF ExpireRedis, ExpireLocal, WritesTyped
<1>7. ASSUME NEW d \in Device,
             Answering(d) \/ \E i \in Instance : AskChanges(d, i) \/ AskFull(d, i)
      PROVE  WritesTyped'
  BY <1>7
  DEF Answering, LoadRedis, Fetch, StoreRedis, TakeHead, ReadChanges, TakeChanges,
      AskFullIDs, TakeFull, AskChanges, AskFull, caches, WritesTyped
<1>8. CASE UNCHANGED vars
  BY <1>8 DEF vars, caches, WritesTyped
<1> QED
  BY <1>1, <1>2, <1>3, <1>4, <1>5, <1>6, <1>7, <1>8 DEF SyncNext, Writing

\* A value that fits its key is what the type invariant says an entry is.
LEMMA FitsEntry ==
  ASSUME TypeOK, NEW c \in [Keys -> Values], \A k \in Keys : Fits(k, c[k])
  PROVE  Entry(c)
<1>1. c["head"] \in Values /\ c["ids"] \in Values
  BY DEF Keys
<1>2. /\ c["head"] # <<>> => c["head"][1] \in Nat
      /\ c["ids"] # <<>> => c["ids"][1] \in SUBSET Elem
  BY DEF Keys, Fits
<1>3. \A v \in Values : v = <<>> \/ DOMAIN v = {1}
  BY DEF Values
<1> QED
  BY <1>1, <1>2, <1>3 DEF Entry, OptionOf

\* Caches, messages, changes, requests and devices have their types.
THEOREM FriendSyncTypeOK == SyncSpec => []SyncTypeOK
<1>1. SyncInit => FInv /\ WritesTyped
  BY FInvInit, WritesTypedInit
<1>2. FInv /\ WritesTyped /\ [SyncNext]_vars => FInv' /\ WritesTyped'
  BY FInvNext, WritesTypedNext
<1>3. FInv /\ WritesTyped => SyncTypeOK
  <2> SUFFICES ASSUME FInv, WritesTyped
               PROVE  SyncTypeOK
    OBVIOUS
  <2>1. TypeOK /\ CachesFit /\ ReadsFit /\ HeadsPast
    BY DEF FInv
  <2>2. Entry(redis) /\ \A i \in Instance : Entry(local[i])
    BY <2>1, FitsEntry DEF CachesFit
  <2>3. \A d \in Device : read[d].at \in ReadAt
    BY <2>1 DEF ReadsFit, Reads
  <2> QED
    BY <2>1, <2>2, <2>3
    DEF SyncTypeOK, WritesTyped, Writes, WriteAt, ReadAt, HeadsPast, Devices, DeviceAt
<1> QED
  BY <1>1, <1>2, <1>3, PTL DEF SyncSpec
=============================================================================

----------------------------- MODULE FriendSync -----------------------------
(***************************************************************************)
(* The friends of one user as a device of his follows them.  The relation  *)
(* service answers from two caches per process instance in front of Redis  *)
(* in front of MySQL: the version head and the list of friend ids.  A      *)
(* change commits, deletes the keys in Redis, publishes the deletion to    *)
(* the other instances and drops its own copies, one after the other,      *)
(* while reads fill what is being emptied.                                 *)
(*                                                                         *)
(* Any Redis command may fail, which is only logged.  Time is left out: a  *)
(* cached value may expire at any moment.  Remarks, pins and the order of  *)
(* the list are left out, and so are applications and blocks, which decide *)
(* whether a change happens.                                               *)
(***************************************************************************)
EXTENDS VersionedSet, FiniteSets

CONSTANTS
  Instance,          \* processes of the relation service
  Writer,            \* requests that change the friends
  Device,            \* the devices of the user, one request at a time each
  SyncLimit,         \* IncrementalLimit
  MaxVersion         \* bound: the friends change until the log is this long

ASSUME FriendAssumption ==
  /\ IsFiniteSet(Elem)
  /\ SyncLimit \in Nat \ {0}

VARIABLES
  redis,             \* per key: <<value>> or <<>>
  local,             \* per instance and key: the same
  inbox,             \* per instance: deletions published to it
  write,             \* per writer: what is left to do after its commit
  read,              \* per device: the way of its request through the caches
  device             \* per device: the list it has, and what it asks for

caches == <<redis, local, inbox>>
vars == <<set, log, caches, write, read, device>>

Keys == {"head", "ids"}
NoValue == [k \in Keys |-> <<>>]

\* own: the item the reader fills is still the one of the instance's cache.
\* filler: whose item it waits for.
NoRead == [at |-> "idle", on |-> "nowhere", key |-> "head", value |-> <<>>,
           own |-> FALSE, filler |-> "nobody"]

NoWrite == [at |-> "idle", on |-> "nowhere"]

\* ver, ids: what the device stored.  head: the version the answer carries.
\* gone, there: the changes it is about to be sent.
NewDevice == [at |-> "idle", ver |-> 0, ids |-> {}, head |-> 0, gone |-> {}, there |-> {}]

SyncInit ==
  /\ Init
  /\ redis = NoValue
  /\ local = [i \in Instance |-> NoValue]
  /\ inbox = [i \in Instance |-> 0]
  /\ write = [w \in Writer |-> NoWrite]
  /\ read = [d \in Device |-> NoRead]
  /\ device = [d \in Device |-> NewDevice]
-----------------------------------------------------------------------------
(***************************************************************************)
(* Changes: the transaction of the store, then Lists.drop.                 *)
(***************************************************************************)
\* AgreeFriendRequest on the user's side, DeleteFriend, UpdateFriend.  An
\* agreement inserts a friend again whom only the other side had deleted.
Commit(w, i) ==
  /\ write[w].at = "idle"
  /\ log.ver < MaxVersion
  /\ \E e \in Elem : Insert(e) \/ Renew(e) \/ Delete(e) \/ Update(e)
  /\ write' = [write EXCEPT ![w] = [at |-> "delete", on |-> i]]
  /\ UNCHANGED <<caches, read, device>>

DeleteKeys(w) ==
  /\ write[w].at = "delete"
  /\ redis' = NoValue \/ UNCHANGED redis
  /\ write' = [write EXCEPT ![w].at = "publish"]
  /\ UNCHANGED <<set, log, local, inbox, read, device>>

\* A message reaches who is subscribed: PUBLISH may fail and an instance that
\* resubscribes misses it.
Publish(w) ==
  /\ write[w].at = "publish"
  /\ \E reached \in SUBSET Instance :
       inbox' = [i \in Instance |-> IF i \in reached THEN inbox[i] + 1 ELSE inbox[i]]
  /\ write' = [write EXCEPT ![w].at = "drop"]
  /\ UNCHANGED <<set, log, redis, local, read, device>>

\* DelLocal removes the items; who is filling one fills an item nobody finds.  The
\* code removes the two keys one after the other, here it is one step.
DropLocal(i) ==
  /\ local' = [local EXCEPT ![i] = NoValue]
  /\ read' = [d \in Device |-> IF read[d].on = i THEN [read[d] EXCEPT !.own = FALSE]
                               ELSE read[d]]

DropOwn(w) ==
  /\ write[w].at = "drop"
  /\ DropLocal(write[w].on)
  /\ write' = [write EXCEPT ![w] = NoWrite]
  /\ UNCHANGED <<set, log, redis, inbox, device>>

\* A subscriber that does not wait for a message.
Deliver_Unasked(i) ==
  /\ inbox' = [inbox EXCEPT ![i] = @ - 1]
  /\ DropLocal(i)
  /\ UNCHANGED <<set, log, redis, write, device>>

Deliver(i) ==
  /\ inbox[i] > 0
  /\ inbox' = [inbox EXCEPT ![i] = @ - 1]
  /\ DropLocal(i)
  /\ UNCHANGED <<set, log, redis, write, device>>

ExpireLocal(i, k) ==
  /\ local[i][k] # <<>>
  /\ local' = [local EXCEPT ![i][k] = <<>>]
  /\ UNCHANGED <<set, log, redis, inbox, write, read, device>>

\* SET without a time to live.
ExpireRedis_Never(k) ==
  /\ redis[k] # <<>>
  /\ UNCHANGED vars

ExpireRedis(k) ==
  /\ redis[k] # <<>>
  /\ redis' = [redis EXCEPT ![k] = <<>>]
  /\ UNCHANGED <<set, log, local, inbox, write, read, device>>
-----------------------------------------------------------------------------
(***************************************************************************)
(* A read: the item of this process, then Redis, then MySQL.               *)
(***************************************************************************)
Filling(q, i, k) ==
  /\ read[q].at \in {"redis", "mysql", "set"}
  /\ read[q].on = i /\ read[q].key = k /\ read[q].own

\* LazyLRU.Get: a value, or the lock of an item, which others then wait for.
Lookup(i, k) ==
  LET here == [NoRead EXCEPT !.on = i, !.key = k] IN
  IF local[i][k] # <<>>
  THEN {[here EXCEPT !.at = "done", !.value = local[i][k]]}
  ELSE IF \E q \in Device : Filling(q, i, k)
  THEN {[here EXCEPT !.at = "wait", !.filler = q] : q \in {q \in Device : Filling(q, i, k)}}
  ELSE {[here EXCEPT !.at = "redis", !.own = TRUE]}

WaitsFor(q, d) == read[q].at = "wait" /\ read[q].filler = d /\ read[q].key = read[d].key

\* The item gets the value, also when nobody finds the item any more.
Filled(d, value) ==
  LET x == read[d] IN
  /\ read' = [q \in Device |-> IF q = d \/ WaitsFor(q, d)
                               THEN [read[q] EXCEPT !.at = "done", !.value = value, !.own = FALSE]
                               ELSE read[q]]
  /\ local' = IF x.own THEN [local EXCEPT ![x.on][x.key] = value] ELSE local

\* A command that fails is logged and the reader goes on, here as everywhere.
LoadRedis(d) ==
  /\ read[d].at = "redis"
  /\ \/ /\ redis[read[d].key] # <<>>
        /\ Filled(d, redis[read[d].key])
     \/ /\ read' = [read EXCEPT ![d].at = "mysql"]
        /\ UNCHANGED local
  /\ UNCHANGED <<set, log, redis, inbox, write, device>>

Stored(k) == IF k = "head" THEN <<log.ver>> ELSE <<set>>

\* FriendVersion and FriendUserIDs.
Fetch(d) ==
  /\ read[d].at = "mysql"
  /\ read' = [read EXCEPT ![d].at = "set", ![d].value = Stored(read[d].key)]
  /\ UNCHANGED <<set, log, caches, write, device>>

\* storeIDs and storeVersion: whatever was deleted since the fetch.
StoreRedis(d) ==
  /\ read[d].at = "set"
  /\ redis' = [redis EXCEPT ![read[d].key] = read[d].value] \/ UNCHANGED redis
  /\ Filled(d, read[d].value)
  /\ UNCHANGED <<set, log, inbox, write, device>>
-----------------------------------------------------------------------------
(***************************************************************************)
(* A device: GetIncrementalFriends, and GetFullFriendUserIDs when it is    *)
(* told to or to compare its list by the hash.  What others are answered   *)
(* from these caches (IsFriend, notices) leaves no other trace in them.    *)
(***************************************************************************)
Begin(d, i, k) == \E l \in Lookup(i, k) : read' = [read EXCEPT ![d] = l]
Got(d, at) == device[d].at = at /\ read[d].at = "done"
Value(d) == read[d].value[1]

Now(d, new) == device' = [device EXCEPT ![d] = new]

AskChanges(d, i) ==
  /\ device[d].at = "idle"
  /\ Begin(d, i, "head")
  /\ Now(d, [device[d] EXCEPT !.at = "head"])
  /\ UNCHANGED <<set, log, caches, write>>

\* friendHead and needFull.  An old head only says that nothing is new.
TakeHead(d) ==
  /\ Got(d, "head")
  /\ Now(d, IF device[d].ver = 0 \/ Value(d) = 0 THEN [device[d] EXCEPT !.at = "full"]
            ELSE IF Value(d) <= device[d].ver
            THEN [device[d] EXCEPT !.at = "idle", !.ver = Value(d)]
            ELSE [device[d] EXCEPT !.at = "changes", !.head = Value(d)])
  /\ read' = [read EXCEPT ![d] = NoRead]
  /\ UNCHANGED <<set, log, caches, write>>

\* FriendChanges from MySQL, after the head.
ReadChanges(d) ==
  /\ device[d].at = "changes"
  /\ LET ids == Changes(log, device[d].ver)
     IN Now(d, IF Cardinality(ids) >= SyncLimit THEN [device[d] EXCEPT !.at = "full"]
               ELSE [device[d] EXCEPT !.at = "rows", !.gone = Deleted(log, ids),
                                      !.there = Present(log, ids)])
  /\ UNCHANGED <<set, log, caches, write, read>>

\* FriendsByIDs: a row deleted by now is left out of the answer.
Merged(x) == (x.ids \ x.gone) \cup (x.there \cap set)

\* The version of the answer read last instead of first.
TakeChanges_HeadLast(d) ==
  /\ device[d].at = "rows"
  /\ Now(d, [NewDevice EXCEPT !.ver = log.ver, !.ids = Merged(device[d])])
  /\ UNCHANGED <<set, log, caches, write, read>>

TakeChanges(d) ==
  /\ device[d].at = "rows"
  /\ Now(d, [NewDevice EXCEPT !.ver = device[d].head, !.ids = Merged(device[d])])
  /\ UNCHANGED <<set, log, caches, write, read>>

AskFull(d, i) ==
  /\ device[d].at \in {"idle", "full"}
  /\ Begin(d, i, "head")
  /\ Now(d, [device[d] EXCEPT !.at = "fullHead"])
  /\ UNCHANGED <<set, log, caches, write>>

\* The head and the ids are two keys, each as old as its own caches.
AskFullIDs(d) ==
  /\ Got(d, "fullHead")
  /\ Begin(d, read[d].on, "ids")
  /\ Now(d, [device[d] EXCEPT !.at = "fullIDs", !.head = Value(d)])
  /\ UNCHANGED <<set, log, caches, write>>

TakeFull(d) ==
  /\ Got(d, "fullIDs")
  /\ Now(d, [NewDevice EXCEPT !.ver = device[d].head, !.ids = Value(d)])
  /\ read' = [read EXCEPT ![d] = NoRead]
  /\ UNCHANGED <<set, log, caches, write>>
-----------------------------------------------------------------------------
Writing(w) == DeleteKeys(w) \/ Publish(w) \/ DropOwn(w)
Answering(d) ==
  \/ LoadRedis(d) \/ Fetch(d) \/ StoreRedis(d)
  \/ TakeHead(d) \/ ReadChanges(d) \/ TakeChanges(d) \/ AskFullIDs(d) \/ TakeFull(d)

SyncNext ==
  \/ \E w \in Writer : Writing(w) \/ \E i \in Instance : Commit(w, i)
  \/ \E i \in Instance : Deliver(i) \/ \E k \in Keys : ExpireLocal(i, k)
  \/ \E k \in Keys : ExpireRedis(k)
  \/ \E d \in Device : Answering(d) \/ \E i \in Instance : AskChanges(d, i) \/ AskFull(d, i)

SyncSpec == SyncInit /\ [][SyncNext]_vars

\* Every request ends, every message published arrives or is lost, every cached
\* value expires, and a device compares its whole list again and again.
FairSpec ==
  /\ SyncSpec
  /\ \A w \in Writer : WF_vars(Writing(w))
  /\ \A i \in Instance : WF_vars(Deliver(i)) /\ \A k \in Keys : WF_vars(ExpireLocal(i, k))
  /\ \A k \in Keys : WF_vars(ExpireRedis(k))
  /\ \A d \in Device : WF_vars(Answering(d)) /\ SF_vars(\E i \in Instance : AskFull(d, i))
-----------------------------------------------------------------------------
OptionOf(v, S) == v = <<>> \/ (DOMAIN v = {1} /\ v[1] \in S)
Entry(c) == OptionOf(c["head"], Nat) /\ OptionOf(c["ids"], SUBSET Elem)

SyncTypeOK ==
  /\ TypeOK
  /\ Entry(redis)
  /\ \A i \in Instance : Entry(local[i])
  /\ inbox \in [Instance -> Nat]
  /\ write \in [Writer -> [at : {"idle", "delete", "publish", "drop"},
                          on : Instance \cup {"nowhere"}]]
  /\ \A d \in Device : read[d].at \in {"idle", "redis", "mysql", "set", "wait", "done"}
  /\ device \in [Device ->
       [at : {"idle", "head", "changes", "rows", "full", "fullHead", "fullIDs"},
        ver : Nat, ids : SUBSET Elem, head : Nat, gone : SUBSET Elem, there : SUBSET Elem]]

\* The device agrees with the friends about everybody who did not change after
\* its version: the next increments tell it all it has wrong.
DeviceRight(d) ==
  device[d].ver > 0 =>
    \A e \in Elem : log.row[e].ver <= device[d].ver =>
                      (e \in device[d].ids <=> e \in set)

\* Increments, changes and the caches keep a device right, however old the heads
\* they work with: only a full list may make it wrong.
IncrementsKeepRight ==
  [][\A d \in Device : DeviceRight(d) /\ ~ TakeFull(d) => DeviceRight(d)']_vars

\* When the friends no longer change, a device that keeps comparing its list has
\* it right for good, whatever old values the races left in the caches.
CatchesUp == \A d \in Device : <>[](device[d].ids = set)
=============================================================================

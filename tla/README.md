# SuIM in TLA+

SuIM is an instant-messaging backend in Go: a websocket gateway, an HTTP
gateway and eight gRPC services over MySQL, Redis and etcd. This directory
models the parts whose correctness depends on the order of steps of several
actors: the calls between two people, the way a message gets its number and
reaches MySQL and the receivers, who is shown online, who is in a group in which
role, and how gateways and devices follow the groups and friends of a user.
Source paths below are relative to the repository.

## The system

| component | state it keeps | operations | talks to |
|---|---|---|---|
| `pkg/call` (call board) | Redis: a hash per call, a busy lock per user, an index of ringing calls by deadline | Invite, Cancel, Reject, Accept, Hangup, Expire, Publish, Subscribe; every change is one Lua script | rtc service, gateways (PUBLISH) |
| `services/rtc` | none of its own | SignalMessageAssemble (invite, accept, end), Sweep once a second | call board, relation service, LiveKit tokens |
| `services/msggateway` | the hub of connections, watch lists; Redis: presence, group sync records | connect, disconnect, frames, push of messages, calls, presence | all services, `pkg/online`, `pkg/call` |
| `services/msg` | read positions and sequence windows in MySQL | SendMsg, pulls, MarkMsgsAsRead, MarkConversationAsRead | toRedis queue, relation, group, conversation |
| `services/msgtransfer` | Redis: counters, client ids, bodies, read positions; MySQL: messages, max_seq, read_seq | batches toRedis, numbers, caches, publishes to toMysql and toPush; inserts from toMysql | `pkg/mq`, conversation service |
| `pkg/mq` | Redis streams with one consumer group | Send, Subscribe, claim, Ack | msg, msgtransfer, msggateway |
| `services/group` | groups, members, requests, version logs | create, invite, join, leave, kick, transfer, dismiss, mute, incremental sync | conversation, msg (notifications), caches |
| `services/relation` | friends, requests, black lists, version logs | apply, answer, delete, block, incremental sync | msg (notifications), caches |
| `services/conversation` | conversation rows, version log | create, set, incremental sync | msg, group |
| `services/user` | users, tokens, SMS codes and counters | register, log in, profile, SMS | third-party SMS |
| `services/third` | upload sessions in Redis, objects in MySQL and MinIO | start, sign, complete uploads | object store |
| `pkg/localcache`, `pkg/relationcache` | in-process LRU and Redis copies | get with fill, delete, linked deletes | services, PUBLISH of deletions |
| `pkg/webhook` | a queue of callbacks | Push, Stop, workers | external HTTP |
| `pkg/register` | a lease in etcd | Register, keep alive, Dial | etcd |
| `services/apigateway` | none | HTTP to gRPC | all services |

What is hard here, and for which component what makes it correct:

* **Calls.** Devices of two people, replicas of the service, their sweepers and
  the expiry of keys all act on one call between two scripts, and the events go
  out after the scripts. A person must be in one call at a time, exactly one of
  cancel, reject, accept and timeout may win, everyone concerned must hear the
  same story, and nobody may stay busy for ever.
* **Sequence numbers.** Workers of several keys and processes reserve numbers of
  one conversation through four calls to Redis and MySQL, any of which may fail.
  No number may be given twice.
* **Message transfer.** At-least-once delivery, batches that fail half way,
  entries claimed by another process after two minutes, crashes. A message must
  keep its number through retries, must not be acknowledged before both topics
  have it, must be stored under the number it was pushed with, and must not be
  lost.
* **Read positions.** Written by requests, by receipts in the queue and by a
  writer fed through a channel; they may never pass `max_seq`.
* **Presence.** The hub changes under a lock and reports to Redis outside it, so
  reports arrive in another order than the changes; several gateways share one
  entry, and what one of them takes back wrongly is repaired by `keepLocal` and by
  renewals. A connected person must be shown in the end, a disconnected one must
  not, and the hub must hold exactly the connections that are open.
* **Groups.** A handler reads rows through a cache, decides, and runs a
  transaction that reads only some of them again, while other handlers run theirs.
  A group must not get two owners or too many members, must stay dismissed, an
  application must have one answer, and every change of membership must be in the
  logs of the user and of the group.
* **Incremental sync.** A reader gets a version head, changes and a full list by
  separate statements, pages and caches of different age, while the set changes. What it
  ends up with must be right for every element that did not change after the version it
  stored, because no later increment mentions anything else.
* **Caches.** A change deletes the keys in Redis, publishes the deletion and drops its
  own copies while readers fill them; commands fail, messages are lost, and a value
  fetched before the change may be stored after the deletion.
* **Uploads, SMS codes, webhooks.** Completion in several stores, retry windows, a full or
  stopped queue. They are not modelled; the hazards are listed.

`PROJECT.json` lists every hazard at its line, with the properties that cover it
or the reason why none does.

## Modules

| module | what it models |
|---|---|
| `CallRegistry` | abstract: calls are exclusive, answered once, over once |
| `CallBoard` | `pkg/call/call.go`: the scripts and the expiry of keys |
| `CallSignal` | `services/rtc/internal/logic/signal.go` on top of `CallBoard`, with delivery by the gateways |
| `CallSignalProofs` | invariants of the board, that it implements the registry, that the service implements the board, and what devices hear of a call |
| `SeqCounter` | abstract: consecutive reservations |
| `SeqAlloc` | `Malloc`, `ensureSeq`, `MaxSeq`, `SaveMaxSeq`, one step per call |
| `SeqAllocProofs` | no number twice, `max_seq` remembers, `Malloc` is atomic |
| `StreamQueue` | `pkg/mq/redis.go`: a stream with a consumer group, as operators on a value |
| `MsgTransfer` | `services/msgtransfer` from the queue to MySQL and toPush, with its producers in `services/msg` |
| `MsgTransferProofs` | types, one message per number, what acknowledged, pushed and saved promise each other, numbers through retries and their order |
| `OnlineStatus` | `pkg/online/online.go`: the script and the reads, as operators on a sorted set |
| `Presence` | hub, handshakes, closes, subscriber, renewal and shutdown of the gateways in `services/msggateway` |
| `PresenceProofs` | types, hubs and sockets agree, what is hidden is repaired, renewals suffice |
| `VersionLog` | the version log of `services/group` and `services/relation`, as operators on a value |
| `VersionedSet` | abstract: a set of one owner and its log change together |
| `VersionedSetProofs` | the log tells the set |
| `Group` | membership, roles, applications, mute and dismissal in `services/group`, on `VersionLog` |
| `GroupProofs` | types, one owner, the limit, dismissal, answers, and that every user's joined groups are a `VersionedSet` |
| `GroupSync` | `ws/group_sync.go` of the gateway and the calls it makes, over a `VersionedSet` of joined groups |
| `GroupSyncProofs` | a record keeps nothing that was left and, on one page, misses nothing |
| `FriendSync` | the friend lists of `services/relation` through `pkg/relationcache` and `pkg/localcache`, over a `VersionedSet` of friends |
| `FriendSyncProofs` | types, increments keep a device right, heads are never ahead |
| `MC...` | the instances TLC checks |

The compositions: `CallSignal` runs on `CallBoard`, `MsgTransfer` on `StreamQueue` (and on
`SeqAlloc` through its abstraction), `Presence` on `OnlineStatus`. `Group` is shown to implement
`VersionedSet` for every user, and `GroupSync` and `FriendSync` read a `VersionedSet`: the
abstract set is the contract between the service that writes a log and the readers.

### The call board and the rtc service

`hash`, `busy` and `ringing` are the three kinds of Redis keys. A script runs
alone, so each is one action: `Invite` is `inviteScript`, and `RunScript(op, u, c)`
is any of the others, with `Reply` the first field it returns and `Answer`,
`Finish` and `Unindex` what it writes. Times are small numbers: `Tick` lowers every
remaining time by one and drops keys at zero. The deadline in the index is
`RingWait` (45 s in the code), the keys of a ringing call live `RingTTL` (70 s), those
of an accepted one `AcceptedTTL` (30 min). The only relation assumed of them is
`RingWait < RingTTL`. Call ids are 128 random bits, taken to be never drawn twice.

`CallSignal` adds requests and sweepers. A request is a handler that runs its
script in one step (`StartInvite`, `StartScript`) and publishes in later ones
(`Ring`, `TellPeer`, `Sign`, `TellAccept`, `TellAnswered`, `AbortHangup`, `TellAbort`).
The sweeper lists overdue calls (`ListOverdue`), ends them one by one (`EndOverdue`),
leaves on an error (`SweepError`) and publishes (`TellTimeout`). `heard` is what each
websocket connection received, in order. `Faults` says what may fail: a script, its
reply, a publication, a token signature, or the process. The gateway gives a request
two seconds (`ws/signal.go:30`) while a call rings for 45: `Clock` lets at most one unit
of time pass during a request, and a unit is shorter than `RingWait`. `RingFirst`
depends on it.

`story` and `cut` are history: what happened to a call, and which announcements a
failure cut short. Properties about what people are told exclude calls in `cut`,
except in the run `call_sweep`.

### Sequence numbers

`SeqAlloc` is one conversation: `counter` is the Redis key, `saved` is `max_seq` in
MySQL, and each worker runs EXISTS, SELECT, SETNX, INCRBY and the GREATEST update as
separate steps, or gives up between any two (`Abandon`). Redis may lose the key only
when MySQL has the last reservation and no worker is between EXISTS and INCRBY
(`Quiet`): the code recovers from MySQL and has nothing against a loss in the middle.
That is an assumption about the operation of Redis and is listed as a hazard.

### Message transfer

A message is its `Shape`: queue key, options, chat and notification conversation,
sender, and for a read receipt the list of numbers it carries. `ClientSend` is
`SendMsg`, `SendReceipt` is `MarkMsgsAsRead`, which also writes the cursor. `Deliver` and
`Claim` are XREADGROUP and XAUTOCLAIM into the batcher's buffer of the key; `Flush`
starts a batch. `Jobs` is `splitMessages` and the order in which `do` works through the
four lists: `PushOnly` for what is not stored, `Stored` for the grouping of `persist` by conversation.
A batch then goes through `ApplyReadReceipts`, and for each conversation
`LookupClient` (one GET per message), `Reserve`, `Remember` (one SET per fresh message),
`FillCache`, `SaveMax`, `Ensure`, `PublishMySQL`, `PublishPush` (one XADD per message), and last
`AckEntry`. `DropBatch` is an error in any of these calls, `Crash` the death of a process.
`WriteReadSeq` is the goroutine that writes read positions, `StoreBatch` the consumer of
toMysql, whose acknowledgement may be lost after the rows are committed.

Abstractions, each of which allows more behaviours than the code or hides data no
property tells apart: a goroutine of the batcher serves several keys, the model has
one worker per key; a batch starts full or on the timer, the model starts one whenever
the buffer is not empty; `Reserve` is one step because `SeqAlloc` shows `Malloc` behaves
so; undecodable entries, conversation creation (a call of another service), bodies
and columns are left out; streams are not trimmed (the limit is 100000 entries); the
remembered client ids do not expire (24 hours).

### Presence

`online` is the sorted set of each user in Redis: a member's value is the number of
renewal periods it has left. `Rounds` is `Expire` divided by the renewal period, three
in the code (`ws/online.go:62`). `listed` holds the hubs of all gateways. A connection goes
through the steps of `ServeHTTP` (`CheckLimit`, `RefuseDial`, `AddToHub`, `CloseOld`,
`NextOld`, `Serve`) and of `readLoop` and `close` (`EndReading`, `RemoveFromHub`,
`ReportOffline`, `CloseConn`); the compare-and-swap on `closed` is the change of `ending` from
`Open`, and `by` is the goroutine that won it. `Status.Set` is a call that any of five kinds
of goroutine may be in: `RunScript`, then `PublishChange` into the `inbox` of every gateway
that listens. `HandleChange` is `keepLocal`, `StartRenewal` and `RenewUser` are `RenewOnline`,
`Shutdown`, `StartDrop`, `DropUser` and `Exit` the end of `run`, `Crash` the death of a process,
which leaves its entries behind and may fall between a script and its publication.

`Tick` is one renewal period, ten minutes. It waits until no call, handshake, close,
renewal or shutdown is under way. The code bounds those by timeouts of seconds (`report` and a
renewal 2 s, the token check and `DropOnline` 5 s, the upgrade 10 s). Two delays have no bound
of their own: a renewal of very many users takes one call after another, and a replaced
client with a full send buffer is kicked after 10 s per frame. Both are taken to be
shorter than ten minutes. An `inbox` may be arbitrarily late.

`losses` counts failed scripts (which may have run all the same), publications and
deliveries for each goroutine. It serves the properties: what is promised without
failures, and how many failed renewals an entry survives.

A connection is dialled once, a crashed gateway does not come back and a new gateway is one
more element of `Gateway`. The frames sent to a replaced client, webhooks, the token check
(any handshake may be refused) and the watch lists are left out.

### The version log

A log is a value `[ver, row]`: the owner's version and, per element, the kind and version of
its last change; `ver = 0` stands for "no head" and `row[e].ver = 0` for "no row". `IncrVersion` is
`incrVersion` of either service: the head is locked, the elements of the batch take
the next versions in order and each overwrites its only row. The random version id is drawn
once with the head and never changes, so comparing ids says whether there is a head.
`VersionedSet` is one owner's set with its log, one element per step. `Renew` exists because
`AgreeFriendRequest` inserts both sides, also the one that never ended the friendship.

### Groups

`status`, `role` and `request` are the rows of `group`, `group_member` and `group_request`; `joinLog` and
`memberLog` are the two version logs; `call` is what each handler in progress is about to do.
An action `Ask...` is a handler up to its transaction: what it requires of the rows is its guard, and
its effect is the transaction with its arguments. `Transaction` is the store, one action per
method, each with what the method reads again under its locks (`CanAdd`, `CanHandle`, `CanDelete`,
`CanTransfer`, ...). In between any other handler may run its own; `Refused` is every error return.
The reads of one handler happen in one step. A handler also reads cached rows
(`store/cache.go`), which is the same as having read them longer ago, and several rows of different
age; the step takes them at one time. The guards of the store do not depend on it.

`CreateGroup` reads and writes in one step, since nobody else knows the new id. `DismissGroup` with
`delete_member` goes on to a second transaction (`DeleteGroupMembers`), which can also be asked for
later (`AskClear`). `User` is a set of numbers because batches are sorted by user id; `GroupRow` and
`SortRow` are the elements of a member log that are not users.

### Joined groups at the gateway

`record` is the JSON of a user in Redis, `sync` his HTTP requests, which may be on different
gateways. `Load`, `ReadHead`, `ReadChanges` and `Save` are the calls in their order; `Count` and `ReadPage` are the two
statements of `JoinedGroupIDs`, repeated by `ListJoined` for each page. `Membership` is the group
service, through `VersionedSet`. A page is ordered by the time of joining; in the
model that is the version at which the user joined, two groups joined within one tick of
the clock being ordered by id in the code. `Fail` is any error.

`Settled` is what makes the two properties strong: a group that changed after the record's
version is in the increment the next request gets, so it may be wrong now; a group that did not
is never mentioned again, and the record has no expiry.

### Friends through the caches

`redis` and `local` hold an optional value per key, the version head and the list of ids; `local` is one LRU per process.
`Commit` is the transaction, and the rest of a change is `DeleteKeys`, `Publish`, `DropOwn` in
the order of `Lists.drop`; the list of ids and the head go from the LRU in one step (`DropLocal`), where the code
deletes one key after the other. A read goes through `Lookup` (a value, an item somebody else is filling, or an item of
its own), `LoadRedis`, `Fetch` and `StoreRedis`, and fills the item it holds even when the item was dropped
meanwhile (`own`). A device calls `GetIncrementalFriends` (`AskChanges`, `TakeHead`, `ReadChanges`,
`TakeChanges`) and `GetFullFriendUserIDs` (`AskFull`, `AskFullIDs`, `TakeFull`).

Every Redis command may fail, which the code only logs; a published deletion reaches any
subset of the instances; a cached value may expire at any time. Left out are failures of MySQL
(the error is cached for five seconds and the device asks again), the eviction of an item by a full LRU
slot of 2000 entries while it is being filled, and other processes that cache
answers of this service (`relationcache/rpc.go`).

The two cached values of a full list have different ages, so a full list can pair
a new head with an old list (`get_full_friend_user_ids.go:18-22`), and no increment repairs that.
The hash a client compares its list by (`relation.proto`) is the way out, and `CatchesUp` says
that it works: once the friends no longer change, comparing again and again ends with the
right list for good. `IncrementsKeepRight` is about the other direction: nothing but a full list
can make a right device wrong.

## Runs

| run | instance | shows |
|---|---|---|
| `call_board` | 3 people, 3 calls, times 1, 2, 3 | locks and calls agree; every ringing call is indexed before its keys expire; the board implements `CallRegistry`; every lock goes away |
| `call_signal` | 2 people, one on two devices, 2 calls, 2 requests at once, 1 sweeper, every fault, one call cut short | nobody hears that a call was both answered and not answered; ends and answers reach every device that must know; no device rings for a finished call |
| `call_sweep` | 4 people, 2 overdue calls, a Redis error | **violation** of the comment on `Sweep` |
| `seq_alloc` | 3 workers, reservations of 1 or 2, numbers up to 4 | no overlap; `max_seq` right; `Malloc` is atomic |
| `transfer` | 2 processes, 2 messages of one conversation, claims of slow batches, 1 fault, fairness | one message per number; acknowledged means published; published means within `max_seq`; every message is delivered |
| `transfer_mixed` | 1 process, a notification stored twice, a receipt, a transient message, 1 fault | numbers survive retries and follow acceptance; pushed messages are stored under their number; read positions within `max_seq` |
| `transfer_retry` | 1 process, one message sent twice | **violation** of what the retry test expects |
| `transfer_reads` | 1 process, a receipt with the list 2, 1 | **violation** of the checked read cursor |
| `presence` | 1 gateway, a connection and its replacement, crash or shutdown, 1 failure, fairness | hub and sockets agree; a hidden connection has a repair under way; time does not hide a live connection; a connection that stays is shown for good; an entry nobody stands behind goes |
| `group` | 1 group with room for 2 of 3 people, 2 handlers at a time, member log up to 6 | one owner; no overfill; dismissal and the first answer are final; both logs follow the membership |
| `group_sync_paging` | 1 request, 2 groups, one group per page | **violation** of what `ListJoined` promises |
| `friend_sync` | 1 friend, 1 instance, 1 device, 1 change at a time, versions up to 3, fairness | increments keep a device right; comparing the whole list ends with the right one |

Why the bounds suffice. A race on a call has at most two winners-to-be, so two requests
and one sweeper reach every pair; a third person is needed for a busy callee and a
third call for a lock of a later call. Two devices of the callee tell "every other
device" from "this device". Two reservations can overlap with two workers, and the third
makes the stale value of SETNX overlap both. A batch of two has a first and a last
message, so partial failures of each kind occur, and one fault followed by a complete
retry is what the retry properties are about; the second process is there for claims.
An entry of presence belongs to one user and platform, so one of each is enough. The run has the
two connections of one slot of a hub; that a user's connections are on several gateways is covered by the theorems
`OfflineRepaired`, `RenewalsSuffice`, `OpenConnectionsListed` and `ListedConnectionsLeave`, which hold for any number of gateways.
One failure shows that a lost report or publication is made up for.

A group has one group row, so one group is enough; a user's logs of different groups meet only in the version
counter, which the theorem `GroupJoinedSets` covers. Only `UpdateGroupMembers` takes several groups and several members
in one transaction; it locks and updates group by group, in the order of their ids. The model has one member of
one group at a time, and no property relates two groups or two members of such a batch. A
handler conflicts with one other, so two at a time reach every pair of a decision and the transaction that
invalidates it. Three people give an owner, somebody to transfer to and a third for the last
place. `Founder` fixes the first owner, who is otherwise interchangeable. `MaxVersion` stops new handlers once
the member log is that long: creation takes one or two versions, a transfer three, so two or more
changes follow each other after creation. `MCVerify` takes the policy with both ways in: applications by
ordinary members and direct invitations by managers.

`friend_sync` has a single instance, in which the own drop and the delivered deletion act on the same
items; a second one would only keep stale values longer. `FriendIncrementsKeepRight` holds for any number of
instances, writers, devices and friends. One friend suffices for a value to be
stale in either direction, and three versions let a stale head, a stale list and a newer row meet. With one
friend the log has one row, and a limit of two never asks for a full list because there are too many
changes; a version of 0 and the comparison by hash do.

Deadlock is checked where the model never stops (the clock, the workers or the caches go on); the
message runs stop when everything sent is delivered and `group` when `MaxVersion` lets no handler
start and none is left, so they say `CHECK_DEADLOCK FALSE`.
`call_signal` uses symmetry of call ids and handlers and `group` of handlers; neither checks liveness.

Fairness. `TimedSpec`: time passes, since Redis expires keys by itself; nothing is
assumed of the service, so `LocksExpire` holds although requests and sweepers may die.
`FairSpec`: every goroutine of a process keeps running, an unacknowledged entry that no
process holds is offered again (XAUTOCLAIM runs in the loop of `Subscribe`), the toMysql
consumer goes on, and only `MaxFaults` calls fail. In `Presence`: handshakes that reached the hub, closes, calls,
the loops of a gateway and time go on, and only `MaxLosses` calls fail; nobody has to
connect or to leave. `FairSpec` of `FriendSync`: a request and a change that began go on, a message that was
published and not lost is handled, and cached values expire (`redisTTL`, 12 hours, and the 5 minutes of the LRU). Its
one strong fairness is about the client, not this code: a device that is idle infinitely often compares its full list infinitely
often, which is what `relation.proto` describes `id_hash` for. Strong, because a
device that is answering an increment cannot ask.

### What the violations say

* `call_sweep`: `Expire` returns the calls it ended together with an error, and `Sweep`
  drops them. Both people of such a call are never told that it timed out.
* `transfer_retry`: the lookup of client ids comes before any number of the batch is
  remembered, so two copies of a message in one batch become two messages. The test
  puts them in two batches.
* `transfer_reads`: `MarkMsgsAsRead` checks the last number of the list, the consumer of
  the receipt takes the greatest; a list that does not end with its greatest number
  moves the stored position past `max_seq`.
* `group_sync_paging`: the full list is read in pages, newest group first, each counted and selected anew.
  A join between the count and the select of the page that ends the list pushes the oldest group off
  that page, and the stale count says that no page follows. The record is
  saved with the head read before the pages, so the group is missing from then on. The theorem
  `SyncNothingMissing` shows that two pages are needed: a user with at most `pageLimit` groups is safe.

Two more facts came up that no run shows. `DeleteMember` looks at no role (`store/group.go:285`), so a kick or
a quit decided before a transfer removes the new owner, although `quit_group.go:11` says that an owner cannot quit: the
group keeps its members and has nobody who may dismiss it or hand it over. `UpdateGroupMembers` looks at no role
either, so a change of role decided before a transfer demotes the new owner. The model has these steps;
`OneOwner` therefore says "at most one", and no property says that an owner stays. And
`DeleteGroupMembers` logs nothing to the member log, so a client that
follows the members of a dismissed group keeps them: `MemberLogTells` is about groups that are not dismissed.

## Proofs

All proof modules are checked by TLAPS for every
value of the constants that satisfies the named assumptions (`Timing`; `ConnAssumption`,
`NobodyAssumption` and `RequestTimeout` for the service;
`BoundAssumption`, `AbsentAssumption`; `LoginAssumption` and `RoundsAssumption` for presence; `GroupAssumption`;
`FriendAssumption`; `SyncAssumption`, a hypothesis of the two theorems of `GroupSyncProofs`;
`ShapeAssumption`, `ProcessAssumption` and `BoundAssumption` for message transfer, which say no more than that
messages have shapes, processes are finitely many and bounds are numbers). Three theorems about message transfer have
hypotheses of their own:

* `LastIsGreatest`: the last number of every receipt is its greatest. The client chooses the list and
  `MarkMsgsAsRead` does not enforce it; `transfer_reads` shows what happens otherwise. `transfer_mixed` satisfies it.
* `SentOnce`: a client sends each message once, no batch outlives `claimIdle` (two minutes), and no message has one
  conversation as chat and as notification. The last follows from the prefixes in `pkg/msgconv/id.go`; the
  first two are conditions on clients and on load, and `transfer_retry` is a violation without the first.
* `Apart`: no notification conversation is the chat of any message, by the same prefixes.

The instance of `transfer_mixed` satisfies `SentOnce` and `Apart`, and there the runs find `RetryKeepsSeq` and
`NumberedInOrder` broken by mutants, so the hypotheses do not make them empty.

* `BoardInvariant`. `LockAgreement` is not inductive without knowing that index entries
  are of drawn calls and that deadlines precede expiry, and `RingingIndexed` needs the locks'
  types; the inductive invariant is the conjunction `TypeOK /\ LockAgreement /\
  RingingIndexed`. The step lemmas follow the scripts: `InviteStep`, `AnswerStep`,
  `FinishStep`, `UnindexStep`, `TickStep`. The heart is `DisjointCalls`: two different calls
  with agreeing locks share nobody, so deleting the locks of one cannot touch the other,
  although no script compares a lock's value. `TickStep` uses that a lock carries its
  call's remaining time, so the three keys vanish together.
* `BoardImplementsRegistry`. From the invariant, each script maps to `Begin`, `Answer`,
  `Finish` or a stutter, and `Tick` to `Finish` of the calls that expire together.
* `SignalImplementsBoard`. Every step of the service runs at most one script, so it is a step of `BoardNext` or
  changes no key; the sweeper's script looks at no caller, so it is the script of any person. The board's
  theorems hold under the service for that reason.
* `SignalOneStory`, `SignalEndTold`, `SignalAnswerTold`, `SignalRingFirst`, `SignalTypes`. `SInv` adds to the board's
  invariant five statements about each call. `Fate`: a live call's keys name the people of its story, and nothing has
  happened to a ringing call and only the answer to an accepted one; this makes one winner. `Truthful`: what a
  connection heard, and what a request or a sweeper is about to say, has happened. `EndCovered` and `AnswerCovered`:
  what happened was told to all who must hear it, or a failure cut the call, or a request or a sweeper is about to tell it;
  with nobody about to, these are the properties. `Unrung`: before its ring a call has no other
  request, nobody heard of it, no sweeper listed it and its deadline is further away than that of its
  request; this is where `RequestTimeout` (two seconds are less than 45) is needed. Most actions concern one call:
  `SameCall` says once that the others keep the invariant, and `RequestStep`, `NotedStep` and `SweepStep` treat the
  three kinds of steps.
* `NoNumberTwice`, `MaxSeqRemembered`, `MallocIsAtomic`. The inductive invariant adds to the
  properties that the counter, when present, is the top of the reservations (`KeyOK`),
  and that MySQL has that top while there is no key (`KeyOK`), that a worker about to SETNX
  while there is no key carries what MySQL has, and that one about to INCRBY finds the key
  (`CallOK`), and that every reservation ends by the top (`GrantsOK`). A stale SELECT is harmless
  because SETNX only writes where no key is, and then nothing was reserved since.
* `OpenConnectionsListed`, `ListedConnectionsLeave`. The inductive invariant is `HubInv`: the
  two properties, that only a connection whose handshake reached the hub is listed, read or
  about to be closed, and that a list of connections to close belongs to a handshake in
  progress on the same user, platform and gateway. The last is what keeps a crash from
  losing a list whose connections live.
* `OfflineRepaired`, `RenewalsSuffice`. `PresenceInv` adds to it the shape of calls (`DataInv`: a
  handshake reports only its own platform and only at its end) and two statements about
  every live connection. `RepairOK` is the property. `AgeOK` bounds the age of an entry: with
  nothing under way, the periods left and the failed renewals add up to `Rounds`, and to one
  less from a tick to the renewal it triggers. The lemma behind both is `ScriptOnClient`: a
  script that does not name a platform leaves its entry as it is or takes it away, and then
  reports a change that does not name it. `TickLosesOneRound` uses that a tick finds every
  report and renewal done, so an entry that has only one period left has missed all
  renewals but the first.

* `SetLogTellsSet`. Inductive with `TypeOK`: a step writes one row and advances the head to it.
* `GroupTypeOK`, `GroupOneOwner`, `GroupWithinLimit`. `GInv` is `TypeOK` and, for every group, at most one owner, as
  many members as there is room for, and no members before it is created. `OneOwner` needs the last: `CreateGroup`
  writes an owner without looking at the rows. A transfer keeps it because it checks the old owner's role in
  its own transaction; an update keeps it because no patch names the role of an owner, and
  an entry because it only brings ordinary members.
* `GroupDismissedIsFinal`, `GroupFirstAnswerStands`. One step per action; the guards that matter are those read under the
  lock, not those of the handler.
* `GroupJoinedSets`. For every user, a transaction inserts, deletes or does nothing to his set and his log at once. Deletion
  needs that the user is a member when the transaction runs, entry that he is not.
* `GroupMemberLogTells`. `MInv` adds to `GInv` that the log tells the members of every active group and that a group whose
  members are about to be deleted is dismissed, since that transaction writes no member log. A batch gives its
  elements different versions in the order of their ids: the lemma `OrderNames` says that `InOrder` enumerates the batch.
* `SyncNothingLeftBehind`. `SyncInv` says of the record, and of what every request loaded or is building, that its version
  is one the log has reached and that it lists no group the user had left by that version. A change of membership gets a
  version above all of them, and a page or a row is read after the head it is saved with.
* `SyncNothingMissing`. Under the hypothesis that one page holds every group there is. `PageInv` adds that such a request has the
  whole list after its first page.
* `FriendIncrementsKeepRight`, `FriendHeadsPast`. `FInv` says that every head in a cache, in a reader's hands or
  in an answer is at most the log's version (`HeadsPast`), and that an answer about to be applied contains every change
  between the device's version and its head (`RowsTell`). An old head is harmless because the changes are read after it:
  they contain at least what the head promises.

* `TransferTypeOK`. `TInv` adds to the types that a batch accounts for its messages: in a lookup, everything before the
  position it has reached has a number or is in `fresh`, so that after `Reserve` nothing is unnumbered; positions that are written to
  `rows` are positive for that reason. It rests on lemmas about `Jobs`: `Nth` lists a finite set of positions in
  order (`RankFacts`, by cardinalities, since there is no induction), so `Sub` is a
  subsequence and `Stored` covers every position once.
* `TransferPublishedIsSaved`. `SavedInv`: from `SaveMax` on, the numbers of a batch are within `max_seq`, and so is what
  is in the topics. Nothing lowers `max_seq`.
* `TransferOneMessagePerSeq`. `UseInv` collects every place where a number is bound to a message: remembered ids,
  batches in progress, both topics and the rows. A number bound anywhere is at most the counter and bound
  to one message; only `Reserve` binds new ones, above the counter.
* `TransferAckedIsPublished`, `TransferPushedIsStored`. `PubInv`: what an entry of a batch owes is published or still in
  the jobs ahead of it; with none left it is published, and only then are entries acknowledged. A batch that pushes has its own
  copy in toMySQL, and an acknowledged copy has rows under all its numbers; that the row is of the same message, although
  INSERT IGNORE may have kept another one, is `UseInv`.
* `TransferReadWithinMax`. `ReadInv` says the same of receipts on their way, of what waits in `readCh` and of what is written. It needs
  `SavedInv`: a sender's position is sent to the read-seq writer after `SaveMax`.
* `TransferRetryKeepsSeq`. `HoldInv`: every entry is in one pair of hands, a buffer or a batch, and no message is in two
  entries. `KeepInv` relates a batch to the remembered ids: a message it found without a number has none until its
  own `Remember`, every other has the number of the batch, and what went out has the number remembered. A batch
  that is dropped halfway leaves ids that the next one finds.
* `TransferNumberedInOrder`. `LineInv` holds while nothing failed and there is one process. A key's entries pass
  through buffer and batch in line (`InLine`); nothing the batch has yet to number is numbered (`Ahead`), which
  needs that a batch stores to a conversation in one job; the numbers reserved rise with the
  messages, above all given to the key's other messages (`Climbs`); who has a number waits no more (`Known`). `Sorted` is the property.
  Only `Remember` writes a number, and it compares with everybody before it by these four.
* `PresenceTypeOK`. `RecordsInv` adds to `PresenceInv` that sorted sets hold ages of platforms, that calls are calls, and that what a
  shutdown has left to report names platforms. `FriendSyncTypeOK` adds the types of changes and messages (`WritesTyped`) to `FInv`.

Only model-checked is liveness (`LocksExpire`, `EventuallyDelivered`, `LiveIsShown`, `GhostsFade`, `CatchesUp`), which the
prover does not cover. No module with a theorem uses a recursive operator.

## Not modelled

`services/apigateway` only translates requests. `pkg/register`, `pkg/config`, `pkg/mw`,
`pkg/errorcode`, `pkg/livekit` and `pkg/rpcctx` keep no state the properties depend on.
Generated protobuf code, migrations and deployment files are not program logic. The
spelling of ids, the JSON of events and the columns of rows are data no property
tells apart.

Of the modelled services:

* `services/group`: profiles of groups and members, the mute of one member, notices, rate limits and webhooks, of which the one before a
  join may make an entrant an admin; the freezing
  of the history of those who left, which is a call of the conversation service after the transaction.
* `services/relation`: applications and blocks, which decide whether a friendship changes; remarks, pins and the
  sort order, which change no membership.
* `services/msg`: pulls, sequence windows and the read cursors written by requests other than `MarkMsgsAsRead`.
* `services/msggateway`: `push.go`, watch lists, the token check.
* `pkg/localcache`: links between keys, cached errors, eviction of a full slot.

Not at all: `services/conversation` sets rows by single statements and writes its version log as the other two services do;
`services/user` keeps profiles and one key per SMS code whose scripts run alone; `services/third` depends on an object
store whose operations are not in the repository; `pkg/webhook` is a bounded channel whose tasks nobody waits for.

----------------------------- MODULE MsgTransfer -----------------------------
(***************************************************************************)
(* The msgtransfer service: it consumes toRedis, gives every stored        *)
(* message a sequence number, and hands it to the MySQL consumer and to    *)
(* the push service.  Each process batches the entries of a queue key and  *)
(* works on one batch per key at a time; a batch that fails anywhere is    *)
(* dropped without acknowledging its entries, which are claimed later by   *)
(* the same process or by another.  Malloc is one step here: SeqAlloc      *)
(* shows that its three Redis calls and one query behave so.               *)
(***************************************************************************)
EXTENDS StreamQueue, FiniteSets, SequencesExt, FiniteSetsExt

CONSTANTS Msg,         \* client messages, each with its own client id
          Conv,        \* conversations
          Shape,       \* what splitMessages tells apart in a message
          Sends,       \* bound: how often a client sends each message
          Process,     \* processes of the service
          BatchSize,   \* entries in one batch
          SlowBatches, \* a batch may outlive claimIdle (two minutes)
          MaxFaults    \* bound: failed calls and crashes

\* key: QueueKey.  notice: isNotNotification is false.  history and sendMsg:
\* the options.  chat and note: the conversations of the message and of its
\* notification form.  reads: the numbers of the conversation about which a
\* read receipt carries, the cursor it asks for last; empty for other messages.
MsgShape == [key : STRING, notice : BOOLEAN, history : BOOLEAN, sendMsg : BOOLEAN,
             chat : Conv, note : Conv, sender : STRING, reads : Seq(Nat), about : Conv]

ASSUME ShapeAssumption == Shape \in [Msg -> MsgShape]
ASSUME ProcessAssumption == IsFiniteSet(Process)
ASSUME BoundAssumption == BatchSize \in Nat \ {0} /\ MaxFaults \in Nat /\ SlowBatches \in BOOLEAN

Key == {Shape[m].key : m \in Msg}
Users == {Shape[m].sender : m \in Msg}

VARIABLES toRedis,    \* the queue the msg service writes
          buffer,     \* per process and key: entries the batcher holds
          work,       \* per process and key: the batch in progress
          clientSeq,  \* Redis: the number remembered for a client message id
          counter,    \* Redis: the greatest number reserved
          readCache,  \* Redis: a user's read position
          savedMax,   \* MySQL: seq_conversation.max_seq
          readDB,     \* MySQL: seq_user.read_seq
          readCh,     \* per process: read positions to write to MySQL
          toMySQL,    \* batches published for the MySQL consumer, in order
          rows,       \* MySQL: the messages, by conversation and number
          toPush,     \* messages published for the push service, in order
          faults      \* bound: how many calls failed so far

redis == <<clientSeq, counter, readCache>>
mysql == <<savedMax, readDB, rows>>
topics == <<toMySQL, toPush>>
vars == <<toRedis, buffer, work, redis, mysql, readCh, topics, faults>>

Idle == [pc |-> "idle"]
MaxOf(S) == IF S = {} THEN 0 ELSE Max(S)

Init ==
  /\ toRedis = EmptyQueue
  /\ buffer = [p \in Process |-> [k \in Key |-> <<>>]]
  /\ work = [p \in Process |-> [k \in Key |-> Idle]]
  /\ clientSeq = [c \in Conv |-> <<>>]
  /\ counter = [c \in Conv |-> 0]
  /\ readCache = [c \in Conv |-> [u \in Users |-> 0]]
  /\ savedMax = [c \in Conv |-> 0]
  /\ readDB = [c \in Conv |-> [u \in Users |-> 0]]
  /\ readCh = [p \in Process |-> <<>>]
  /\ toMySQL = EmptyQueue
  /\ rows = [c \in Conv |-> <<>>]
  /\ toPush = <<>>
  /\ faults = 0

MsgAt(e) == toRedis.log[e]
Sent(m) == Cardinality({e \in DOMAIN toRedis.log : MsgAt(e) = m})
Held(e) == \E p \in Process, k \in Key :
  \/ e \in ToSet(buffer[p][k])
  \/ work[p][k] # Idle /\ e \in ToSet(work[p][k].batch)
-----------------------------------------------------------------------------
(* Producers, delivery and claims.                                         *)

Raise(cursor, to) == [u \in Users |-> IF to[u] > cursor[u] THEN to[u] ELSE cursor[u]]
ByUser(n, of) == [u \in Users |-> IF u = of THEN n ELSE 0]

\* SendMsg of the msg service, and a client that sends again.
ClientSend(m) ==
  /\ Shape[m].reads = <<>>
  /\ Sent(m) < Sends
  /\ toRedis' = Send(toRedis, m)
  /\ UNCHANGED <<buffer, work, redis, mysql, readCh, topics, faults>>

\* MarkMsgsAsRead of the msg service: the last number of the list is checked
\* against max_seq and written as the cursor; the receipt carries the list.
SendReceipt(m) ==
  LET c == Shape[m].about
      cursor == Last(Shape[m].reads)
  IN
  /\ Shape[m].reads # <<>>
  /\ Sent(m) < Sends
  /\ cursor <= savedMax[c]
  /\ readDB' = [readDB EXCEPT ![c] = Raise(@, ByUser(cursor, Shape[m].sender))]
  /\ toRedis' = Send(toRedis, m)
  /\ UNCHANGED <<buffer, work, redis, savedMax, rows, readCh, topics, faults>>

\* A batcher that works last in, first out.
Buffer_Prepends(p, e) == buffer' = [buffer EXCEPT ![p][Shape[MsgAt(e)].key] = <<e>> \o @]

Buffer(p, e) == buffer' = [buffer EXCEPT ![p][Shape[MsgAt(e)].key] = Append(@, e)]

\* Subscribe, dispatch, Handle and Put.
Deliver(p) ==
  /\ CanRead(toRedis)
  /\ Buffer(p, NextEntry(toRedis))
  /\ toRedis' = Read(toRedis)
  /\ UNCHANGED <<work, redis, mysql, readCh, topics, faults>>

\* XAUTOCLAIM of an entry pending for claimIdle.  A batch that lasts longer has
\* its entries claimed while it works.
Claim(p, e) ==
  /\ e \in toRedis.pending
  /\ Held(e) => SlowBatches /\ faults < MaxFaults
  /\ faults' = IF Held(e) THEN faults + 1 ELSE faults
  /\ Buffer(p, e)
  /\ UNCHANGED <<toRedis, work, redis, mysql, readCh, topics>>
-----------------------------------------------------------------------------
(* What a batch does: splitMessages, then for each of the four lists in the *)
(* order of do, pushes of what is not stored and one job per conversation.  *)

Chat == [m \in Msg |-> Shape[m].chat]
Notice == [m \in Msg |-> Shape[m].note]

\* The i-th of a set of positions, and the messages at a set of positions.
Nth(at, i) == CHOOSE n \in at : Cardinality({k \in at : k <= n}) = i
Sub(ms, at) == [i \in 1..Cardinality(at) |-> ms[Nth(at, i)]]

PushOnly(ms, at, conv) ==
  [i \in 1..Cardinality(at) |->
     LET m == ms[Nth(at, i)] IN [conv |-> conv[m], msgs |-> <<m>>, store |-> FALSE]]

\* persist: grouped by conversation, in order of first appearance.
Stored(ms, at, conv) ==
  LET firsts == {n \in at : \A k \in at : k < n => conv[ms[k]] # conv[ms[n]]}
  IN  [i \in 1..Cardinality(firsts) |->
         LET c == conv[ms[Nth(firsts, i)]] IN
         [conv |-> c, msgs |-> Sub(ms, {n \in at : conv[ms[n]] = c}), store |-> TRUE]]

Jobs(ms) ==
  LET chats == {n \in DOMAIN ms : IF Shape[ms[n]].notice THEN Shape[ms[n]].sendMsg ELSE Shape[ms[n]].history}
      transient == {n \in DOMAIN ms : ~Shape[ms[n]].notice /\ ~Shape[ms[n]].history}
      notices == {n \in DOMAIN ms : Shape[ms[n]].notice /\ Shape[ms[n]].history}
      alerts == {n \in DOMAIN ms : Shape[ms[n]].notice /\ ~Shape[ms[n]].history}
  IN  PushOnly(ms, transient, Chat) \o Stored(ms, chats, Chat)
        \o PushOnly(ms, alerts, Notice) \o Stored(ms, notices, Notice)

\* The worker of (p, k) is about to start the first of jobs.
Begin(batch, jobs) ==
  IF jobs = <<>> THEN [pc |-> "ack", batch |-> batch, at |-> 1]
  ELSE [pc    |-> IF Head(jobs).store THEN "lookup" ELSE "push",
        batch |-> batch, jobs |-> jobs, at |-> 1,
        seqs  |-> [i \in DOMAIN Head(jobs).msgs |-> 0], fresh |-> <<>>, last |-> 0]

W(p, k) == work[p][k]
At(p, k, pc) == W(p, k).pc = pc
Job(p, k) == Head(W(p, k).jobs)
Go(p, k, w) == work' = [work EXCEPT ![p][k] = w]

\* The timer or a full batch; entries of the key keep their order.
Flush(p, k) ==
  /\ work[p][k] = Idle
  /\ \E n \in 1..BatchSize :
       /\ n <= Len(buffer[p][k])
       /\ work' = [work EXCEPT ![p][k] = [pc |-> "receipts", batch |-> SubSeq(buffer[p][k], 1, n)]]
       /\ buffer' = [buffer EXCEPT ![p][k] = SubSeq(@, n + 1, Len(@))]
  /\ UNCHANGED <<toRedis, redis, mysql, readCh, topics, faults>>

\* applyReadReceipts, first for all receipts of the batch, then the jobs.  The
\* greatest number a receipt carries becomes the cursor.
ApplyReadReceipts(p, k) ==
  LET ms == [i \in DOMAIN W(p, k).batch |-> MsgAt(W(p, k).batch[i])] IN
  /\ At(p, k, "receipts")
  /\ readDB' = [c \in Conv |-> Raise(readDB[c], [u \in Users |->
       MaxOf(UNION {ToSet(Shape[m].reads) : m \in {x \in ToSet(ms) : Shape[x].about = c /\ Shape[x].sender = u}})])]
  /\ Go(p, k, Begin(W(p, k).batch, Jobs(ms)))
  /\ UNCHANGED <<toRedis, buffer, redis, savedMax, rows, readCh, topics, faults>>
-----------------------------------------------------------------------------
(* The steps of BatchInsertChat2Cache.                                     *)

\* One GET of the loop over the messages; a message met earlier keeps its number.
LookupClient(p, k) ==
  LET w == W(p, k)
      c == Job(p, k).conv
      m == Job(p, k).msgs[w.at]
      known == m \in DOMAIN clientSeq[c]
      fresh == IF known THEN w.fresh ELSE Append(w.fresh, w.at)
      last == w.at = Len(Job(p, k).msgs)
  IN
  /\ At(p, k, "lookup")
  /\ Go(p, k, [w EXCEPT !.seqs[w.at] = IF known THEN clientSeq[c][m] ELSE 0,
                        !.fresh = fresh,
                        !.at = IF last THEN 1 ELSE @ + 1,
                        !.pc = IF ~last THEN "lookup" ELSE IF fresh = <<>> THEN "cache" ELSE "malloc"])
  /\ UNCHANGED <<toRedis, buffer, redis, mysql, readCh, topics, faults>>

Reserve_FromZero(p, k) ==
  LET w == W(p, k)
      c == Job(p, k).conv
      before == counter[c]
  IN
  /\ At(p, k, "malloc")
  /\ counter' = [counter EXCEPT ![c] = @ + Len(w.fresh)]
  /\ Go(p, k, [w EXCEPT !.pc = "remember",
                        !.last = before,
                        !.seqs = [i \in DOMAIN @ |->
                           IF i \in ToSet(w.fresh)
                           THEN before - 1 + CHOOSE j \in DOMAIN w.fresh : w.fresh[j] = i
                           ELSE @[i]]])
  /\ UNCHANGED <<toRedis, buffer, clientSeq, readCache, mysql, readCh, topics, faults>>

Reserve_SameNumber(p, k) ==
  LET w == W(p, k)
      c == Job(p, k).conv
      before == counter[c]
  IN
  /\ At(p, k, "malloc")
  /\ counter' = [counter EXCEPT ![c] = @ + Len(w.fresh)]
  /\ Go(p, k, [w EXCEPT !.pc = "remember",
                        !.last = before,
                        !.seqs = [i \in DOMAIN @ |->
                           IF i \in ToSet(w.fresh)
                           THEN before + 1
                           ELSE @[i]]])
  /\ UNCHANGED <<toRedis, buffer, clientSeq, readCache, mysql, readCh, topics, faults>>

\* Malloc(len(fresh)); the numbers follow the order of the batch.
Reserve(p, k) ==
  LET w == W(p, k)
      c == Job(p, k).conv
      before == counter[c]
  IN
  /\ At(p, k, "malloc")
  /\ counter' = [counter EXCEPT ![c] = @ + Len(w.fresh)]
  /\ Go(p, k, [w EXCEPT !.pc = "remember",
                        !.last = before,
                        !.seqs = [i \in DOMAIN @ |->
                           IF i \in ToSet(w.fresh)
                           THEN before + CHOOSE j \in DOMAIN w.fresh : w.fresh[j] = i
                           ELSE @[i]]])
  /\ UNCHANGED <<toRedis, buffer, clientSeq, readCache, mysql, readCh, topics, faults>>

\* RememberClientSeq of one fresh message.
Remember_Nothing(p, k) ==
  LET w == W(p, k)
  IN
  /\ At(p, k, "remember")
  /\ Go(p, k, [w EXCEPT !.at = IF @ = Len(w.fresh) THEN 1 ELSE @ + 1,
                        !.pc = IF w.at = Len(w.fresh) THEN "cache" ELSE "remember"])
  /\ UNCHANGED <<toRedis, buffer, redis, mysql, readCh, topics, faults>>

Remember(p, k) ==
  LET w == W(p, k)
      i == w.fresh[w.at]
      m == Job(p, k).msgs[i]
  IN
  /\ At(p, k, "remember")
  /\ clientSeq' = [clientSeq EXCEPT ![Job(p, k).conv] =
       [x \in DOMAIN @ \cup {m} |-> IF x = m THEN w.seqs[i] ELSE @[x]]]
  /\ Go(p, k, [w EXCEPT !.at = IF @ = Len(w.fresh) THEN 1 ELSE @ + 1,
                        !.pc = IF w.at = Len(w.fresh) THEN "cache" ELSE "remember"])
  /\ UNCHANGED <<toRedis, buffer, counter, readCache, mysql, readCh, topics, faults>>

\* The greatest number of the batch of each sender.
SenderSeq(p, k) ==
  [u \in Users |-> MaxOf({W(p, k).seqs[i] : i \in {j \in DOMAIN W(p, k).seqs : Shape[Job(p, k).msgs[j]].sender = u}})]

\* SetMessages keeps the bodies by number (nothing here reads them), and
\* SetUserReadSeq raises the senders' positions.
FillCache(p, k) ==
  LET c == Job(p, k).conv IN
  /\ At(p, k, "cache")
  /\ readCache' = [readCache EXCEPT ![c] = Raise(@, SenderSeq(p, k))]
  /\ Go(p, k, [W(p, k) EXCEPT !.pc = "save"])
  /\ UNCHANGED <<toRedis, buffer, clientSeq, counter, mysql, readCh, topics, faults>>

\* A plain UPDATE would let a slow batch undo a faster one.
SaveMax_Overwrite(p, k) ==
  LET c == Job(p, k).conv IN
  /\ At(p, k, "save")
  /\ savedMax' = [savedMax EXCEPT ![c] = MaxOf(ToSet(W(p, k).seqs))]
  /\ Go(p, k, [W(p, k) EXCEPT !.pc = "ensure"])
  /\ UNCHANGED <<toRedis, buffer, redis, readDB, rows, readCh, topics, faults>>

\* Malloc answers with the maximum before the reservation.
SaveMax_Before(p, k) ==
  LET c == Job(p, k).conv
      m == W(p, k).last
  IN
  /\ At(p, k, "save")
  /\ savedMax' = [savedMax EXCEPT ![c] = IF m > @ THEN m ELSE @]
  /\ Go(p, k, [W(p, k) EXCEPT !.pc = "ensure"])
  /\ UNCHANGED <<toRedis, buffer, redis, readDB, rows, readCh, topics, faults>>

\* SaveMaxSeq: GREATEST.
SaveMax(p, k) ==
  LET c == Job(p, k).conv
      m == MaxOf(ToSet(W(p, k).seqs))
  IN
  /\ At(p, k, "save")
  /\ savedMax' = [savedMax EXCEPT ![c] = IF m > @ THEN m ELSE @]
  /\ Go(p, k, [W(p, k) EXCEPT !.pc = "ensure"])
  /\ UNCHANGED <<toRedis, buffer, redis, readDB, rows, readCh, topics, faults>>
-----------------------------------------------------------------------------
(* The rest of persist, push and the acknowledgements of do.               *)

\* ensureConversation asks the conversation service (external), then the
\* senders' read positions go to the read-seq writer.
Ensure(p, k) ==
  /\ At(p, k, "ensure")
  /\ readCh' = [readCh EXCEPT ![p] = Append(@, [conv |-> Job(p, k).conv, seqs |-> SenderSeq(p, k)])]
  /\ Go(p, k, [W(p, k) EXCEPT !.pc = "mysql"])
  /\ UNCHANGED <<toRedis, buffer, redis, mysql, topics, faults>>

PublishMySQL(p, k) ==
  /\ At(p, k, "mysql")
  /\ toMySQL' = Send(toMySQL, [conv |-> Job(p, k).conv, msgs |-> Job(p, k).msgs, seqs |-> W(p, k).seqs])
  /\ Go(p, k, [W(p, k) EXCEPT !.pc = "push"])
  /\ UNCHANGED <<toRedis, buffer, redis, mysql, readCh, toPush, faults>>

\* MsgToPush of one message; after the last, the next job or the acks.
PublishPush(p, k) ==
  LET w == W(p, k)
      j == Job(p, k)
  IN
  /\ At(p, k, "push")
  /\ toPush' = Append(toPush, [conv |-> j.conv, msg |-> j.msgs[w.at], seq |-> w.seqs[w.at]])
  /\ Go(p, k, IF w.at = Len(j.msgs) THEN Begin(w.batch, Tail(w.jobs)) ELSE [w EXCEPT !.at = @ + 1])
  /\ UNCHANGED <<toRedis, buffer, redis, mysql, readCh, toMySQL, faults>>

AckEntry(p, k) ==
  LET w == W(p, k) IN
  /\ At(p, k, "ack")
  /\ toRedis' = Ack(toRedis, w.batch[w.at])
  /\ Go(p, k, IF w.at = Len(w.batch) THEN Idle ELSE [w EXCEPT !.at = @ + 1])
  /\ UNCHANGED <<buffer, redis, mysql, readCh, topics, faults>>

WorkerStep(p, k) ==
  \/ ApplyReadReceipts(p, k)
  \/ LookupClient(p, k)
  \/ Reserve(p, k)
  \/ Remember(p, k)
  \/ FillCache(p, k)
  \/ SaveMax(p, k)
  \/ Ensure(p, k)
  \/ PublishMySQL(p, k)
  \/ PublishPush(p, k)
  \/ AckEntry(p, k)

\* Some call of the batch fails: exec logs the error and the batch is gone.
\* A call whose reply is lost is the step itself followed by this one.
DropBatch_Acks(p, k) ==
  /\ faults < MaxFaults
  /\ W(p, k) # Idle
  /\ Go(p, k, Idle)
  /\ faults' = faults + 1
  /\ toRedis' = [toRedis EXCEPT !.pending = @ \ ToSet(W(p, k).batch)]
  /\ UNCHANGED <<buffer, redis, mysql, readCh, topics>>

DropBatch(p, k) ==
  /\ faults < MaxFaults
  /\ W(p, k) # Idle
  /\ Go(p, k, Idle)
  /\ faults' = faults + 1
  /\ UNCHANGED <<toRedis, buffer, redis, mysql, readCh, topics>>

\* The process dies and is started again.
Crash(p) ==
  /\ faults < MaxFaults
  /\ faults' = faults + 1
  /\ buffer' = [buffer EXCEPT ![p] = [k \in Key |-> <<>>]]
  /\ work' = [work EXCEPT ![p] = [k \in Key |-> Idle]]
  /\ readCh' = [readCh EXCEPT ![p] = <<>>]
  /\ UNCHANGED <<toRedis, redis, mysql, topics>>
-----------------------------------------------------------------------------
(* The two writers of MySQL.                                               *)

\* runReadSeq: an error is logged and the position is not written.
WriteReadSeq(p) ==
  /\ readCh[p] # <<>>
  /\ LET item == Head(readCh[p]) IN
       readDB' = [readDB EXCEPT ![item.conv] = Raise(@, item.seqs)]
  /\ readCh' = [readCh EXCEPT ![p] = Tail(@)]
  /\ UNCHANGED <<toRedis, buffer, work, redis, savedMax, rows, topics, faults>>

\* INSERT IGNORE: a number that has a row keeps it.
InsertMessages(b) ==
  [n \in DOMAIN rows[b.conv] \cup ToSet(b.seqs) |->
     IF n \in DOMAIN rows[b.conv] THEN rows[b.conv][n] ELSE b.msgs[CHOOSE i \in DOMAIN b.seqs : b.seqs[i] = n]]

\* An error that is only logged.
StoreBatch_AcksFailed(e) ==
  /\ \/ CanRead(toMySQL) /\ e = NextEntry(toMySQL)
     \/ e \in toMySQL.pending
  /\ LET q == IF e \in toMySQL.pending THEN toMySQL ELSE Read(toMySQL)
         b == toMySQL.log[e]
     IN
     \/ /\ rows' = [rows EXCEPT ![b.conv] = InsertMessages(b)]
        /\ toMySQL' = Ack(q, e)
        /\ UNCHANGED faults
     \/ /\ faults < MaxFaults
        /\ faults' = faults + 1
        /\ toMySQL' = Ack(q, e)
        /\ rows' \in {rows, [rows EXCEPT ![b.conv] = InsertMessages(b)]}
  /\ UNCHANGED <<toRedis, buffer, work, redis, savedMax, readDB, readCh, toPush>>

\* MySQLHandler.Handle of a delivered or claimed entry.  The rows are committed
\* before the acknowledgement, which may be lost.
StoreBatch(e) ==
  /\ \/ CanRead(toMySQL) /\ e = NextEntry(toMySQL)
     \/ e \in toMySQL.pending
  /\ LET q == IF e \in toMySQL.pending THEN toMySQL ELSE Read(toMySQL)
         b == toMySQL.log[e]
     IN
     \/ /\ rows' = [rows EXCEPT ![b.conv] = InsertMessages(b)]
        /\ toMySQL' = Ack(q, e)
        /\ UNCHANGED faults
     \/ /\ faults < MaxFaults
        /\ faults' = faults + 1
        /\ toMySQL' = q
        /\ rows' \in {rows, [rows EXCEPT ![b.conv] = InsertMessages(b)]}
  /\ UNCHANGED <<toRedis, buffer, work, redis, savedMax, readDB, readCh, toPush>>

Next ==
  \/ \E m \in Msg : ClientSend(m)
  \/ \E m \in Msg : SendReceipt(m)
  \/ \E p \in Process : Deliver(p)
  \/ \E p \in Process, e \in toRedis.pending : Claim(p, e)
  \/ \E p \in Process, k \in Key : Flush(p, k)
  \/ \E p \in Process, k \in Key : WorkerStep(p, k)
  \/ \E p \in Process, k \in Key : DropBatch(p, k)
  \/ \E p \in Process : Crash(p)
  \/ \E p \in Process : WriteReadSeq(p)
  \/ \E e \in DOMAIN toMySQL.log : StoreBatch(e)

Spec == Init /\ [][Next]_vars

\* The goroutines of every process keep running, Redis offers a pending entry
\* again until it is acknowledged, and only MaxFaults calls fail.
Fairness ==
  /\ \A p \in Process :
       /\ WF_vars(Deliver(p))
       /\ WF_vars(WriteReadSeq(p))
       /\ \A k \in Key : WF_vars(Flush(p, k)) /\ WF_vars(WorkerStep(p, k))
  /\ WF_vars(\E p \in Process, e \in toRedis.pending : ~Held(e) /\ Claim(p, e))
  /\ WF_vars(\E e \in DOMAIN toMySQL.log : StoreBatch(e))

FairSpec == Spec /\ Fairness
-----------------------------------------------------------------------------
(* Properties.                                                             *)

Copies == {[conv |-> toPush[i].conv, msg |-> toPush[i].msg, seq |-> toPush[i].seq] : i \in DOMAIN toPush}
  \cup UNION {{[conv |-> b.conv, msg |-> b.msgs[i], seq |-> b.seqs[i]] : i \in DOMAIN b.msgs} : b \in ToSet(toMySQL.log)}

(* Entries held by a process were delivered, rows hold messages and have     *)
(* positive numbers, counters and read positions are natural numbers.        *)
TypeOK ==
  /\ toRedis.log \in Seq(Msg) /\ toRedis.read \in 0..Len(toRedis.log) /\ toRedis.pending \subseteq 1..toRedis.read
  /\ \A p \in Process, k \in Key :
       /\ ToSet(buffer[p][k]) \subseteq 1..toRedis.read
       /\ work[p][k].pc \in {"idle", "receipts", "lookup", "malloc", "remember", "cache", "save",
                             "ensure", "mysql", "push", "ack"}
  /\ \A c \in Conv : DOMAIN clientSeq[c] \subseteq Msg /\ DOMAIN rows[c] \subseteq Nat \ {0} /\ ToSet(rows[c]) \subseteq Msg
  /\ counter \in [Conv -> Nat] /\ savedMax \in [Conv -> Nat]
  /\ readDB \in [Conv -> [Users -> Nat]] /\ readCache \in [Conv -> [Users -> Nat]]
  /\ faults \in 0..MaxFaults

(* A number names one message: whatever is retried, claimed by another      *)
(* process or done twice at once, no two messages of a conversation go out  *)
(* with the same number, so INSERT IGNORE never swallows a message.         *)
OneMessagePerSeq ==
  \A x, y \in Copies : x.conv = y.conv /\ x.seq = y.seq /\ x.seq > 0 => x.msg = y.msg

(* A message keeps its number through every retry of its batch.             *)
RetryKeepsSeq ==
  \A x, y \in Copies : x.conv = y.conv /\ x.msg = y.msg => x.seq = y.seq

(* handler_test.go:86 expects of a client that sends a message again that    *)
(* there is still one row, and handler_test.go:89 that the number is the     *)
(* first one.                                                                *)
OneRowPerMessage ==
  \A c \in Conv : \A n, o \in DOMAIN rows[c] : rows[c][n] = rows[c][o] => n = o

\* What one message asks for: the jobs of a batch of its own.
Owed == [m \in Msg |-> ToSet(Jobs(<<m>>))]

(* redis_handler.go:89: the batch worker acks an entry "after toMysql and    *)
(* toPush succeed": nothing acknowledged was left out of either topic.       *)
AckedIsPublished ==
  \A e \in Acked(toRedis) : \A j \in Owed[MsgAt(e)] :
    /\ \E x \in ToSet(toPush) : x.conv = j.conv /\ x.msg = MsgAt(e)
    /\ j.store => \E b \in ToSet(toMySQL.log) : b.conv = j.conv /\ MsgAt(e) \in ToSet(b.msgs)

(* Whoever sees a message finds it within the conversation's max_seq, which  *)
(* batches of two processes may save in any order (transfer.go:117).         *)
PublishedIsSaved == \A x \in Copies : x.seq <= savedMax[x.conv]

(* mark_msgs_as_read.go:30 and :33 promise that the last number of the list  *)
(* is the read cursor and that hasReadSeq is not "bigger than maxSeq": no    *)
(* read position in MySQL is beyond max_seq.                                 *)
ReadWithinMax == \A c \in Conv, u \in Users : readDB[c][u] <= savedMax[c]

(* What was pushed is on its way to MySQL under the same number, and once    *)
(* the MySQL consumer acknowledged that batch the row holds that message.    *)
PushedIsStored ==
  \A x \in ToSet(toPush) : x.seq > 0 =>
    \E e \in DOMAIN toMySQL.log : \E i \in DOMAIN toMySQL.log[e].msgs :
      LET b == toMySQL.log[e] IN
      /\ b.conv = x.conv /\ b.msgs[i] = x.msg /\ b.seqs[i] = x.seq
      /\ e \in Acked(toMySQL) => x.seq \in DOMAIN rows[x.conv] /\ rows[x.conv][x.seq] = x.msg

(* While nothing fails and one process reads the queue, the messages of a    *)
(* key are numbered in the order in which the msg service accepted them.     *)
NumberedInOrder ==
  faults = 0 /\ Cardinality(Process) = 1 =>
    \A e, f \in DOMAIN toRedis.log : \A c \in Conv :
      (/\ e < f /\ Shape[MsgAt(e)].key = Shape[MsgAt(f)].key
       /\ {MsgAt(e), MsgAt(f)} \subseteq DOMAIN clientSeq[c])
        => clientSeq[c][MsgAt(e)] <= clientSeq[c][MsgAt(f)]

\* Acknowledged, pushed, and stored where its options say.
Delivered(m) ==
  /\ \A e \in DOMAIN toRedis.log : MsgAt(e) = m => e \in Acked(toRedis)
  /\ \A j \in Owed[m] :
       /\ \E x \in ToSet(toPush) : x.conv = j.conv /\ x.msg = m
       /\ j.store => m \in ToSet(rows[j.conv])

(* Every message the queue accepted is eventually acknowledged, pushed, and  *)
(* stored where its options say, although calls fail and processes crash.    *)
EventuallyDelivered == \A m \in Msg : (Sent(m) > 0) ~> Delivered(m)
=============================================================================

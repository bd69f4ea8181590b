---------------------------- MODULE StreamQueue ----------------------------
(***************************************************************************)
(* pkg/mq: a topic as a Redis stream read by one consumer group.  A queue  *)
(* is a value: the entries appended so far, how many of them the group has *)
(* delivered, and which delivered ones are not acknowledged yet.  Entries  *)
(* are named by their position.  Redis itself is external: these are the   *)
(* commands pkg/mq/redis.go sends it.                                      *)
(***************************************************************************)
EXTENDS Naturals, Sequences

EmptyQueue == [log |-> <<>>, read |-> 0, pending |-> {}]

\* RedisProducer.Send: XADD.  The limit (100000 entries by default) is taken to
\* be above every backlog, so nothing is trimmed.
Send(q, v) == [q EXCEPT !.log = Append(@, v)]

\* XREADGROUP ... >: the next entry nobody in the group was given.
CanRead(q) == q.read < Len(q.log)
NextEntry(q) == q.read + 1
Read(q) == [q EXCEPT !.read = @ + 1, !.pending = @ \cup {q.read + 1}]

\* XACK: a second acknowledgement of an entry changes nothing.
Ack(q, e) == [q EXCEPT !.pending = @ \ {e}]

Acked(q) == (1..q.read) \ q.pending
=============================================================================

------------------------------ MODULE SeqAlloc ------------------------------
(***************************************************************************)
(* Malloc of the msgtransfer cache for one conversation, call by call:     *)
(* EXISTS; if the key is gone, SELECT max_seq and SETNX; INCRBY; and later *)
(* SaveMaxSeq in MySQL.  Workers of several keys and processes run it at   *)
(* the same time, any call may fail, and Redis may lose the key.           *)
(***************************************************************************)
EXTENDS Naturals, Sequences

CONSTANTS Worker,    \* goroutines that reserve numbers of the conversation
          MaxBatch,  \* numbers one reservation may take
          MaxSeq,    \* bound: the greatest number reserved
          Absent     \* the value of a Redis key that does not exist

ASSUME BoundAssumption == MaxBatch \in Nat /\ MaxSeq \in Nat
ASSUME AbsentAssumption == Absent \notin Nat

VARIABLES counter,   \* Redis: seqKeyPrefix+conversationID, or Absent
          saved,     \* MySQL: seq_conversation.max_seq
          call,      \* what each worker is doing
          granted,   \* history: the reservations, in order
          dropped    \* history: ends of the reservations whose batch failed

vars == <<counter, saved, call, granted, dropped>>

Present == counter # Absent
Idle == [pc |-> "idle", n |-> 0, arg |-> 0]
Call == [pc : {"idle", "load", "setnx", "incr", "save"}, n : Nat, arg : Nat]

Init ==
  /\ counter = Absent
  /\ saved = 0
  /\ call = [w \in Worker |-> Idle]
  /\ granted = <<>>
  /\ dropped = {}

\* ensureSeq: EXISTS.
Exists(w) ==
  /\ call[w] = Idle
  /\ \E n \in 1..MaxBatch :
       call' = [call EXCEPT ![w] = [pc |-> IF Present THEN "incr" ELSE "load", n |-> n, arg |-> 0]]
  /\ UNCHANGED <<counter, saved, granted, dropped>>

\* loadMaxSeq.
Load_Cached(w) ==
  /\ call[w].pc = "load"
  /\ call' = [call EXCEPT ![w] = [pc |-> "setnx", n |-> call[w].n, arg |-> counter]]
  /\ UNCHANGED <<counter, saved, granted, dropped>>

Load(w) ==
  /\ call[w].pc = "load"
  /\ call' = [call EXCEPT ![w] = [pc |-> "setnx", n |-> call[w].n, arg |-> saved]]
  /\ UNCHANGED <<counter, saved, granted, dropped>>

\* A plain SET would undo the increments of a faster worker.
SetNX_Overwrites(w) ==
  /\ call[w].pc = "setnx"
  /\ counter' = call[w].arg
  /\ call' = [call EXCEPT ![w] = [pc |-> "incr", n |-> call[w].n, arg |-> 0]]
  /\ UNCHANGED <<saved, granted, dropped>>

SetNX(w) ==
  /\ call[w].pc = "setnx"
  /\ counter' = IF Present THEN counter ELSE call[w].arg
  /\ call' = [call EXCEPT ![w] = [pc |-> "incr", n |-> call[w].n, arg |-> 0]]
  /\ UNCHANGED <<saved, granted, dropped>>

\* INCRBY counts from zero when there is no key.
IncrBy(w) ==
  LET n == call[w].n
      before == IF Present THEN counter ELSE 0
  IN
  /\ call[w].pc = "incr"
  /\ before + n <= MaxSeq
  /\ counter' = before + n
  /\ granted' = Append(granted, [lo |-> before + 1, hi |-> before + n])
  /\ call' = [call EXCEPT ![w] = [pc |-> "save", n |-> 0, arg |-> before + n]]
  /\ UNCHANGED <<saved, dropped>>

\* A plain UPDATE would let a slow batch undo a faster one.
SaveMaxSeq_Overwrites(w) ==
  /\ call[w].pc = "save"
  /\ saved' = call[w].arg
  /\ call' = [call EXCEPT ![w] = Idle]
  /\ UNCHANGED <<counter, granted, dropped>>

\* SaveMaxSeq: GREATEST.
SaveMaxSeq(w) ==
  /\ call[w].pc = "save"
  /\ saved' = IF call[w].arg > saved THEN call[w].arg ELSE saved
  /\ call' = [call EXCEPT ![w] = Idle]
  /\ UNCHANGED <<counter, granted, dropped>>

\* A call fails or the process dies: the batch is dropped.
Abandon(w) ==
  /\ call[w] # Idle
  /\ call' = [call EXCEPT ![w] = Idle]
  /\ dropped' = IF call[w].pc = "save" THEN dropped \cup {call[w].arg} ELSE dropped
  /\ UNCHANGED <<counter, saved, granted>>

\* Redis loses the key.  The code recovers from MySQL, which is right only if
\* MySQL has the last reservation and nobody is between EXISTS and INCRBY with
\* what he learnt before: nothing in the code guarantees it, and it is assumed.
Quiet ==
  /\ counter = saved
  /\ \A w \in Worker :
       /\ call[w].pc # "incr"
       /\ call[w].pc = "setnx" => call[w].arg = saved

LoseKey ==
  /\ Present
  /\ Quiet
  /\ counter' = Absent
  /\ UNCHANGED <<saved, call, granted, dropped>>

Next ==
  \/ \E w \in Worker : Exists(w)
  \/ \E w \in Worker : Load(w)
  \/ \E w \in Worker : SetNX(w)
  \/ \E w \in Worker : IncrBy(w)
  \/ \E w \in Worker : SaveMaxSeq(w)
  \/ \E w \in Worker : Abandon(w)
  \/ LoseKey

Spec == Init /\ [][Next]_vars
-----------------------------------------------------------------------------
(* Properties.                                                             *)

Top == IF granted = <<>> THEN 0 ELSE granted[Len(granted)].hi

(* Malloc never passes on a value that is no number: what EXISTS, SELECT and *)
(* INCRBY answer is a natural number wherever it is used (cache.go:46-78).    *)
TypeOK ==
  /\ counter \in Nat \cup {Absent}
  /\ saved \in Nat
  /\ call \in [Worker -> Call]
  /\ granted \in Seq([lo : Nat, hi : Nat])
  /\ dropped \subseteq Nat

(* No number is reserved twice, whatever the calls of Malloc (cache.go:46)   *)
(* of several workers interleave with.                                       *)
Disjoint ==
  \A i, j \in DOMAIN granted : i < j => granted[i].hi < granted[j].lo

\* n reached MySQL, is on its way there, or belongs to a failed batch.
Saved(n) ==
  \/ n <= saved
  \/ \E w \in Worker : call[w].pc = "save" /\ call[w].arg = n
  \/ n \in dropped

(* The max_seq a later process starts from (cache.go:71, store.go:164) has    *)
(* every number of a batch that got through, in whatever order the batches   *)
(* save, and never one that was not reserved.                                *)
Remembered ==
  /\ saved <= Top
  /\ \A i \in DOMAIN granted : Saved(granted[i].hi)

Counter == INSTANCE SeqCounter

(* Malloc behaves as one atomic reservation: each takes the numbers right    *)
(* after the last one, as MsgTransfer's Reserve takes for granted.           *)
AtomicMalloc == Counter!Spec
=============================================================================

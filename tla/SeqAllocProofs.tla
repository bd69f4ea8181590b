--------------------------- MODULE SeqAllocProofs ---------------------------
(***************************************************************************)
(* Proofs about SeqAlloc: for any number of workers and any bounds, Malloc *)
(* reserves every number at most once, MySQL keeps up with it, and the     *)
(* four calls together behave as one atomic reservation.                   *)
(***************************************************************************)
EXTENDS SeqAlloc, SequenceTheorems, TLAPS

(* What a worker has learnt is still true when it acts on it.              *)
CallOK(w) ==
  /\ call[w].pc \in {"load", "setnx", "incr"} => call[w].n \in 1..MaxBatch
  /\ call[w].pc = "setnx" /\ counter = Absent => call[w].arg = saved
  /\ call[w].pc = "incr" => Present
  /\ call[w].pc = "save" => call[w].arg <= Top

(* The key, while it exists, is the end of the last reservation, and MySQL *)
(* knows that end while the key does not exist.                            *)
KeyOK ==
  /\ Present => counter = Top
  /\ counter = Absent => saved = Top
  /\ saved <= Top

GrantsOK == \A i \in DOMAIN granted : granted[i].lo <= granted[i].hi /\ granted[i].hi <= Top

IInv ==
  /\ TypeOK
  /\ KeyOK
  /\ \A w \in Worker : CallOK(w)
  /\ GrantsOK
  /\ Disjoint
  /\ Remembered

LEMMA GrantsType ==
  ASSUME TypeOK
  PROVE  /\ DOMAIN granted = 1..Len(granted)
         /\ Len(granted) \in Nat
         /\ \A i \in DOMAIN granted : granted[i].lo \in Nat /\ granted[i].hi \in Nat
<1>1. granted \in Seq([lo : Nat, hi : Nat])
  BY DEF TypeOK
<1>2. DOMAIN granted = 1..Len(granted) /\ Len(granted) \in Nat
  BY <1>1
<1>3. \A i \in DOMAIN granted : granted[i] \in [lo : Nat, hi : Nat]
  BY <1>1, <1>2, ElementOfSeq
<1> QED BY <1>2, <1>3

LEMMA TopType == ASSUME TypeOK PROVE Top \in Nat
<1>1. CASE granted = <<>>
  BY <1>1 DEF Top
<1>2. CASE granted # <<>>
  <2>1. granted \in Seq([lo : Nat, hi : Nat]) BY DEF TypeOK
  <2>2. Len(granted) \in DOMAIN granted BY <1>2, <2>1
  <2> QED BY <2>2, <1>2, GrantsType DEF Top
<1> QED BY <1>1, <1>2

LEMMA InitInv == Init => IInv
  BY AbsentAssumption
  DEF Init, IInv, TypeOK, KeyOK, CallOK, GrantsOK, Disjoint, Remembered, Saved, Top, Idle, Call, Present

-----------------------------------------------------------------------------
(* Every action but IncrBy leaves the reservations alone, so the order of   *)
(* the reservations is theirs to keep and only the rest needs an argument.  *)

LEMMA GrantsKept ==
  ASSUME IInv, UNCHANGED granted
  PROVE  Top' = Top /\ GrantsOK' /\ Disjoint'
  BY DEF IInv, GrantsOK, Disjoint, Top

LEMMA ExistsStep == ASSUME IInv, NEW w \in Worker, Exists(w) PROVE IInv'
<1>1. PICK n \in 1..MaxBatch :
        call' = [call EXCEPT ![w] = [pc |-> IF Present THEN "incr" ELSE "load", n |-> n, arg |-> 0]]
  BY DEF Exists
<1>2. UNCHANGED <<counter, saved, granted, dropped>> /\ call[w].pc = "idle"
  BY DEF Exists, Idle
<1>3. Top' = Top /\ GrantsOK' /\ Disjoint'
  BY <1>2, GrantsKept
<1>4. TypeOK'
  BY <1>1, <1>2, BoundAssumption DEF IInv, TypeOK, Call
<1>5. KeyOK'
  BY <1>2, <1>3 DEF IInv, KeyOK, Present
<1>6. ASSUME NEW v \in Worker PROVE CallOK(v)'
  <2>1. CASE v = w
    <3>1. call'[v] = [pc |-> IF Present THEN "incr" ELSE "load", n |-> n, arg |-> 0]
      BY <1>1, <2>1 DEF IInv, TypeOK
    <3> QED BY <3>1, <1>2 DEF CallOK, Present
  <2>2. CASE v # w
    <3>1. call'[v] = call[v] BY <1>1, <2>2 DEF IInv, TypeOK
    <3> QED BY <3>1, <1>2, <1>3 DEF IInv, CallOK, Present
  <2> QED BY <2>1, <2>2
<1>7. Remembered'
  <2> SUFFICES ASSUME NEW i \in DOMAIN granted PROVE Saved(granted[i].hi)'
    BY <1>2, <1>3 DEF IInv, Remembered
  <2>1. Saved(granted[i].hi) BY DEF IInv, Remembered
  <2>2. ASSUME NEW v \in Worker, call[v].pc = "save" PROVE call'[v] = call[v]
    BY <2>2, <1>1, <1>2 DEF IInv, TypeOK
  <2> QED BY <2>1, <2>2, <1>2 DEF Saved
<1> QED BY <1>3, <1>4, <1>5, <1>6, <1>7 DEF IInv

LEMMA LoadStep == ASSUME IInv, NEW w \in Worker, Load(w) PROVE IInv'
<1>1. /\ call' = [call EXCEPT ![w] = [pc |-> "setnx", n |-> call[w].n, arg |-> saved]]
      /\ UNCHANGED <<counter, saved, granted, dropped>>
      /\ call[w].pc = "load"
  BY DEF Load
<1>2. Top' = Top /\ GrantsOK' /\ Disjoint'
  BY <1>1, GrantsKept
<1>3. /\ call'[w] = [pc |-> "setnx", n |-> call[w].n, arg |-> saved]
      /\ \A v \in Worker : v # w => call'[v] = call[v]
  BY <1>1 DEF IInv, TypeOK
<1>4. TypeOK'
  BY <1>1 DEF IInv, TypeOK, Call
<1>5. KeyOK'
  BY <1>1, <1>2 DEF IInv, KeyOK, Present
<1>6. ASSUME NEW v \in Worker PROVE CallOK(v)'
  <2>1. CASE v = w BY <2>1, <1>1, <1>3 DEF IInv, CallOK, Present
  <2>2. CASE v # w BY <2>2, <1>1, <1>2, <1>3 DEF IInv, CallOK, Present
  <2> QED BY <2>1, <2>2
<1>7. Remembered'
  <2> SUFFICES ASSUME NEW i \in DOMAIN granted PROVE Saved(granted[i].hi)'
    BY <1>1, <1>2 DEF IInv, Remembered
  <2>1. Saved(granted[i].hi) BY DEF IInv, Remembered
  <2>2. ASSUME NEW v \in Worker, call[v].pc = "save" PROVE call'[v] = call[v]
    BY <2>2, <1>1, <1>3
  <2> QED BY <2>1, <2>2, <1>1 DEF Saved
<1> QED BY <1>2, <1>4, <1>5, <1>6, <1>7 DEF IInv

LEMMA SetNXStep == ASSUME IInv, NEW w \in Worker, SetNX(w) PROVE IInv'
<1>1. /\ call' = [call EXCEPT ![w] = [pc |-> "incr", n |-> call[w].n, arg |-> 0]]
      /\ UNCHANGED <<saved, granted, dropped>>
      /\ counter' = IF Present THEN counter ELSE call[w].arg
      /\ call[w].pc = "setnx"
  BY DEF SetNX
<1>2. Top' = Top /\ GrantsOK' /\ Disjoint'
  BY <1>1, GrantsKept
<1>3. /\ call'[w] = [pc |-> "incr", n |-> call[w].n, arg |-> 0]
      /\ \A v \in Worker : v # w => call'[v] = call[v]
  BY <1>1 DEF IInv, TypeOK
<1>4. counter' = Top /\ counter' # Absent
  <2>1. Top \in Nat BY TopType DEF IInv
  <2>2. CallOK(w) BY DEF IInv
  <2> QED BY <1>1, <2>1, <2>2, AbsentAssumption DEF IInv, KeyOK, CallOK, Present
<1>5. TypeOK'
  <2>1. counter' \in Nat BY <1>4, TopType DEF IInv
  <2>2. call' \in [Worker -> Call] BY <1>1 DEF IInv, TypeOK, Call
  <2> QED BY <2>1, <2>2, <1>1 DEF IInv, TypeOK
<1>6. KeyOK'
  BY <1>1, <1>2, <1>4 DEF IInv, KeyOK, Present
<1>7. ASSUME NEW v \in Worker PROVE CallOK(v)'
  <2>1. CASE v = w BY <2>1, <1>1, <1>3, <1>4 DEF IInv, CallOK, Present
  <2>2. CASE v # w BY <2>2, <1>1, <1>2, <1>3, <1>4 DEF IInv, CallOK, Present
  <2> QED BY <2>1, <2>2
<1>8. Remembered'
  <2> SUFFICES ASSUME NEW i \in DOMAIN granted PROVE Saved(granted[i].hi)'
    BY <1>1, <1>2 DEF IInv, Remembered
  <2>1. Saved(granted[i].hi) BY DEF IInv, Remembered
  <2>2. ASSUME NEW v \in Worker, call[v].pc = "save" PROVE call'[v] = call[v]
    BY <2>2, <1>1, <1>3
  <2> QED BY <2>1, <2>2, <1>1 DEF Saved
<1> QED BY <1>2, <1>5, <1>6, <1>7, <1>8 DEF IInv

LEMMA SaveMaxSeqStep == ASSUME IInv, NEW w \in Worker, SaveMaxSeq(w) PROVE IInv'
<1>1. /\ call' = [call EXCEPT ![w] = Idle]
      /\ UNCHANGED <<counter, granted, dropped>>
      /\ saved' = IF call[w].arg > saved THEN call[w].arg ELSE saved
      /\ call[w].pc = "save"
  BY DEF SaveMaxSeq
<1>2. Top' = Top /\ GrantsOK' /\ Disjoint'
  BY <1>1, GrantsKept
<1>3. call'[w] = Idle /\ \A v \in Worker : v # w => call'[v] = call[v]
  BY <1>1 DEF IInv, TypeOK
<1>4. call[w] \in Call /\ saved \in Nat /\ Top \in Nat
  BY TopType DEF IInv, TypeOK
<1>5. call[w].arg \in Nat /\ call[w].arg <= Top
  BY <1>1, <1>4 DEF IInv, CallOK, Call
<1>6. saved' \in Nat /\ saved <= saved' /\ call[w].arg <= saved' /\ saved' <= Top
  BY <1>1, <1>4, <1>5 DEF IInv, KeyOK
<1>7. TypeOK'
  <2>1. call' \in [Worker -> Call] BY <1>1 DEF IInv, TypeOK, Call, Idle
  <2> QED BY <2>1, <1>1, <1>6 DEF IInv, TypeOK
<1>8. counter = Absent => saved' = saved
  BY <1>4, <1>6 DEF IInv, KeyOK
<1>9. KeyOK'
  BY <1>1, <1>2, <1>6, <1>8 DEF IInv, KeyOK, Present
<1>10. ASSUME NEW v \in Worker PROVE CallOK(v)'
  <2>1. CASE v = w BY <2>1, <1>3 DEF CallOK, Idle
  <2>2. CASE v # w BY <2>2, <1>1, <1>2, <1>3, <1>8 DEF IInv, CallOK, Present
  <2> QED BY <2>1, <2>2
<1>11. Remembered'
  <2> SUFFICES ASSUME NEW i \in DOMAIN granted PROVE Saved(granted[i].hi)'
    BY <1>1, <1>2, <1>6 DEF Remembered
  <2>1. Saved(granted[i].hi) /\ granted[i].hi \in Nat
    BY GrantsType DEF IInv, Remembered
  <2>2. CASE granted[i].hi <= saved BY <2>1, <2>2, <1>1, <1>4, <1>6 DEF Saved
  <2>3. CASE granted[i].hi \in dropped BY <2>3, <1>1 DEF Saved
  <2>4. ASSUME NEW v \in Worker, call[v].pc = "save", call[v].arg = granted[i].hi
        PROVE  Saved(granted[i].hi)'
    <3>1. CASE v = w BY <3>1, <2>4, <1>1, <1>6 DEF Saved
    <3>2. CASE v # w BY <3>2, <2>4, <1>1, <1>3 DEF Saved
    <3> QED BY <3>1, <3>2
  <2> QED BY <2>1, <2>2, <2>3, <2>4 DEF Saved
<1> QED BY <1>2, <1>7, <1>9, <1>10, <1>11 DEF IInv

LEMMA AbandonStep == ASSUME IInv, NEW w \in Worker, Abandon(w) PROVE IInv'
<1>1. /\ call' = [call EXCEPT ![w] = Idle]
      /\ UNCHANGED <<counter, saved, granted>>
      /\ dropped' = IF call[w].pc = "save" THEN dropped \cup {call[w].arg} ELSE dropped
  BY DEF Abandon
<1>2. Top' = Top /\ GrantsOK' /\ Disjoint'
  BY <1>1, GrantsKept
<1>3. call'[w] = Idle /\ \A v \in Worker : v # w => call'[v] = call[v]
  BY <1>1 DEF IInv, TypeOK
<1>4. TypeOK'
  <2>1. call' \in [Worker -> Call] BY <1>1 DEF IInv, TypeOK, Call, Idle
  <2>2. call[w].arg \in Nat BY DEF IInv, TypeOK, Call
  <2> QED BY <2>1, <2>2, <1>1 DEF IInv, TypeOK
<1>5. KeyOK'
  BY <1>1, <1>2 DEF IInv, KeyOK, Present
<1>6. ASSUME NEW v \in Worker PROVE CallOK(v)'
  <2>1. CASE v = w BY <2>1, <1>3 DEF CallOK, Idle
  <2>2. CASE v # w BY <2>2, <1>1, <1>2, <1>3 DEF IInv, CallOK, Present
  <2> QED BY <2>1, <2>2
<1>7. Remembered'
  <2> SUFFICES ASSUME NEW i \in DOMAIN granted PROVE Saved(granted[i].hi)'
    BY <1>1, <1>2 DEF IInv, Remembered
  <2>1. Saved(granted[i].hi) BY DEF IInv, Remembered
  <2>2. CASE granted[i].hi <= saved BY <2>2, <1>1 DEF Saved
  <2>3. CASE granted[i].hi \in dropped BY <2>3, <1>1 DEF Saved
  <2>4. ASSUME NEW v \in Worker, call[v].pc = "save", call[v].arg = granted[i].hi
        PROVE  Saved(granted[i].hi)'
    <3>1. CASE v = w BY <3>1, <2>4, <1>1 DEF Saved
    <3>2. CASE v # w BY <3>2, <2>4, <1>1, <1>3 DEF Saved
    <3> QED BY <3>1, <3>2
  <2> QED BY <2>1, <2>2, <2>3, <2>4 DEF Saved
<1> QED BY <1>2, <1>4, <1>5, <1>6, <1>7 DEF IInv

LEMMA LoseKeyStep == ASSUME IInv, LoseKey PROVE IInv'
<1>1. /\ counter' = Absent
      /\ UNCHANGED <<saved, call, granted, dropped>>
      /\ counter = saved
      /\ \A w \in Worker : call[w].pc # "incr" /\ (call[w].pc = "setnx" => call[w].arg = saved)
  BY DEF LoseKey, Quiet
<1>2. Top' = Top /\ GrantsOK' /\ Disjoint'
  BY <1>1, GrantsKept
<1>3. TypeOK'
  BY <1>1 DEF IInv, TypeOK
<1>4. KeyOK'
  BY <1>1, <1>2, AbsentAssumption DEF IInv, TypeOK, KeyOK, Present, LoseKey
<1>5. \A w \in Worker : CallOK(w)'
  BY <1>1, <1>2 DEF IInv, CallOK, Present
<1>6. Remembered'
  BY <1>1, <1>2 DEF IInv, Remembered, Saved
<1> QED BY <1>2, <1>3, <1>4, <1>5, <1>6 DEF IInv

-----------------------------------------------------------------------------
(* A reservation starts right after the last one.                          *)

LEMMA IncrByGrants ==
  ASSUME IInv, NEW w \in Worker, IncrBy(w)
  PROVE  /\ call[w].pc = "incr" /\ call[w].n \in 1..MaxBatch
         /\ counter' = Top + call[w].n
         /\ granted' = Append(granted, [lo |-> Top + 1, hi |-> Top + call[w].n])
         /\ call' = [call EXCEPT ![w] = [pc |-> "save", n |-> 0, arg |-> Top + call[w].n]]
         /\ UNCHANGED <<saved, dropped>>
<1>1. CallOK(w) /\ call[w].pc = "incr"
  BY DEF IInv, IncrBy
<1>2. Present /\ counter = Top
  BY <1>1 DEF IInv, KeyOK, CallOK
<1> QED BY <1>1, <1>2 DEF IncrBy, CallOK

LEMMA IncrByStep == ASSUME IInv, NEW w \in Worker, IncrBy(w) PROVE IInv'
<1> DEFINE n == call[w].n
           g == [lo |-> Top + 1, hi |-> Top + n]
<1>1. /\ call[w].pc = "incr" /\ n \in 1..MaxBatch
      /\ counter' = Top + n
      /\ granted' = Append(granted, g)
      /\ call' = [call EXCEPT ![w] = [pc |-> "save", n |-> 0, arg |-> Top + n]]
      /\ UNCHANGED <<saved, dropped>>
  BY IncrByGrants
<1>2. Top \in Nat /\ n \in Nat \ {0} /\ saved \in Nat /\ saved <= Top
  BY <1>1, TopType, BoundAssumption DEF IInv, TypeOK, KeyOK
<1>3. g \in [lo : Nat, hi : Nat]
  BY <1>2
<1>4. granted \in Seq([lo : Nat, hi : Nat])
  BY DEF IInv, TypeOK
<1>5. /\ granted' \in Seq([lo : Nat, hi : Nat])
      /\ Len(granted') = Len(granted) + 1
      /\ granted' # <<>>
      /\ \A i \in 1..Len(granted) : granted'[i] = granted[i]
      /\ granted'[Len(granted) + 1] = g
  <2> HIDE DEF g
  <2>1. /\ Append(granted, g) \in Seq([lo : Nat, hi : Nat])
        /\ Len(Append(granted, g)) = Len(granted) + 1
        /\ Append(granted, g) # <<>>
        /\ \A i \in 1..Len(granted) : Append(granted, g)[i] = granted[i]
        /\ Append(granted, g)[Len(granted) + 1] = g
    BY <1>3, <1>4, AppendProperties
  <2> QED BY <2>1, <1>1
<1>6. Top' = Top + n
  BY <1>5 DEF Top
<1>7. DOMAIN granted = 1..Len(granted) /\ Len(granted) \in Nat
  BY GrantsType DEF IInv
<1>8. DOMAIN granted' = 1..(Len(granted) + 1)
  BY <1>5, LenProperties
<1>9. \A i \in DOMAIN granted' :
        \/ i \in DOMAIN granted /\ granted'[i] = granted[i]
        \/ i = Len(granted) + 1 /\ granted'[i] = g
  BY <1>5, <1>7, <1>8
<1>10. \A v \in Worker : v # w => call'[v] = call[v]
  BY <1>1 DEF IInv, TypeOK
<1>11. call'[w] = [pc |-> "save", n |-> 0, arg |-> Top + n]
  BY <1>1 DEF IInv, TypeOK
<1>12. TypeOK'
  <2>1. call' \in [Worker -> Call] BY <1>1, <1>2 DEF IInv, TypeOK, Call
  <2>2. counter' \in Nat BY <1>1, <1>2
  <2> QED BY <2>1, <2>2, <1>1, <1>5 DEF IInv, TypeOK
<1>13. KeyOK'
  BY <1>1, <1>2, <1>6, AbsentAssumption DEF KeyOK, Present
<1>14. ASSUME NEW v \in Worker PROVE CallOK(v)'
  <2>1. CASE v = w BY <2>1, <1>2, <1>6, <1>11 DEF CallOK
  <2>2. CASE v # w
    <3>1. call'[v] = call[v] /\ call[v].arg \in Nat /\ CallOK(v)
      BY <2>2, <1>10 DEF IInv, TypeOK, Call
    <3>2. counter' # Absent BY <1>1, <1>2, AbsentAssumption
    <3> QED BY <3>1, <3>2, <1>2, <1>6 DEF CallOK, Present
  <2> QED BY <2>1, <2>2
<1>15. GrantsOK'
  <2> SUFFICES ASSUME NEW i \in DOMAIN granted'
               PROVE  granted'[i].lo <= granted'[i].hi /\ granted'[i].hi <= Top'
    BY DEF GrantsOK
  <2>1. CASE i \in DOMAIN granted /\ granted'[i] = granted[i]
    BY <2>1, <1>2, <1>6, GrantsType DEF IInv, GrantsOK
  <2>2. CASE granted'[i] = g BY <2>2, <1>2, <1>6
  <2> QED BY <2>1, <2>2, <1>9
<1>16. Disjoint'
  <2> SUFFICES ASSUME NEW i \in DOMAIN granted', NEW j \in DOMAIN granted', i < j
               PROVE  granted'[i].hi < granted'[j].lo
    BY DEF Disjoint
  <2>1. i \in DOMAIN granted /\ granted'[i] = granted[i]
    BY <1>7, <1>8, <1>9
  <2>2. CASE j \in DOMAIN granted /\ granted'[j] = granted[j]
    BY <2>1, <2>2 DEF IInv, Disjoint
  <2>3. CASE granted'[j] = g
    BY <2>1, <2>3, <1>2, GrantsType DEF IInv, GrantsOK
  <2> QED BY <2>2, <2>3, <1>9
<1>17. Remembered'
  <2>1. saved' <= Top' BY <1>1, <1>2, <1>6
  <2>2. ASSUME NEW i \in DOMAIN granted' PROVE Saved(granted[i].hi)'
    <3>1. CASE granted'[i] = g BY <3>1, <1>11 DEF Saved
    <3>2. CASE i \in DOMAIN granted /\ granted'[i] = granted[i]
      <4>1. Saved(granted[i].hi) BY <3>2 DEF IInv, Remembered
      <4>2. ASSUME NEW v \in Worker, call[v].pc = "save" PROVE call'[v] = call[v]
        BY <4>2, <1>1, <1>10
      <4> QED BY <4>1, <4>2, <3>2, <1>1 DEF Saved
    <3> QED BY <3>1, <3>2, <1>9
  <2> QED BY <2>1, <2>2 DEF Remembered
<1> QED BY <1>12, <1>13, <1>14, <1>15, <1>16, <1>17 DEF IInv

-----------------------------------------------------------------------------
LEMMA NextInv == IInv /\ [Next]_vars => IInv'
<1> SUFFICES ASSUME IInv, [Next]_vars PROVE IInv'
  OBVIOUS
<1>1. CASE \E w \in Worker : Exists(w) BY <1>1, ExistsStep
<1>2. CASE \E w \in Worker : Load(w) BY <1>2, LoadStep
<1>3. CASE \E w \in Worker : SetNX(w) BY <1>3, SetNXStep
<1>4. CASE \E w \in Worker : IncrBy(w) BY <1>4, IncrByStep
<1>5. CASE \E w \in Worker : SaveMaxSeq(w) BY <1>5, SaveMaxSeqStep
<1>6. CASE \E w \in Worker : Abandon(w) BY <1>6, AbandonStep
<1>7. CASE LoseKey BY <1>7, LoseKeyStep
<1>8. CASE UNCHANGED vars
  BY <1>8 DEF vars, IInv, TypeOK, KeyOK, CallOK, GrantsOK, Disjoint, Remembered, Saved, Top, Present
<1> QED BY <1>1, <1>2, <1>3, <1>4, <1>5, <1>6, <1>7, <1>8 DEF Next

LEMMA Invariance == Spec => []IInv
<1> QED BY InitInv, NextInv, PTL DEF Spec

(* No number of a conversation is reserved twice, however many workers run  *)
(* the four calls of Malloc at once and wherever they give up.              *)
THEOREM NoNumberTwice == Spec => []Disjoint
<1>1. IInv => Disjoint BY DEF IInv
<1> QED BY <1>1, Invariance, PTL

(* MySQL's max_seq never runs ahead of the reservations and knows the end   *)
(* of every batch that got through SaveMaxSeq.                              *)
THEOREM MaxSeqRemembered == Spec => [](TypeOK /\ Remembered)
<1>1. IInv => TypeOK /\ Remembered BY DEF IInv
<1> QED BY <1>1, Invariance, PTL

(* The counter, the saved maximum and the workers' calls stay within their  *)
(* types.                                                                   *)
THEOREM SeqTypeOK == Spec => []TypeOK
<1> QED BY MaxSeqRemembered, PTL

LEMMA MallocStep == IInv /\ [Next]_vars => [Counter!Next]_granted
<1> SUFFICES ASSUME IInv, [Next]_vars, granted' # granted PROVE Counter!Next
  OBVIOUS
<1>1. PICK w \in Worker : IncrBy(w)
  BY DEF Next, vars, Exists, Load, SetNX, SaveMaxSeq, Abandon, LoseKey
<1>2. /\ call[w].n \in 1..MaxBatch
      /\ granted' = Append(granted, [lo |-> Top + 1, hi |-> Top + call[w].n])
  BY <1>1, IncrByGrants
<1>3. Counter!Top = Top
  BY DEF Top, Counter!Top
<1>4. Counter!Grant(call[w].n)
  BY <1>2, <1>3 DEF Counter!Grant
<1> QED BY <1>2, <1>4 DEF Counter!Next

(* The calls of Malloc implement one atomic reservation: EXISTS, SELECT,    *)
(* SETNX and INCRBY of any workers may interleave in any way.               *)
THEOREM MallocIsAtomic == Spec => AtomicMalloc
<1>1. Init => Counter!Init
  BY DEF Init, Counter!Init
<1>2. Spec => [][Counter!Next]_granted
  BY Invariance, MallocStep, PTL DEF Spec
<1> QED BY <1>1, <1>2, PTL DEF Spec, AtomicMalloc, Counter!Spec
=============================================================================
